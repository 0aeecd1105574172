-------------------------- MODULE DailyPuffdleProofs --------------------------
(***************************************************************************)
(* Proofs about DailyPuffdle, for any number of accounts, tabs, days and   *)
(* words: every finished game is counted once, an accepted guess is in the *)
(* game it was typed for, and what an answer says of the game is true.     *)
(***************************************************************************)
EXTENDS DailyPuffdle, FiniteSetTheorems, WellFoundedInduction, TLAPS

-----------------------------------------------------------------------------
(* Numbers, and functions defined by recursion along them. *)

LEMMA LeastNumber ==
  ASSUME NEW T \in SUBSET Nat, T # {}
  PROVE  \E x \in T : \A y \in T : x <= y
<1>1. IsWellFoundedOn(OpToRel(<, Nat), Nat)
  BY NatLessThanWellFounded
<1>2. \E x \in T : \A y \in T : ~(<<y, x>> \in OpToRel(<, Nat))
  BY <1>1, WFMin
<1>3. \A x \in T, y \in T : ~(<<y, x>> \in OpToRel(<, Nat)) => x <= y
  BY DEF OpToRel
<1>4. QED  BY <1>2, <1>3

(* Induction along the numbers up to n, over the set of those that have been *)
(* reached.                                                                  *)
LEMMA UpToNumber ==
  ASSUME NEW n \in Nat, NEW T, 0 \in T, \A i \in 1..n : i - 1 \in T => i \in T
  PROVE  \A i \in 0..n : i \in T
<1> SUFFICES ASSUME NEW k \in 0..n, k \notin T PROVE FALSE
  OBVIOUS
<1> DEFINE B == {i \in 0..n : i \notin T}
<1>1. PICK x \in B : \A y \in B : x <= y
  <2>1. B \in SUBSET Nat /\ k \in B  OBVIOUS
  <2>2. QED  BY <2>1, LeastNumber
<1>2. x # 0 /\ x \in 0..n /\ x \notin T
  OBVIOUS
<1>3. x \in 1..n /\ x - 1 \in 0..n /\ x - 1 < x
  BY <1>2
<1>4. x - 1 \in T
  BY <1>1, <1>3
<1>5. QED  BY <1>2, <1>3, <1>4

(* A function that is defined by recursion along 0..n exists.                *)
Recursive(n, S, base, step) ==
  \E f \in [0..n -> S] : f[0] = base /\ \A i \in 1..n : f[i] = step[i][f[i - 1]]

LEMMA RecursionExists ==
  ASSUME NEW n \in Nat, NEW S, NEW base \in S, NEW step \in [1..n -> [S -> S]]
  PROVE  Recursive(n, S, base, step)
<1> DEFINE Follows(f, k) == f[0] = base /\ \A i \in 1..k : f[i] = step[i][f[i - 1]]
           T == {k \in 0..n : \E f \in [0..n -> S] : Follows(f, k)}
<1>1. 0 \in T
  <2>1. [i \in 0..n |-> base] \in [0..n -> S]  OBVIOUS
  <2>2. Follows([i \in 0..n |-> base], 0)  OBVIOUS
  <2>3. 0 \in 0..n  OBVIOUS
  <2>4. QED  BY <2>1, <2>2, <2>3
<1>2. ASSUME NEW k \in 1..n, k - 1 \in T  PROVE k \in T
  <2>1. PICK f \in [0..n -> S] : Follows(f, k - 1)
    BY <1>2
  <2>2. k - 1 \in 0..n /\ k \in 0..n  OBVIOUS
  <2>3. step[k][f[k - 1]] \in S  BY <2>2
  <2>4. PICK g : g = [f EXCEPT ![k] = step[k][f[k - 1]]]  OBVIOUS
  <2>5. g \in [0..n -> S]  BY <2>3, <2>4
  <2>6. g[k] = step[k][f[k - 1]] /\ \A i \in 0..n : i # k => g[i] = f[i]
    BY <2>2, <2>4
  <2>7. g[0] = base  BY <2>1, <2>6
  <2>8. ASSUME NEW i \in 1..k PROVE g[i] = step[i][g[i - 1]]
    <3>1. i \in 0..n /\ i - 1 \in 0..n /\ i - 1 # k  OBVIOUS
    <3>2. g[i - 1] = f[i - 1]  BY <3>1, <2>6
    <3>3. CASE i = k  BY <3>2, <3>3, <2>6
    <3>4. CASE i # k
      <4>1. i \in 1..(k - 1)  BY <3>4
      <4>2. f[i] = step[i][f[i - 1]]  BY <2>1, <4>1
      <4>3. g[i] = f[i]  BY <3>1, <3>4, <2>6
      <4>4. QED  BY <3>2, <4>2, <4>3
    <3>5. QED  BY <3>3, <3>4
  <2>9. Follows(g, k)  BY <2>7, <2>8
  <2>10. QED  BY <2>2, <2>5, <2>9
<1>3. \A k \in 0..n : k \in T
  <2> HIDE DEF T
  <2>1. QED  BY <1>1, <1>2, UpToNumber
<1>4. n \in T  BY <1>3
<1>5. QED  BY <1>4 DEF Recursive

-----------------------------------------------------------------------------
(* The tiles of a guess. *)

Exactly(target, guess, i) == guess[i] = target[i]
Unmatched(target, guess) ==
  [c \in Letters |-> Cardinality({i \in Positions : target[i] = c /\ ~Exactly(target, guess, i)})]
FirstPass(target, guess) ==
  [i \in Positions |-> IF Exactly(target, guess, i) THEN "correct" ELSE "absent"]
Passed(p, guess, i) ==
  IF p.row[i] # "correct" /\ p.left[guess[i]] > 0
    THEN [left |-> [p.left EXCEPT ![guess[i]] = @ - 1],
          row  |-> [p.row EXCEPT ![i] = "present"]]
    ELSE p
Passes == [left : [Letters -> Nat], row : [Positions -> Tile]]

LEMMA TileRecursion ==
  ASSUME NEW target \in Word, NEW guess \in Word
  PROVE  \E f \in [0..WordLength -> Passes] :
           /\ f[0] = [left |-> Unmatched(target, guess), row |-> FirstPass(target, guess)]
           /\ \A i \in 1..WordLength : f[i] = Passed(f[i - 1], guess, i)
           /\ EvaluateGuess(target, guess) = f[WordLength].row
<1> DEFINE n == WordLength
           base == [left |-> Unmatched(target, guess), row |-> FirstPass(target, guess)]
           Body(f) == [i \in 0..n |-> IF i = 0 THEN base
                                      ELSE LET p == f[i - 1] IN Passed(p, guess, i)]
           pass == CHOOSE f : f = Body(f)
<1>1. n \in Nat \ {0}  BY PuffdleGameAssumption
<1>2. base \in Passes
  <2>1. \A c \in Letters : IsFiniteSet({i \in Positions : target[i] = c /\ ~Exactly(target, guess, i)})
    <3>1. IsFiniteSet(Positions)  BY <1>1, FS_Interval DEF Positions
    <3>2. QED  BY <3>1, FS_Subset
  <2>2. Unmatched(target, guess) \in [Letters -> Nat]
    BY <2>1, FS_CardinalityType DEF Unmatched
  <2>3. FirstPass(target, guess) \in [Positions -> Tile]
    BY DEF FirstPass, Tile
  <2>4. QED  BY <2>2, <2>3 DEF Passes
<1>3. ASSUME NEW p \in Passes, NEW i \in 1..n PROVE Passed(p, guess, i) \in Passes
  <2>1. guess[i] \in Letters /\ i \in Positions  BY DEF Word, Positions
  <2>2. p.left \in [Letters -> Nat] /\ p.row \in [Positions -> Tile]  BY DEF Passes
  <2>3. CASE p.row[i] # "correct" /\ p.left[guess[i]] > 0
    <3>1. p.left[guess[i]] - 1 \in Nat  BY <2>1, <2>2, <2>3
    <3>2. [p.left EXCEPT ![guess[i]] = @ - 1] \in [Letters -> Nat]  BY <2>2, <3>1
    <3>3. [p.row EXCEPT ![i] = "present"] \in [Positions -> Tile]  BY <2>2 DEF Tile
    <3>4. QED  BY <2>3, <3>2, <3>3 DEF Passed, Passes
  <2>4. CASE ~(p.row[i] # "correct" /\ p.left[guess[i]] > 0)
    BY <2>4 DEF Passed
  <2>5. QED  BY <2>3, <2>4
<1>4. PICK step : step = [i \in 1..n |-> [p \in Passes |-> Passed(p, guess, i)]]
  OBVIOUS
<1>5. step \in [1..n -> [Passes -> Passes]]  BY <1>3, <1>4
<1>6. PICK f \in [0..n -> Passes] : f[0] = base /\ \A i \in 1..n : f[i] = step[i][f[i - 1]]
  <2>1. PICK m \in Nat, b \in Passes : m = n /\ b = base  BY <1>1, <1>2
  <2>2. step \in [1..m -> [Passes -> Passes]]  BY <1>5, <2>1
  <2>3. Recursive(m, Passes, b, step)  BY <2>1, <2>2, RecursionExists
  <2>4. QED  BY <2>1, <2>3 DEF Recursive
<1>7. \A i \in 1..n : f[i] = Passed(f[i - 1], guess, i)
  <2>1. \A i \in 1..n : f[i - 1] \in Passes  BY <1>1
  <2>2. QED  BY <1>4, <1>6, <2>1
<1>8. f = Body(f)
  <2>1. \A i \in 0..n : f[i] = IF i = 0 THEN base ELSE Passed(f[i - 1], guess, i)
    BY <1>6, <1>7
  <2>2. QED  BY <2>1
<1>9. pass = Body(pass)
  <2> HIDE DEF Body
  <2>1. QED  BY <1>8
<1>10. pass[0] = base /\ \A i \in 1..n : pass[i] = Passed(pass[i - 1], guess, i)
  <2> HIDE DEF pass, base
  <2>1. /\ 0 \in 0..n
        /\ \A i \in 1..n : i \in 0..n /\ i # 0
    BY <1>1
  <2>2. QED  BY <1>9, <2>1
<1>11. EvaluateGuess(target, guess) = pass[n].row
  BY DEF EvaluateGuess, Passed, Unmatched, FirstPass, Exactly
<1>12. pass \in [0..n -> Passes]
  <2>1. \A i \in 1..n : pass[i - 1] \in Passes => pass[i] \in Passes
    BY <1>3, <1>10
  <2>2. PICK T : T = {i \in 0..n : pass[i] \in Passes}  OBVIOUS
  <2>3. \A i \in 1..n : i - 1 \in T => i \in T
    <3> HIDE DEF pass
    <3>1. QED  BY <1>1, <2>1, <2>2
  <2>4. 0 \in T  BY <1>1, <1>2, <1>10, <2>2
  <2>5. \A i \in 0..n : i \in T
    <3> HIDE DEF pass, n
    <3>1. n \in Nat  BY <1>1
    <3>2. QED  BY <2>3, <2>4, <3>1, UpToNumber
  <2>6. \A i \in 0..n : pass[i] \in Passes  BY <2>2, <2>5
  <2>7. pass = [i \in 0..n |-> pass[i]]  BY <1>9
  <2>8. QED  BY <2>6, <2>7
<1>13. QED  BY <1>10, <1>11, <1>12
TilesOf(guess, row, c, t) == {i \in Positions : guess[i] = c /\ row[i] = t}

(* After the second pass has come to position i.                             *)
PassSound(target, guess, p, i) ==
  /\ \A j \in Positions : p.row[j] = "correct" <=> Exactly(target, guess, j)
  /\ \A j \in Positions : j > i => p.row[j] # "present"
  /\ \A c \in Letters :
       Cardinality(TilesOf(guess, p.row, c, "present")) + p.left[c] = Unmatched(target, guess)[c]
  /\ \A j \in Positions : j <= i /\ p.row[j] = "absent" => p.left[guess[j]] = 0
  /\ \A j, k \in Positions :
       j <= i /\ guess[j] = guess[k] /\ p.row[j] = "absent" /\ p.row[k] = "present" => k < j

LEMMA PositionsAreFinite ==
  /\ Positions \subseteq Nat /\ IsFiniteSet(Positions) /\ WordLength \in Nat \ {0}
  /\ \A S \in SUBSET Positions : IsFiniteSet(S) /\ Cardinality(S) \in Nat
<1>1. WordLength \in Nat \ {0}  BY PuffdleGameAssumption
<1>2. Positions \subseteq Nat /\ IsFiniteSet(Positions)  BY <1>1, FS_Interval DEF Positions
<1>3. \A S \in SUBSET Positions : IsFiniteSet(S)  BY <1>2, FS_Subset
<1>4. QED  BY <1>1, <1>2, <1>3, FS_CardinalityType

LEMMA PassBegins ==
  ASSUME NEW target \in Word, NEW guess \in Word, NEW p \in Passes,
         p = [left |-> Unmatched(target, guess), row |-> FirstPass(target, guess)]
  PROVE  PassSound(target, guess, p, 0)
<1>1. p.left = Unmatched(target, guess) /\ p.left \in [Letters -> Nat] /\ p.row = FirstPass(target, guess)
  BY DEF Passes
<1>2. \A j \in Positions : p.row[j] = IF Exactly(target, guess, j) THEN "correct" ELSE "absent"
  BY <1>1 DEF FirstPass
<1>3. \A c \in Letters : Cardinality(TilesOf(guess, p.row, c, "present")) = 0
  <2>1. \A c \in Letters : TilesOf(guess, p.row, c, "present") = {}
    BY <1>2 DEF TilesOf
  <2>2. QED  BY <2>1, FS_EmptySet
<1>4. \A c \in Letters :
        Cardinality(TilesOf(guess, p.row, c, "present")) + p.left[c] = Unmatched(target, guess)[c]
  BY <1>1, <1>3
<1>5. \A j \in Positions : ~(j <= 0)
  BY PositionsAreFinite DEF Positions
<1>6. QED  BY <1>2, <1>4, <1>5 DEF PassSound

LEMMA PassFollows ==
  ASSUME NEW target \in Word, NEW guess \in Word, NEW p \in Passes, NEW q \in Passes,
         NEW i \in Positions, PassSound(target, guess, p, i - 1), q = Passed(p, guess, i)
  PROVE  PassSound(target, guess, q, i)
<1>1. guess[i] \in Letters /\ i \in Nat /\ \A j \in Positions : j \in Nat /\ guess[j] \in Letters
  BY PositionsAreFinite DEF Word
<1>2. /\ p.left \in [Letters -> Nat] /\ p.row \in [Positions -> Tile]
      /\ q.left \in [Letters -> Nat] /\ q.row \in [Positions -> Tile]
  BY DEF Passes
<1>3. /\ \A j \in Positions : p.row[j] = "correct" <=> Exactly(target, guess, j)
      /\ \A j \in Positions : j > i - 1 => p.row[j] # "present"
      /\ \A c \in Letters :
           Cardinality(TilesOf(guess, p.row, c, "present")) + p.left[c] = Unmatched(target, guess)[c]
      /\ \A j \in Positions : j <= i - 1 /\ p.row[j] = "absent" => p.left[guess[j]] = 0
      /\ \A j, k \in Positions :
           j <= i - 1 /\ guess[j] = guess[k] /\ p.row[j] = "absent" /\ p.row[k] = "present" => k < j
  BY DEF PassSound
<1>4. p.row[i] # "present"  BY <1>1, <1>3
<1>5. \A j \in Positions : j <= i => j <= i - 1 \/ j = i  BY <1>1
<1>6. CASE p.row[i] # "correct" /\ p.left[guess[i]] > 0
  <2>1. /\ q.left = [p.left EXCEPT ![guess[i]] = p.left[guess[i]] - 1]
        /\ q.row = [p.row EXCEPT ![i] = "present"]
    BY <1>6 DEF Passed
  <2>2. /\ \A c \in Letters : q.left[c] = IF c = guess[i] THEN p.left[c] - 1 ELSE p.left[c]
        /\ \A j \in Positions : q.row[j] = IF j = i THEN "present" ELSE p.row[j]
    BY <1>1, <1>2, <2>1
  <2>3. \A j \in Positions : q.row[j] = "correct" <=> Exactly(target, guess, j)
    BY <1>3, <1>6, <2>2
  <2>4. ASSUME NEW j \in Positions, j > i
        PROVE  q.row[j] # "present"
    <3>1. j # i /\ j > i - 1  BY <1>1, <2>4
    <3>2. p.row[j] # "present"  BY <1>3, <3>1
    <3>3. QED  BY <2>2, <3>1, <3>2
  <2>5. ASSUME NEW c \in Letters
        PROVE  Cardinality(TilesOf(guess, q.row, c, "present")) + q.left[c] = Unmatched(target, guess)[c]
    <3>1. PICK P \in SUBSET Positions : P = TilesOf(guess, p.row, c, "present")
      BY DEF TilesOf
    <3>2. IsFiniteSet(P) /\ Cardinality(P) \in Nat  BY <3>1, PositionsAreFinite
    <3>3. CASE c = guess[i]
      <4>1. TilesOf(guess, q.row, c, "present") = P \cup {i} /\ i \notin P
        BY <1>4, <2>2, <3>1, <3>3 DEF TilesOf
      <4>2. Cardinality(P \cup {i}) = Cardinality(P) + 1  BY <3>2, <4>1, FS_AddElement
      <4>3. p.left[c] \in Nat /\ q.left[c] = p.left[c] - 1  BY <1>2, <2>2, <3>3
      <4>4. Cardinality(P) + p.left[c] = Unmatched(target, guess)[c]  BY <1>3, <3>1
      <4>5. Cardinality(TilesOf(guess, q.row, c, "present")) = Cardinality(P) + 1
        BY <4>1, <4>2
      <4>6. QED  BY <3>2, <4>3, <4>4, <4>5
    <3>4. CASE c # guess[i]
      <4>1. TilesOf(guess, q.row, c, "present") = P
        BY <2>2, <3>1, <3>4 DEF TilesOf
      <4>2. QED  BY <1>3, <2>2, <3>1, <3>4, <4>1
    <3>5. QED  BY <3>3, <3>4
  <2>6. \A j \in Positions : j <= i /\ q.row[j] = "absent" =>
          j <= i - 1 /\ p.row[j] = "absent" /\ p.left[guess[j]] = 0 /\ guess[j] # guess[i]
    BY <1>1, <1>2, <1>3, <1>5, <1>6, <2>2
  <2>7. \A j \in Positions : j <= i /\ q.row[j] = "absent" => q.left[guess[j]] = 0
    BY <1>1, <2>2, <2>6
  <2>8. \A j, k \in Positions :
          j <= i /\ guess[j] = guess[k] /\ q.row[j] = "absent" /\ q.row[k] = "present" => k < j
    BY <1>3, <2>2, <2>6
  <2>9. QED  BY <2>3, <2>4, <2>5, <2>7, <2>8 DEF PassSound
<1>7. CASE ~(p.row[i] # "correct" /\ p.left[guess[i]] > 0)
  <2>1. q = p  BY <1>7 DEF Passed
  <2>2. p.row[i] = "absent" => p.left[guess[i]] = 0
    BY <1>1, <1>2, <1>7
  <2>3. \A j \in Positions : j > i => j > i - 1  BY <1>1
  <2>4. \A k \in Positions : p.row[k] = "present" => k < i
    <3>1. \A k \in Positions : k > i - 1 \/ k < i  BY <1>1
    <3>2. QED  BY <1>3, <3>1
  <2>5. /\ \A j \in Positions : j <= i /\ p.row[j] = "absent" => p.left[guess[j]] = 0
        /\ \A j, k \in Positions :
             j <= i /\ guess[j] = guess[k] /\ p.row[j] = "absent" /\ p.row[k] = "present" => k < j
    BY <1>3, <1>5, <2>2, <2>4
  <2>6. QED  BY <1>3, <2>1, <2>3, <2>5 DEF PassSound
<1>8. QED  BY <1>6, <1>7

(* The tiles of a guess tell the truth, whatever the two words are.          *)
LEMMA TilesAreTrue ==
  ASSUME NEW target \in Word, NEW guess \in Word
  PROVE  /\ EvaluateGuess(target, guess) \in [Positions -> Tile]
         /\ TilesTellTheTruth(target, guess, EvaluateGuess(target, guess))
<1>1. PICK f \in [0..WordLength -> Passes] :
        /\ f[0] = [left |-> Unmatched(target, guess), row |-> FirstPass(target, guess)]
        /\ \A i \in 1..WordLength : f[i] = Passed(f[i - 1], guess, i)
        /\ EvaluateGuess(target, guess) = f[WordLength].row
  BY TileRecursion
<1>2. WordLength \in Nat  BY PositionsAreFinite
<1>3. PICK T : T = {i \in 0..WordLength : PassSound(target, guess, f[i], i)}  OBVIOUS
<1>4. 0 \in T
  <2>1. f[0] \in Passes /\ 0 \in 0..WordLength  BY <1>2
  <2>2. PassSound(target, guess, f[0], 0)  BY <1>1, <2>1, PassBegins
  <2>3. QED  BY <1>3, <2>1, <2>2
<1>5. ASSUME NEW i \in 1..WordLength, i - 1 \in T PROVE i \in T
  <2>1. i \in Positions /\ i \in 0..WordLength /\ i - 1 \in 0..WordLength
    BY <1>2 DEF Positions
  <2>2. f[i] \in Passes /\ f[i - 1] \in Passes /\ f[i] = Passed(f[i - 1], guess, i)
    BY <1>1, <2>1
  <2>3. PassSound(target, guess, f[i - 1], i - 1)  BY <1>3, <1>5
  <2>4. PassSound(target, guess, f[i], i)  BY <2>1, <2>2, <2>3, PassFollows
  <2>5. QED  BY <1>3, <2>1, <2>4
<1>6. \A i \in 0..WordLength : i \in T  BY <1>2, <1>4, <1>5, UpToNumber
<1>7. PICK p \in Passes : p = f[WordLength] /\ PassSound(target, guess, p, WordLength)
  <2>1. WordLength \in 0..WordLength  BY <1>2
  <2>2. QED  BY <1>1, <1>3, <1>6, <2>1
<1>8. PICK row \in [Positions -> Tile] : row = p.row /\ row = EvaluateGuess(target, guess)
  BY <1>1, <1>7 DEF Passes
<1>9. /\ \A j \in Positions : row[j] = "correct" <=> guess[j] = target[j]
      /\ \A c \in Letters :
           Cardinality(TilesOf(guess, row, c, "present")) + p.left[c] = Unmatched(target, guess)[c]
      /\ \A j \in Positions : row[j] = "absent" => p.left[guess[j]] = 0
      /\ \A j, k \in Positions :
           guess[j] = guess[k] /\ row[j] = "absent" /\ row[k] = "present" => k < j
  <2>1. \A j \in Positions : j <= WordLength  BY <1>2 DEF Positions
  <2>2. QED  BY <1>7, <1>8, <2>1 DEF PassSound, Exactly
<1> DEFINE Have(w, c) == {i \in Positions : w[i] = c}
           Least(a, b) == IF a <= b THEN a ELSE b
<1>10. ASSUME NEW c \in Letters
       PROVE  Cardinality(TilesOf(guess, row, c, "correct")) + Cardinality(TilesOf(guess, row, c, "present"))
                = Least(Cardinality(Have(target, c)), Cardinality(Have(guess, c)))
  <2>1. PICK correct \in SUBSET Positions, present \in SUBSET Positions, absent \in SUBSET Positions :
          /\ correct = TilesOf(guess, row, c, "correct")
          /\ present = TilesOf(guess, row, c, "present")
          /\ absent = TilesOf(guess, row, c, "absent")
    BY DEF TilesOf
  <2>2. PICK ours \in SUBSET Positions, theirs \in SUBSET Positions, unmatched \in SUBSET Positions :
          /\ ours = Have(guess, c)
          /\ theirs = Have(target, c)
          /\ unmatched = {i \in Positions : target[i] = c /\ guess[i] # target[i]}
    OBVIOUS
  <2>3. /\ IsFiniteSet(correct) /\ IsFiniteSet(present) /\ IsFiniteSet(absent)
        /\ IsFiniteSet(ours) /\ IsFiniteSet(theirs) /\ IsFiniteSet(unmatched)
        /\ Cardinality(correct) \in Nat /\ Cardinality(present) \in Nat
        /\ Cardinality(absent) \in Nat /\ Cardinality(ours) \in Nat
        /\ Cardinality(theirs) \in Nat /\ Cardinality(unmatched) \in Nat
    BY <2>1, <2>2, PositionsAreFinite
  <2>4. theirs = correct \cup unmatched /\ correct \cap unmatched = {}
    BY <1>9, <2>1, <2>2 DEF TilesOf
  <2>5. Cardinality(theirs) = Cardinality(correct) + Cardinality(unmatched)
    <3>1. Cardinality(correct \cup unmatched)
            = Cardinality(correct) + Cardinality(unmatched) - Cardinality(correct \cap unmatched)
      BY <2>3, FS_Union
    <3>2. Cardinality(correct \cap unmatched) = 0  BY <2>4, FS_EmptySet
    <3>3. Cardinality(theirs)
            = Cardinality(correct) + Cardinality(unmatched) - Cardinality(correct \cap unmatched)
      BY <2>4, <3>1
    <3>4. QED  BY <2>3, <3>2, <3>3
  <2>6. \A j \in Positions : row[j] \in {"correct", "present", "absent"}
    BY DEF Tile
  <2>7. ours = (correct \cup present) \cup absent /\ correct \cap present = {}
    BY <2>1, <2>2, <2>6 DEF TilesOf
  <2>8. Cardinality(correct \cup present) = Cardinality(correct) + Cardinality(present)
        /\ IsFiniteSet(correct \cup present)
    <3>1. /\ IsFiniteSet(correct \cup present)
          /\ Cardinality(correct \cup present)
              = Cardinality(correct) + Cardinality(present) - Cardinality(correct \cap present)
      BY <2>3, FS_Union
    <3>2. Cardinality(correct \cap present) = 0  BY <2>7, FS_EmptySet
    <3>3. QED  BY <2>3, <3>1, <3>2
  <2>9. Cardinality(correct) + Cardinality(present) <= Cardinality(ours)
    <3>1. (correct \cup present) \in SUBSET ours  BY <2>7
    <3>2. QED  BY <2>3, <2>8, <3>1, FS_Subset
  <2>10. p.left[c] \in Nat /\ Cardinality(present) + p.left[c] = Cardinality(unmatched)
    <3>1. Unmatched(target, guess)[c] = Cardinality(unmatched)
      BY <2>2 DEF Unmatched, Exactly
    <3>2. QED  BY <1>9, <2>1, <3>1 DEF Passes
  <2>11. CASE p.left[c] = 0
    BY <2>3, <2>5, <2>9, <2>10, <2>11, <2>1, <2>2
  <2>12. CASE p.left[c] # 0
    <3>1. absent = {}  BY <1>9, <2>1, <2>12 DEF TilesOf
    <3>2. Cardinality(correct) + Cardinality(present) = Cardinality(ours)
      BY <2>7, <2>8, <3>1
    <3>3. QED  BY <2>3, <2>5, <2>10, <2>12, <3>2, <2>1, <2>2
  <2>13. QED  BY <2>11, <2>12
<1>11. ASSUME NEW c \in Letters,
              NEW i \in TilesOf(guess, row, c, "present"), NEW j \in TilesOf(guess, row, c, "absent")
       PROVE  i < j
  BY <1>9 DEF TilesOf
<1>12. TilesTellTheTruth(target, guess, row)
  <2> HIDE DEF Least, Have
  <2>1. QED  BY <1>9, <1>10, <1>11 DEF TilesTellTheTruth, TilesOf, Least, Have
<1>13. QED  BY <1>8, <1>12

-----------------------------------------------------------------------------
(* The keys of the keyboard. *)

Key == Tile \cup {"unused"}
Keyboards == [Letters -> Key]

(* The best of a set of tiles.                                               *)
BestOf(got) ==
  IF "correct" \in got THEN "correct"
  ELSE IF "present" \in got THEN "present"
  ELSE IF got # {} THEN "absent" ELSE "unused"

LEMMA BestIs ==
  ASSUME NEW got
  PROVE  /\ "correct" \in got => BestOf(got) = "correct"
         /\ "correct" \notin got /\ "present" \in got => BestOf(got) = "present"
         /\ "correct" \notin got /\ "present" \notin got /\ got # {} => BestOf(got) = "absent"
         /\ got = {} => BestOf(got) = "unused"
<1>1. CASE "correct" \in got  BY <1>1 DEF BestOf
<1>2. CASE "correct" \notin got /\ "present" \in got  BY <1>2 DEF BestOf
<1>3. CASE "correct" \notin got /\ "present" \notin got /\ got # {}  BY <1>3 DEF BestOf
<1>4. CASE got = {}  BY <1>4 DEF BestOf
<1>5. QED  BY <1>1, <1>2, <1>3, <1>4

LEMMA BestImproves ==
  ASSUME NEW got \in SUBSET Tile, NEW tile \in Tile
  PROVE  /\ BestOf(got) \in Key
         /\ BestOf(got \cup {tile}) = IF Improves(BestOf(got), tile) THEN tile ELSE BestOf(got)
<1>1. tile \in {"correct", "present", "absent"}
  BY DEF Tile
<1>2. PICK more : more = got \cup {tile}  OBVIOUS
<1>3. /\ "correct" \in more <=> "correct" \in got \/ tile = "correct"
      /\ "present" \in more <=> "present" \in got \/ tile = "present"
      /\ more # {}
  BY <1>2
<1>4. CASE "correct" \in got
  <2>1. BestOf(got) = "correct" /\ BestOf(more) = "correct"  BY <1>3, <1>4, BestIs
  <2>2. ~Improves("correct", tile)  BY DEF Improves
  <2>3. QED  BY <1>2, <2>1, <2>2 DEF Key, Tile
<1>5. CASE "correct" \notin got /\ "present" \in got
  <2>1. BestOf(got) = "present"  BY <1>5, BestIs
  <2>2. BestOf(more) = IF tile = "correct" THEN "correct" ELSE "present"
    BY <1>3, <1>5, BestIs
  <2>3. Improves("present", tile) <=> tile = "correct"  BY DEF Improves
  <2>4. QED  BY <1>2, <2>1, <2>2, <2>3 DEF Key, Tile
<1>6. CASE "correct" \notin got /\ "present" \notin got /\ got # {}
  <2>1. BestOf(got) = "absent"  BY <1>6, BestIs
  <2>2. BestOf(more) = tile  BY <1>1, <1>3, <1>6, BestIs
  <2>3. Improves("absent", tile) <=> tile # "absent"  BY <1>1 DEF Improves
  <2>4. QED  BY <1>2, <2>1, <2>2, <2>3 DEF Key, Tile
<1>7. CASE got = {}
  <2>1. BestOf(got) = "unused"  BY <1>7, BestIs
  <2>2. BestOf(more) = tile  BY <1>1, <1>3, <1>7, BestIs
  <2>3. Improves("unused", tile)  BY DEF Improves
  <2>4. QED  BY <1>2, <2>1, <2>2, <2>3 DEF Key, Tile
<1>8. QED  BY <1>4, <1>5, <1>6, <1>7

(* The keys after letter i of a guess.                                       *)
Pressed(keys, guess, row, i) ==
  IF Improves(keys[guess[i]], row[i]) THEN [keys EXCEPT ![guess[i]] = row[i]] ELSE keys

LEMMA KeyRecursion ==
  ASSUME NEW keys \in Keyboards, NEW guess \in Word, NEW row \in [Positions -> Tile]
  PROVE  \E f \in [0..WordLength -> Keyboards] :
           /\ f[0] = keys
           /\ \A i \in 1..WordLength : f[i] = Pressed(f[i - 1], guess, row, i)
           /\ UpdateKeyboard(keys, guess, row) = f[WordLength]
<1> DEFINE n == WordLength
           Body(f) == [i \in 0..n |-> IF i = 0 THEN keys
                                      ELSE IF Improves(f[i - 1][guess[i]], row[i])
                                             THEN [f[i - 1] EXCEPT ![guess[i]] = row[i]]
                                             ELSE f[i - 1]]
           after == CHOOSE f : f = Body(f)
<1>1. n \in Nat \ {0}  BY PuffdleGameAssumption
<1>2. ASSUME NEW k \in Keyboards, NEW i \in 1..n PROVE Pressed(k, guess, row, i) \in Keyboards
  <2>1. guess[i] \in Letters /\ row[i] \in Key  BY DEF Word, Positions, Key
  <2>2. QED  BY <2>1 DEF Keyboards, Pressed
<1>3. PICK step : step = [i \in 1..n |-> [k \in Keyboards |-> Pressed(k, guess, row, i)]]
  OBVIOUS
<1>4. step \in [1..n -> [Keyboards -> Keyboards]]  BY <1>2, <1>3
<1>5. PICK f \in [0..n -> Keyboards] : f[0] = keys /\ \A i \in 1..n : f[i] = step[i][f[i - 1]]
  <2>1. PICK m \in Nat : m = n  BY <1>1
  <2>2. step \in [1..m -> [Keyboards -> Keyboards]]  BY <1>4, <2>1
  <2>3. Recursive(m, Keyboards, keys, step)  BY <2>1, <2>2, RecursionExists
  <2>4. QED  BY <2>1, <2>3 DEF Recursive
<1>6. \A i \in 1..n : f[i] = Pressed(f[i - 1], guess, row, i)
  <2>1. \A i \in 1..n : f[i - 1] \in Keyboards  BY <1>1
  <2>2. QED  BY <1>3, <1>5, <2>1
<1>7. f = Body(f)
  <2>1. \A i \in 0..n : f[i] = IF i = 0 THEN keys ELSE Pressed(f[i - 1], guess, row, i)
    BY <1>5, <1>6
  <2>2. QED  BY <2>1 DEF Pressed
<1>8. after = Body(after)
  <2> HIDE DEF Body
  <2>1. QED  BY <1>7
<1>9. after[0] = keys /\ \A i \in 1..n : after[i] = Pressed(after[i - 1], guess, row, i)
  <2> HIDE DEF after
  <2>1. 0 \in 0..n /\ \A i \in 1..n : i \in 0..n /\ i # 0
    BY <1>1
  <2>2. QED  BY <1>8, <2>1 DEF Pressed
<1>10. UpdateKeyboard(keys, guess, row) = after[n]
  BY DEF UpdateKeyboard
<1>11. after \in [0..n -> Keyboards]
  <2> HIDE DEF after
  <2>1. \A i \in 1..n : after[i - 1] \in Keyboards => after[i] \in Keyboards
    BY <1>2, <1>9
  <2>2. PICK T : T = {i \in 0..n : after[i] \in Keyboards}  OBVIOUS
  <2>3. \A i \in 1..n : i - 1 \in T => i \in T
    BY <1>1, <2>1, <2>2
  <2>4. 0 \in T  BY <1>1, <1>9, <2>2
  <2>5. \A i \in 0..n : i \in T
    <3> HIDE DEF n
    <3>1. n \in Nat  BY <1>1
    <3>2. QED  BY <2>3, <2>4, <3>1, UpToNumber
  <2>6. \A i \in 0..n : after[i] \in Keyboards  BY <2>2, <2>5
  <2>7. after = [i \in 0..n |-> after[i]]  BY <1>8
  <2>8. QED  BY <2>6, <2>7
<1>12. QED  BY <1>9, <1>10, <1>11

TilesFor(guess, row, i, c) == {row[j] : j \in {k \in 1..i : guess[k] = c}}

Tells(keys, got) == \A c \in Letters : keys[c] = BestOf(got[c])

(* One guess adds the tiles of its letters to what their keys have got.      *)
LEMMA KeyboardAdds ==
  ASSUME NEW got \in [Letters -> SUBSET Tile], NEW keys \in Keyboards, Tells(keys, got),
         NEW guess \in Word, NEW row \in [Positions -> Tile]
  PROVE  /\ UpdateKeyboard(keys, guess, row) \in Keyboards
         /\ Tells(UpdateKeyboard(keys, guess, row),
                  [c \in Letters |-> got[c] \cup TilesFor(guess, row, WordLength, c)])
<1>1. PICK f \in [0..WordLength -> Keyboards] :
        /\ f[0] = keys
        /\ \A i \in 1..WordLength : f[i] = Pressed(f[i - 1], guess, row, i)
        /\ UpdateKeyboard(keys, guess, row) = f[WordLength]
  BY KeyRecursion
<1>2. WordLength \in Nat  BY PositionsAreFinite
<1>3. PICK T : T = {i \in 0..WordLength : \A c \in Letters :
                      f[i][c] = BestOf(got[c] \cup TilesFor(guess, row, i, c))}
  OBVIOUS
<1>4. 0 \in T
  <2>1. \A c \in Letters : TilesFor(guess, row, 0, c) = {}  BY DEF TilesFor
  <2>2. \A c \in Letters : f[0][c] = BestOf(got[c] \cup TilesFor(guess, row, 0, c))
    BY <1>1, <2>1 DEF Tells
  <2>3. 0 \in 0..WordLength  BY <1>2
  <2>4. QED  BY <1>3, <2>2, <2>3
<1>5. ASSUME NEW i \in 1..WordLength, i - 1 \in T PROVE i \in T
  <2>1. i \in Positions /\ i \in 0..WordLength /\ i - 1 \in 0..WordLength
    BY <1>2 DEF Positions
  <2>2. f[i] \in Keyboards /\ f[i - 1] \in Keyboards /\ f[i] = Pressed(f[i - 1], guess, row, i)
    BY <1>1, <2>1
  <2>3. guess[i] \in Letters /\ row[i] \in Tile /\ \A k \in Positions : row[k] \in Tile
    BY <2>1 DEF Word
  <2>4. \A c \in Letters : f[i - 1][c] = BestOf(got[c] \cup TilesFor(guess, row, i - 1, c))
    BY <1>3, <1>5
  <2>5. ASSUME NEW c \in Letters
        PROVE  f[i][c] = BestOf(got[c] \cup TilesFor(guess, row, i, c))
    <3>1. \A k : k \in 1..i <=> k \in 1..(i - 1) \/ k = i
      BY <2>1, <1>2
    <3>2. CASE c = guess[i]
      <4>1. PICK S : S = got[c] \cup TilesFor(guess, row, i - 1, c)  OBVIOUS
      <4>2. S \in SUBSET Tile
        <5>1. \A k \in 1..(i - 1) : k \in Positions  BY <1>2, <2>1 DEF Positions
        <5>2. TilesFor(guess, row, i - 1, c) \subseteq Tile  BY <2>3, <5>1 DEF TilesFor
        <5>3. QED  BY <4>1, <5>2
      <4>3. TilesFor(guess, row, i, c) = TilesFor(guess, row, i - 1, c) \cup {row[i]}
        BY <3>1, <3>2 DEF TilesFor
      <4>4. got[c] \cup TilesFor(guess, row, i, c) = S \cup {row[i]}  BY <4>1, <4>3
      <4>5. f[i - 1][c] = BestOf(S)  BY <2>4, <4>1
      <4>6. f[i][c] = IF Improves(f[i - 1][c], row[i]) THEN row[i] ELSE f[i - 1][c]
        BY <2>2, <3>2 DEF Pressed, Keyboards
      <4>7. QED  BY <2>3, <4>2, <4>4, <4>5, <4>6, BestImproves
    <3>3. CASE c # guess[i]
      <4>1. TilesFor(guess, row, i, c) = TilesFor(guess, row, i - 1, c)
        BY <3>1, <3>3 DEF TilesFor
      <4>2. f[i][c] = f[i - 1][c]
        BY <2>2, <3>3 DEF Pressed, Keyboards
      <4>3. QED  BY <2>4, <4>1, <4>2
    <3>4. QED  BY <3>2, <3>3
  <2>6. QED  BY <1>3, <2>1, <2>5
<1>6. \A i \in 0..WordLength : i \in T  BY <1>2, <1>4, <1>5, UpToNumber
<1>7. WordLength \in 0..WordLength  BY <1>2
<1>8. QED  BY <1>1, <1>3, <1>6, <1>7 DEF Tells

LEMMA GuessRecursion ==
  ASSUME NEW guesses \in Seq(Word),
         NEW rows \in [1..Len(guesses) -> [Positions -> Tile]]
  PROVE  \E f \in [0..Len(guesses) -> Keyboards] :
           /\ f[0] = NewKeyboard
           /\ \A i \in 1..Len(guesses) : f[i] = UpdateKeyboard(f[i - 1], guesses[i], rows[i])
           /\ KeyboardAfter(guesses, rows) = f[Len(guesses)]
<1> DEFINE n == Len(guesses)
           Body(f) == [i \in 0..n |-> IF i = 0 THEN NewKeyboard
                                      ELSE UpdateKeyboard(f[i - 1], guesses[i], rows[i])]
           keys == CHOOSE f : f = Body(f)
<1>1. n \in Nat  OBVIOUS
<1>2. ASSUME NEW k \in Keyboards, NEW i \in 1..n
      PROVE  UpdateKeyboard(k, guesses[i], rows[i]) \in Keyboards
  <2>1. guesses[i] \in Word /\ rows[i] \in [Positions -> Tile]  OBVIOUS
  <2>2. PICK f \in [0..WordLength -> Keyboards] :
          UpdateKeyboard(k, guesses[i], rows[i]) = f[WordLength]
    BY <2>1, KeyRecursion
  <2>3. WordLength \in 0..WordLength  BY PositionsAreFinite
  <2>4. QED  BY <2>2, <2>3
<1>3. NewKeyboard \in Keyboards  BY DEF NewKeyboard, Keyboards, Key
<1>4. PICK step : step = [i \in 1..n |-> [k \in Keyboards |-> UpdateKeyboard(k, guesses[i], rows[i])]]
  OBVIOUS
<1>5. step \in [1..n -> [Keyboards -> Keyboards]]  BY <1>2, <1>4
<1>6. PICK f \in [0..n -> Keyboards] : f[0] = NewKeyboard /\ \A i \in 1..n : f[i] = step[i][f[i - 1]]
  <2>1. PICK m \in Nat, new \in Keyboards : m = n /\ new = NewKeyboard  BY <1>1, <1>3
  <2>2. step \in [1..m -> [Keyboards -> Keyboards]]  BY <1>5, <2>1
  <2>3. Recursive(m, Keyboards, new, step)  BY <2>1, <2>2, RecursionExists
  <2>4. QED  BY <2>1, <2>3 DEF Recursive
<1>7. \A i \in 1..n : f[i] = UpdateKeyboard(f[i - 1], guesses[i], rows[i])
  <2>1. \A i \in 1..n : f[i - 1] \in Keyboards  BY <1>1
  <2>2. QED  BY <1>4, <1>6, <2>1
<1>8. f = Body(f)
  <2>1. \A i \in 0..n : f[i] = IF i = 0 THEN NewKeyboard
                               ELSE UpdateKeyboard(f[i - 1], guesses[i], rows[i])
    BY <1>6, <1>7
  <2>2. QED  BY <2>1
<1>9. keys = Body(keys)
  <2> HIDE DEF Body
  <2>1. QED  BY <1>8
<1>10. keys[0] = NewKeyboard
       /\ \A i \in 1..n : keys[i] = UpdateKeyboard(keys[i - 1], guesses[i], rows[i])
  <2> HIDE DEF keys
  <2>1. 0 \in 0..n /\ \A i \in 1..n : i \in 0..n /\ i # 0
    BY <1>1
  <2>2. QED  BY <1>9, <2>1
<1>11. KeyboardAfter(guesses, rows) = keys[n]
  BY DEF KeyboardAfter
<1>12. keys \in [0..n -> Keyboards]
  <2> HIDE DEF keys
  <2>1. \A i \in 1..n : keys[i - 1] \in Keyboards => keys[i] \in Keyboards
    BY <1>2, <1>10
  <2>2. PICK T : T = {i \in 0..n : keys[i] \in Keyboards}  OBVIOUS
  <2>3. \A i \in 1..n : i - 1 \in T => i \in T
    BY <1>1, <2>1, <2>2
  <2>4. 0 \in T  BY <1>1, <1>3, <1>10, <2>2
  <2>5. \A i \in 0..n : i \in T
    <3> HIDE DEF n
    <3>1. QED  BY <1>1, <2>3, <2>4, UpToNumber
  <2>6. \A i \in 0..n : keys[i] \in Keyboards  BY <2>2, <2>5
  <2>7. keys = [i \in 0..n |-> keys[i]]  BY <1>9
  <2>8. QED  BY <2>6, <2>7
<1>13. QED  BY <1>10, <1>11, <1>12

(* A key shows the best tile its letter got in any guess.                    *)
LEMMA KeysAreTrue ==
  ASSUME NEW guesses \in Seq(Word),
         NEW rows \in [1..Len(guesses) -> [Positions -> Tile]]
  PROVE  KeysTellTheTruth(guesses, rows, KeyboardAfter(guesses, rows))
<1> DEFINE Pairs(i, c) == {p \in (1..i) \X Positions : guesses[p[1]][p[2]] = c}
           Got(i, c) == {rows[p[1]][p[2]] : p \in Pairs(i, c)}
<1>1. PICK f \in [0..Len(guesses) -> Keyboards] :
        /\ f[0] = NewKeyboard
        /\ \A i \in 1..Len(guesses) : f[i] = UpdateKeyboard(f[i - 1], guesses[i], rows[i])
        /\ KeyboardAfter(guesses, rows) = f[Len(guesses)]
  BY GuessRecursion
<1>2. PICK n \in Nat : n = Len(guesses)  OBVIOUS
<1>3. WordLength \in Nat  BY PositionsAreFinite
<1>4. PICK T : T = {i \in 0..n : \A c \in Letters : f[i][c] = BestOf(Got(i, c))}
  OBVIOUS
<1>5. ASSUME NEW i \in 0..n, NEW c PROVE Got(i, c) \in SUBSET Tile
  <2>1. \A k \in 1..i : k \in 1..Len(guesses)  BY <1>2
  <2>2. \A p \in Pairs(i, c) : p[1] \in 1..Len(guesses) /\ p[2] \in Positions
    BY <2>1
  <2>3. \A p \in Pairs(i, c) : rows[p[1]][p[2]] \in Tile
    BY <2>2
  <2>4. QED  BY <2>3
<1>6. 0 \in T
  <2>1. \A c \in Letters : Got(0, c) = {}  OBVIOUS
  <2>2. BestOf({}) = "unused"  BY BestIs
  <2>3. \A c \in Letters : f[0][c] = BestOf(Got(0, c))
    BY <1>1, <2>1, <2>2 DEF NewKeyboard
  <2>4. 0 \in 0..n  BY <1>2
  <2>5. QED  BY <1>4, <2>3, <2>4
<1>7. ASSUME NEW i \in 1..n, i - 1 \in T PROVE i \in T
  <2>1. i \in 0..n /\ i - 1 \in 0..n /\ i \in 1..Len(guesses) /\ i - 1 \in Nat
    BY <1>2
  <2>2. f[i - 1] \in Keyboards /\ guesses[i] \in Word /\ rows[i] \in [Positions -> Tile]
    BY <1>1, <1>2, <2>1
  <2>3. PICK got : got = [c \in Letters |-> Got(i - 1, c)]  OBVIOUS
  <2>4. got \in [Letters -> SUBSET Tile]  BY <1>5, <2>1, <2>3
  <2>5. \A c \in Letters : f[i - 1][c] = BestOf(got[c])  BY <1>4, <1>7, <2>3
  <2>6. \A c \in Letters : UpdateKeyboard(f[i - 1], guesses[i], rows[i])[c]
                             = BestOf(got[c] \cup TilesFor(guesses[i], rows[i], WordLength, c))
    <3>1. PICK k \in Keyboards, g \in Word, r \in [Positions -> Tile] :
            k = f[i - 1] /\ g = guesses[i] /\ r = rows[i]
      BY <2>2
    <3>2. Tells(k, got)  BY <2>5, <3>1 DEF Tells
    <3>3. Tells(UpdateKeyboard(k, g, r),
                [c \in Letters |-> got[c] \cup TilesFor(g, r, WordLength, c)])
      BY <2>4, <3>1, <3>2, KeyboardAdds
    <3>4. QED  BY <3>1, <3>3 DEF Tells
  <2>7. ASSUME NEW c \in Letters
        PROVE  Got(i, c) = got[c] \cup TilesFor(guesses[i], rows[i], WordLength, c)
    <3>1. \A k : k \in 1..i <=> k \in 1..(i - 1) \/ k = i
      BY <2>1
    <3>2. ASSUME NEW p
          PROVE  p \in Pairs(i, c) <=> \/ p \in Pairs(i - 1, c)
                                       \/ p \in {i} \X Positions /\ guesses[i][p[2]] = c
      <4>1. p \in (1..i) \X Positions <=> \/ p \in (1..(i - 1)) \X Positions
                                          \/ p \in {i} \X Positions
        BY <3>1
      <4>2. p \in {i} \X Positions => p[1] = i  OBVIOUS
      <4>3. QED  BY <4>1, <4>2
    <3>3. TilesFor(guesses[i], rows[i], WordLength, c)
            = {rows[p[1]][p[2]] : p \in {q \in {i} \X Positions : guesses[i][q[2]] = c}}
      <4>1. ASSUME NEW t
            PROVE  t \in TilesFor(guesses[i], rows[i], WordLength, c)
                     <=> \E j \in Positions : guesses[i][j] = c /\ t = rows[i][j]
        BY DEF TilesFor, Positions
      <4>2. ASSUME NEW t
            PROVE  t \in {rows[p[1]][p[2]] : p \in {q \in {i} \X Positions : guesses[i][q[2]] = c}}
                     <=> \E j \in Positions : guesses[i][j] = c /\ t = rows[i][j]
        <5>1. \A j \in Positions : <<i, j>> \in {i} \X Positions
          OBVIOUS
        <5>2. \A p \in {i} \X Positions : p[1] = i /\ p[2] \in Positions
          OBVIOUS
        <5>3. QED  BY <5>1, <5>2
      <4>3. QED  BY <4>1, <4>2
    <3>4. Got(i, c) = Got(i - 1, c)
                        \cup {rows[p[1]][p[2]] : p \in {q \in {i} \X Positions : guesses[i][q[2]] = c}}
      BY <3>2
    <3>5. QED  BY <2>3, <3>3, <3>4
  <2>8. \A c \in Letters : f[i][c] = BestOf(Got(i, c))
    BY <1>1, <2>1, <2>6, <2>7
  <2>9. QED  BY <1>4, <2>1, <2>8
<1>8. \A i \in 0..n : i \in T
  <2> HIDE DEF Got
  <2>1. QED  BY <1>2, <1>6, <1>7, UpToNumber
<1>9. \A c \in Letters : KeyboardAfter(guesses, rows)[c] = BestOf(Got(n, c)) /\ Got(n, c) \in SUBSET Tile
  <2>1. n \in 0..n  OBVIOUS
  <2>2. QED  BY <1>1, <1>2, <1>4, <1>5, <1>8, <2>1
<1>10. ASSUME NEW got \in SUBSET Tile
       PROVE  /\ BestOf(got) = "correct" <=> "correct" \in got
              /\ BestOf(got) = "present" <=> "present" \in got /\ "correct" \notin got
              /\ BestOf(got) = "absent"  <=> got = {"absent"}
              /\ BestOf(got) = "unused"  <=> got = {}
  <2>1. "correct" \notin got /\ "present" \notin got /\ got # {} <=> got = {"absent"}
    BY DEF Tile
  <2>2. QED  BY <2>1, BestIs
<1>11. QED
  <2>1. \A c \in Letters :
          Got(n, c) = {rows[p[1]][p[2]] : p \in
                        {p \in (1..Len(guesses)) \X Positions : guesses[p[1]][p[2]] = c}}
    BY <1>2
  <2> HIDE DEF Got
  <2>2. QED  BY <1>9, <1>10, <2>1 DEF KeysTellTheTruth

-----------------------------------------------------------------------------
(* The games of an account. *)

Games == [status : {"NONE", "IN_PROGRESS", "WON", "LOST"}, guesses : Seq(Words)]
AllGames == [Accounts -> [Days -> Games]]
Rows == ScoreRow \cup {NoRow}

(* What a guess may say; the tab derives its revision from a snapshot.       *)
Inputs == [acct : Accounts, day : Days, revision : Nat, word : Words]

LEMMA DaysAreNumbers == Days \subseteq Nat /\ IsFiniteSet(Days) /\ Cardinality(Days) = MaxDay
<1>1. MaxDay \in Nat \ {0}  BY DailyPuffdleAssumption
<1>2. Days \subseteq Nat  BY DEF Days
<1>3. IsFiniteSet(1..MaxDay) /\ Cardinality(1..MaxDay) = IF 1 > MaxDay THEN 0 ELSE MaxDay - 1 + 1
  BY <1>1, FS_Interval
<1>4. QED  BY <1>1, <1>2, <1>3 DEF Days

-----------------------------------------------------------------------------
(* The history of an account, and the streak in it. *)

Histories == [played : Nat, won : Nat, streak : Nat, best : Nat, previousWin : Nat]

NoHistory == [played |-> 0, won |-> 0, streak |-> 0, best |-> 0, previousWin |-> 0]

(* What day d adds.                                                          *)
StreakOn(h, d) == IF d - h.previousWin = 1 /\ h.previousWin > 0 THEN h.streak + 1 ELSE 1
Recounted(games, h, d) ==
  CASE games[d].status = "WON" ->
         [played |-> h.played + 1, won |-> h.won + 1, streak |-> StreakOn(h, d),
          best |-> Larger(h.best, StreakOn(h, d)), previousWin |-> d]
    [] games[d].status = "LOST" ->
         [h EXCEPT !.played = @ + 1, !.streak = 0, !.previousWin = 0]
    [] OTHER -> h

LEMMA RecountedIs ==
  ASSUME NEW games, NEW h \in Histories, NEW d \in Nat
  PROVE  /\ games[d].status = "WON" => /\ Recounted(games, h, d).streak = StreakOn(h, d)
                                       /\ Recounted(games, h, d).previousWin = d
         /\ games[d].status = "LOST" => Recounted(games, h, d).previousWin = 0
         /\ games[d].status \notin {"WON", "LOST"} => Recounted(games, h, d) = h
         /\ Recounted(games, h, d) \in Histories
<1>1. /\ h.played \in Nat /\ h.won \in Nat /\ h.streak \in Nat /\ h.best \in Nat
      /\ h.previousWin \in Nat
  BY DEF Histories
<1>2. StreakOn(h, d) \in Nat /\ h.played + 1 \in Nat /\ h.won + 1 \in Nat
  BY <1>1 DEF StreakOn
<1>3. Larger(h.best, StreakOn(h, d)) \in Nat  BY <1>1, <1>2 DEF Larger
<1>4. CASE games[d].status = "WON"
  <2>1. Recounted(games, h, d) =
          [played |-> h.played + 1, won |-> h.won + 1, streak |-> StreakOn(h, d),
           best |-> Larger(h.best, StreakOn(h, d)), previousWin |-> d]
    BY <1>4 DEF Recounted
  <2>2. QED  BY <1>2, <1>3, <1>4, <2>1 DEF Histories
<1>5. CASE games[d].status = "LOST"
  <2>1. PICK one : one = [h EXCEPT !.played = h.played + 1]  OBVIOUS
  <2>2. PICK two : two = [one EXCEPT !.streak = 0]  OBVIOUS
  <2>3. PICK three : three = [two EXCEPT !.previousWin = 0]  OBVIOUS
  <2>4. one \in Histories  BY <1>2, <2>1 DEF Histories
  <2>5. two \in Histories  BY <2>2, <2>4 DEF Histories
  <2>6. three \in Histories /\ three.previousWin = 0  BY <2>3, <2>5 DEF Histories
  <2>7. Recounted(games, h, d) = three
    BY <1>5, <2>1, <2>2, <2>3 DEF Recounted
  <2>8. QED  BY <1>5, <2>6, <2>7
<1>6. CASE games[d].status \notin {"WON", "LOST"}
  <2>1. Recounted(games, h, d) = h  BY <1>6 DEF Recounted
  <2>2. QED  BY <1>6, <2>1
<1>7. QED  BY <1>4, <1>5, <1>6

LEMMA HistoryRecursion ==
  ASSUME NEW games, NEW today
  PROVE  \E f \in [0..MaxDay -> Histories] :
           /\ f[0] = NoHistory
           /\ \A d \in 1..MaxDay : f[d] = Recounted(games, f[d - 1], d)
           /\ History(games, today).streak
                = IF f[MaxDay].previousWin > 0 /\ today - f[MaxDay].previousWin <= 1
                    THEN f[MaxDay].streak ELSE 0
<1> DEFINE n == MaxDay
           Body(f) == [d \in 0..n |->
             IF d = 0 THEN NoHistory
             ELSE LET h == f[d - 1]
                      streak == IF d - h.previousWin = 1 /\ h.previousWin > 0 THEN h.streak + 1 ELSE 1
                  IN CASE games[d].status = "WON" ->
                            [played |-> h.played + 1, won |-> h.won + 1, streak |-> streak,
                             best |-> Larger(h.best, streak), previousWin |-> d]
                       [] games[d].status = "LOST" ->
                            [h EXCEPT !.played = @ + 1, !.streak = 0, !.previousWin = 0]
                       [] OTHER -> h]
           upTo == CHOOSE f : f = Body(f)
<1>1. n \in Nat \ {0}  BY DailyPuffdleAssumption
<1>2. NoHistory \in Histories  BY DEF NoHistory, Histories
<1>3. ASSUME NEW h \in Histories, NEW d \in 1..n PROVE Recounted(games, h, d) \in Histories
  <2>1. d \in Nat  BY <1>1
  <2>2. QED  BY <2>1, RecountedIs
<1>4. PICK step : step = [d \in 1..n |-> [h \in Histories |-> Recounted(games, h, d)]]
  OBVIOUS
<1>5. step \in [1..n -> [Histories -> Histories]]  BY <1>3, <1>4
<1>6. PICK f \in [0..n -> Histories] : f[0] = NoHistory /\ \A d \in 1..n : f[d] = step[d][f[d - 1]]
  <2>1. PICK m \in Nat, none \in Histories : m = n /\ none = NoHistory  BY <1>1, <1>2
  <2>2. step \in [1..m -> [Histories -> Histories]]  BY <1>5, <2>1
  <2>3. Recursive(m, Histories, none, step)  BY <2>1, <2>2, RecursionExists
  <2>4. QED  BY <2>1, <2>3 DEF Recursive
<1>7. \A d \in 1..n : f[d] = Recounted(games, f[d - 1], d)
  <2>1. \A d \in 1..n : f[d - 1] \in Histories  BY <1>1
  <2>2. QED  BY <1>4, <1>6, <2>1
<1>8. f = Body(f)
  <2>1. \A d \in 0..n : f[d] = IF d = 0 THEN NoHistory ELSE Recounted(games, f[d - 1], d)
    BY <1>6, <1>7
  <2>2. QED  BY <2>1 DEF Recounted, StreakOn
<1>9. upTo = Body(upTo)
  <2> HIDE DEF Body
  <2>1. QED  BY <1>8
<1>10. upTo[0] = NoHistory /\ \A d \in 1..n : upTo[d] = Recounted(games, upTo[d - 1], d)
  <2> HIDE DEF upTo
  <2>1. 0 \in 0..n /\ \A d \in 1..n : d \in 0..n /\ d # 0
    BY <1>1
  <2>2. QED  BY <1>9, <2>1 DEF Recounted, StreakOn
<1>11. upTo \in [0..n -> Histories]
  <2> HIDE DEF upTo
  <2>1. \A d \in 1..n : upTo[d - 1] \in Histories => upTo[d] \in Histories
    BY <1>3, <1>10
  <2>2. PICK T : T = {d \in 0..n : upTo[d] \in Histories}  OBVIOUS
  <2>3. \A d \in 1..n : d - 1 \in T => d \in T
    BY <1>1, <2>1, <2>2
  <2>4. 0 \in T  BY <1>1, <1>2, <1>10, <2>2
  <2>5. \A d \in 0..n : d \in T
    <3> HIDE DEF n
    <3>1. n \in Nat  BY <1>1
    <3>2. QED  BY <2>3, <2>4, <3>1, UpToNumber
  <2>6. \A d \in 0..n : upTo[d] \in Histories  BY <2>2, <2>5
  <2>7. upTo = [d \in 0..n |-> upTo[d]]  BY <1>9
  <2>8. QED  BY <2>6, <2>7
<1>12. History(games, today).streak
         = IF upTo[n].previousWin > 0 /\ today - upTo[n].previousWin <= 1 THEN upTo[n].streak ELSE 0
  <2>1. History(games, today) =
          [played |-> upTo[n].played, won |-> upTo[n].won, best |-> upTo[n].best,
           streak |-> IF upTo[n].previousWin > 0 /\ today - upTo[n].previousWin <= 1
                      THEN upTo[n].streak ELSE 0]
    BY DEF History, NoHistory
  <2> HIDE DEF upTo
  <2>2. QED  BY <2>1
<1>13. QED  BY <1>10, <1>11, <1>12

WonOn(games, d) == games[d].status = "WON"

LEMMA WinsInARow ==
  ASSUME NEW games, NEW d \in Nat
  PROVE  /\ WinsEndingWith(games, d) \in Nat
         /\ d = 0 => WinsEndingWith(games, d) = 0
         /\ d > 0 /\ WonOn(games, d) => WinsEndingWith(games, d) = WinsEndingWith(games, d - 1) + 1
         /\ d > 0 /\ ~WonOn(games, d) => WinsEndingWith(games, d) = 0
<1> DEFINE Run(k) == {s \in 1..k : \A e \in s..k : games[e].status = "WON"}
<1>1. \A k \in Nat : IsFiniteSet(Run(k)) /\ Cardinality(Run(k)) \in Nat
  <2>1. \A k \in Nat : IsFiniteSet(1..k)  BY FS_Interval
  <2>2. \A k \in Nat : Run(k) \in SUBSET (1..k)  OBVIOUS
  <2>3. \A k \in Nat : IsFiniteSet(Run(k))
    <3> HIDE DEF Run
    <3>1. QED  BY <2>1, <2>2, FS_Subset
  <2>4. QED
    <3> HIDE DEF Run
    <3>1. QED  BY <2>3, FS_CardinalityType
<1>2. \A k : WinsEndingWith(games, k) = Cardinality(Run(k))
  BY DEF WinsEndingWith
<1>3. d = 0 => Run(d) = {}  OBVIOUS
<1>4. d > 0 /\ ~WonOn(games, d) => Run(d) = {}
  BY DEF WonOn
<1>5. ASSUME d > 0, WonOn(games, d)
      PROVE  Run(d) = Run(d - 1) \cup {d} /\ d \notin Run(d - 1)
  <2>1. \A s : s \in 1..d <=> s \in 1..(d - 1) \/ s = d  BY <1>5
  <2>2. \A s \in 1..(d - 1) : \A e : e \in s..d <=> e \in s..(d - 1) \/ e = d  BY <1>5
  <2>3. \A s \in 1..(d - 1) : s \in Run(d) <=> s \in Run(d - 1)
    BY <1>5, <2>1, <2>2 DEF WonOn
  <2>4. d \in Run(d)  BY <1>5 DEF WonOn
  <2>5. d \notin 1..(d - 1)  OBVIOUS
  <2>6. QED  BY <2>1, <2>3, <2>4, <2>5
<1> HIDE DEF Run
<1>6. d > 0 /\ WonOn(games, d) => Cardinality(Run(d)) = Cardinality(Run(d - 1)) + 1
  <2>1. SUFFICES ASSUME d > 0, WonOn(games, d)
                 PROVE  Cardinality(Run(d)) = Cardinality(Run(d - 1)) + 1
    OBVIOUS
  <2>2. IsFiniteSet(Run(d - 1))  BY <1>1, <2>1
  <2>3. Cardinality(Run(d - 1) \cup {d}) = Cardinality(Run(d - 1)) + 1
    BY <1>5, <2>1, <2>2, FS_AddElement
  <2>4. QED  BY <1>5, <2>1, <2>3
<1>7. Cardinality({}) = 0  BY FS_EmptySet
<1>8. QED  BY <1>1, <1>2, <1>3, <1>4, <1>6, <1>7

(* After day d: the last game that ended, if it was won, with the games won  *)
(* before it in a row.                                                       *)
HistorySound(games, h, d) ==
  /\ h.previousWin <= d
  /\ h.previousWin > 0 =>
       /\ WonOn(games, h.previousWin)
       /\ h.streak = WinsEndingWith(games, h.previousWin)
       /\ \A e \in (h.previousWin + 1)..d : ~Finished(games[e])
  /\ h.previousWin = 0 =>
       \A e \in 1..d : WonOn(games, e) => \E f \in (e + 1)..d : games[f].status = "LOST"

LEMMA HistoryFollows ==
  ASSUME NEW games, NEW d \in Nat \ {0}, NEW h \in Histories, HistorySound(games, h, d - 1)
  PROVE  HistorySound(games, Recounted(games, h, d), d)
<1>1. PICK k \in Nat : k = d - 1  OBVIOUS
<1>2. PICK next \in Histories : next = Recounted(games, h, d)  BY RecountedIs
<1>3. /\ h.previousWin \in Nat /\ h.streak \in Nat /\ h.previousWin <= k
      /\ next.previousWin \in Nat
  BY <1>1 DEF Histories, HistorySound
<1>4. \A a \in Nat : \A e : e \in a..d <=> \/ e \in a..k
                                           \/ e = d /\ a <= d
  BY <1>1
<1>5. CASE WonOn(games, d)
  <2>1. next.previousWin = d /\ next.streak = StreakOn(h, d)
    BY <1>2, <1>5, RecountedIs DEF WonOn
  <2>2. WinsEndingWith(games, d) = WinsEndingWith(games, k) + 1
    BY <1>1, <1>5, WinsInARow
  <2>3. next.streak = WinsEndingWith(games, d)
    <3>1. CASE h.previousWin = k /\ k > 0
      <4>1. StreakOn(h, d) = h.streak + 1  BY <1>1, <3>1 DEF StreakOn
      <4>2. h.streak = WinsEndingWith(games, k)  BY <1>1, <3>1 DEF HistorySound
      <4>3. QED  BY <2>1, <2>2, <4>1, <4>2
    <3>2. CASE ~(h.previousWin = k /\ k > 0)
      <4>1. StreakOn(h, d) = 1  BY <1>1, <1>3, <3>2 DEF StreakOn
      <4>2. k > 0 => ~WonOn(games, k)
        <5>1. SUFFICES ASSUME k > 0, WonOn(games, k) PROVE FALSE  OBVIOUS
        <5>2. CASE h.previousWin > 0
          <6>1. k \in (h.previousWin + 1)..k  BY <1>3, <3>2, <5>1, <5>2
          <6>2. ~Finished(games[k])  BY <1>1, <5>2, <6>1 DEF HistorySound
          <6>3. QED  BY <5>1, <6>2 DEF Finished, WonOn
        <5>3. CASE h.previousWin = 0
          <6>1. k \in 1..k  BY <5>1
          <6>2. PICK f \in (k + 1)..k : games[f].status = "LOST"
            BY <1>1, <5>1, <5>3, <6>1 DEF HistorySound
          <6>3. QED  BY <6>2
        <5>4. QED  BY <1>3, <5>2, <5>3
      <4>3. WinsEndingWith(games, k) = 0  BY <4>2, WinsInARow
      <4>4. QED  BY <2>1, <2>2, <4>1, <4>3
    <3>3. QED  BY <3>1, <3>2
  <2>4. \A e : e \notin (d + 1)..d  OBVIOUS
  <2>5. QED  BY <1>2, <1>5, <2>1, <2>3, <2>4 DEF HistorySound
<1>6. CASE games[d].status = "LOST"
  <2>1. next.previousWin = 0  BY <1>2, <1>6, RecountedIs
  <2>2. \A e \in 1..d : WonOn(games, e) => \E f \in (e + 1)..d : games[f].status = "LOST"
    <3>1. \A e \in 1..d : WonOn(games, e) => d \in (e + 1)..d
      BY <1>6 DEF WonOn
    <3>2. QED  BY <1>6, <3>1
  <2>3. QED  BY <1>2, <2>1, <2>2 DEF HistorySound
<1>7. CASE games[d].status \notin {"WON", "LOST"}
  <2>1. next = h  BY <1>2, <1>7, RecountedIs
  <2>2. ~Finished(games[d]) /\ ~WonOn(games, d)  BY <1>7 DEF Finished, WonOn
  <2>3. h.previousWin <= d  BY <1>1, <1>3
  <2>4. h.previousWin > 0 => \A e \in (h.previousWin + 1)..d : ~Finished(games[e])
    BY <1>1, <1>3, <1>4, <2>2 DEF HistorySound
  <2>5. h.previousWin = 0 =>
          \A e \in 1..d : WonOn(games, e) => \E f \in (e + 1)..d : games[f].status = "LOST"
    <3>1. SUFFICES ASSUME h.previousWin = 0, NEW e \in 1..d, WonOn(games, e)
                   PROVE  \E f \in (e + 1)..d : games[f].status = "LOST"
      OBVIOUS
    <3>2. e \in 1..k  BY <1>1, <2>2, <3>1
    <3>3. PICK f \in (e + 1)..k : games[f].status = "LOST"
      BY <1>1, <3>1, <3>2 DEF HistorySound
    <3>4. f \in (e + 1)..d  BY <1>1
    <3>5. QED  BY <3>3, <3>4
  <2>6. QED  BY <1>1, <1>2, <2>1, <2>3, <2>4, <2>5 DEF HistorySound
<1>8. QED  BY <1>5, <1>6, <1>7 DEF WonOn

(* The streak a snapshot shows is that of today or, while today's game is    *)
(* not finished, that of yesterday.                                          *)
LEMMA StreakIsTrue ==
  ASSUME NEW games, NEW today \in Days, \A d \in Days : d > today => ~Finished(games[d])
  PROVE  \/ History(games, today).streak = WinsEndingWith(games, today - 1)
         \/ /\ Finished(games[today])
            /\ History(games, today).streak = WinsEndingWith(games, today)
<1>1. MaxDay \in Nat \ {0} /\ today \in 1..MaxDay
  BY DailyPuffdleAssumption DEF Days
<1>2. PICK f \in [0..MaxDay -> Histories] :
        /\ f[0] = NoHistory
        /\ \A d \in 1..MaxDay : f[d] = Recounted(games, f[d - 1], d)
        /\ History(games, today).streak
             = IF f[MaxDay].previousWin > 0 /\ today - f[MaxDay].previousWin <= 1
                 THEN f[MaxDay].streak ELSE 0
  BY HistoryRecursion
<1>3. PICK T : T = {d \in 0..MaxDay : HistorySound(games, f[d], d)}  OBVIOUS
<1>4. 0 \in T
  <2>1. NoHistory.previousWin = 0  BY DEF NoHistory
  <2>2. HistorySound(games, NoHistory, 0)  BY <2>1 DEF HistorySound
  <2>3. QED  BY <1>1, <1>2, <1>3, <2>2
<1>5. ASSUME NEW d \in 1..MaxDay, d - 1 \in T PROVE d \in T
  <2>1. d \in Nat \ {0} /\ d \in 0..MaxDay /\ d - 1 \in 0..MaxDay  BY <1>1
  <2>2. f[d - 1] \in Histories /\ f[d] = Recounted(games, f[d - 1], d)  BY <1>2, <2>1
  <2>3. HistorySound(games, f[d - 1], d - 1)  BY <1>3, <1>5
  <2>4. HistorySound(games, f[d], d)  BY <2>1, <2>2, <2>3, HistoryFollows
  <2>5. QED  BY <1>3, <2>1, <2>4
<1>6. \A d \in 0..MaxDay : d \in T
  <2>1. MaxDay \in Nat  BY <1>1
  <2>2. QED  BY <2>1, <1>4, <1>5, UpToNumber
<1>7. PICK h \in Histories : h = f[MaxDay] /\ HistorySound(games, h, MaxDay)
  <2>1. MaxDay \in 0..MaxDay  BY <1>1
  <2>2. QED  BY <1>2, <1>3, <1>6, <2>1
<1>8. h.previousWin \in Nat /\ h.previousWin <= MaxDay
  BY <1>7 DEF Histories, HistorySound
<1>9. PICK yesterday \in Nat : yesterday = today - 1  BY <1>1
<1>10. CASE h.previousWin > 0 /\ today - h.previousWin <= 1
  <2>1. History(games, today).streak = WinsEndingWith(games, h.previousWin)
    BY <1>2, <1>7, <1>10 DEF HistorySound
  <2>2. WonOn(games, h.previousWin) /\ h.previousWin \in Days
    BY <1>1, <1>7, <1>8, <1>10 DEF HistorySound, Days
  <2>3. ~(h.previousWin > today)  BY <2>2 DEF WonOn, Finished
  <2>4. h.previousWin = today \/ h.previousWin = yesterday
    BY <1>1, <1>8, <1>9, <1>10, <2>3
  <2>5. QED  BY <1>9, <2>1, <2>2, <2>4 DEF WonOn, Finished
<1>11. CASE ~(h.previousWin > 0 /\ today - h.previousWin <= 1)
  <2>1. History(games, today).streak = 0  BY <1>2, <1>7, <1>11
  <2>2. CASE yesterday = 0 \/ ~WonOn(games, yesterday)
    <3>1. WinsEndingWith(games, yesterday) = 0  BY <1>9, <2>2, WinsInARow
    <3>2. QED  BY <1>9, <2>1, <3>1
  <2>3. CASE yesterday > 0 /\ WonOn(games, yesterday)
    <3>1. yesterday \in 1..MaxDay  BY <1>1, <1>9, <2>3
    <3>2. h.previousWin = 0
      <4>1. SUFFICES ASSUME h.previousWin # 0 PROVE FALSE  OBVIOUS
      <4>2. yesterday \in (h.previousWin + 1)..MaxDay
        BY <1>1, <1>8, <1>9, <1>11, <3>1, <4>1
      <4>3. ~Finished(games[yesterday])  BY <1>7, <1>8, <4>1, <4>2 DEF HistorySound
      <4>4. QED  BY <2>3, <4>3 DEF WonOn, Finished
    <3>3. PICK g \in (yesterday + 1)..MaxDay : games[g].status = "LOST"
      BY <1>7, <2>3, <3>1, <3>2 DEF HistorySound
    <3>4. g \in Days /\ g >= today  BY <1>1, <1>9 DEF Days
    <3>5. ~(g > today)  BY <3>3, <3>4 DEF Finished
    <3>6. g = today  BY <1>1, <3>3, <3>4, <3>5
    <3>7. Finished(games[today]) /\ ~WonOn(games, today)  BY <3>3, <3>6 DEF Finished, WonOn
    <3>8. WinsEndingWith(games, today) = 0  BY <1>1, <3>7, WinsInARow
    <3>9. QED  BY <2>1, <3>7, <3>8
  <2>4. yesterday = 0 \/ yesterday > 0  BY <1>1, <1>9
  <2>5. QED  BY <2>2, <2>3, <2>4 DEF WonOn
<1>12. QED  BY <1>10, <1>11

-----------------------------------------------------------------------------
(* The score row against the games of its account. *)

DoneIn(g) == {d \in Days : Finished(g[d])}
WonIn(g) == {d \in DoneIn(g) : g[d].status = "WON"}
Handed == [totals : Totals \cup {NothingSaved.totals}, done : SUBSET Days]
PlayedFrom(g, save) == save.totals.played + Cardinality(DoneIn(g) \ save.done)
WonFrom(g, save) == save.totals.won + Cardinality(WonIn(g) \ save.done)
InARow(g, since) == {d \in since : \A e \in since : e >= d => e \in WonIn(g)}
StreakOver(g, since, base) ==
  Cardinality(InARow(g, since)) + (IF since \subseteq WonIn(g) THEN base ELSE 0)
SolvesIn(g) == {Points(Len(g[d].guesses)) : d \in WonIn(g)}

(* What the history of an account holds: totals saved, with games finished.  *)
HistoryFits(hand, g) ==
  /\ hand.saves \subseteq Handed /\ hand.streakFrom \in Handed
  /\ hand.streakFrom.done \subseteq DoneIn(g)
  /\ \A s \in hand.saves : s.done \subseteq DoneIn(g)

(* What is counted of an account, from its games and what it handed in.      *)
Counts(played, won, high, streak, g, hand) ==
  /\ IsLargest(played, {Capped(PlayedFrom(g, s)) : s \in hand.saves})
  /\ IsLargest(won, {Capped(WonFrom(g, s)) : s \in hand.saves})
  /\ IsLargest(high, {s.totals.score : s \in hand.saves} \cup SolvesIn(g))
  /\ streak = Capped(StreakOver(g, DoneIn(g) \ hand.streakFrom.done, hand.streakFrom.totals.streak))

RowAccounts(row, g, hand) ==
  /\ HistoryFits(hand, g)
  /\ row = NoRow => DoneIn(g) = {} /\ hand = NothingHandedIn
  /\ row # NoRow => Counts(row.played, row.won, row.high, row.streak, g, hand)

LEMMA PointsAreNumbers == \A n : Points(n) \in Nat
BY PuffdleGameAssumption DEF Points

LEMMA CappedNumbers ==
  \A n \in Nat : Capped(n) \in Nat /\ Capped(n) <= StatCap /\ (n <= StatCap => Capped(n) = n)
BY PuffdleScoresAssumption DEF Capped

LEMMA HandedNumbers ==
  ASSUME NEW s \in Handed
  PROVE  /\ s.totals.score \in Nat /\ s.totals.played \in Nat /\ s.totals.won \in Nat
         /\ s.totals.streak \in Nat
         /\ s.totals.played <= StatCap /\ s.totals.won <= StatCap /\ s.totals.streak <= StatCap
<1>1. CASE s.totals \in Totals
  <2>1. PICK t \in [score : Nat, played : Nat, won : Nat, streak : Nat, best : Nat] :
          t = s.totals /\ ValidStats(t)
    BY <1>1, DailyPuffdleAssumption
  <2>2. t.score \in Nat /\ t.played \in Nat /\ t.won \in Nat /\ t.streak \in Nat  OBVIOUS
  <2>3. t.played \in 0..StatCap /\ t.won \in 0..StatCap /\ t.streak \in 0..StatCap
    BY <2>1 DEF ValidStats
  <2>4. t.played <= StatCap /\ t.won <= StatCap /\ t.streak <= StatCap
    BY <2>3, PuffdleScoresAssumption
  <2>5. QED  BY <2>1, <2>2, <2>4
<1>2. CASE s.totals = NothingSaved.totals
  BY <1>2, PuffdleScoresAssumption DEF NothingSaved
<1>3. QED  BY <1>1, <1>2 DEF Handed

LEMMA RowStays ==
  ASSUME NEW row, NEW g, NEW h, NEW hand, RowAccounts(row, g, hand),
         \A d \in Days : Finished(g[d]) \/ Finished(h[d]) => h[d] = g[d]
  PROVE  RowAccounts(row, h, hand)
<1>1. DoneIn(h) = DoneIn(g)  BY DEF DoneIn
<1>2. \A d \in DoneIn(g) : h[d] = g[d]  BY DEF DoneIn
<1>3. WonIn(h) = WonIn(g)  BY <1>1, <1>2 DEF WonIn
<1>4. \A s : PlayedFrom(h, s) = PlayedFrom(g, s) /\ WonFrom(h, s) = WonFrom(g, s)
  BY <1>1, <1>3 DEF PlayedFrom, WonFrom
<1>5. \A since, base : StreakOver(h, since, base) = StreakOver(g, since, base)
  BY <1>3 DEF StreakOver, InARow
<1>6. \A d \in WonIn(g) : h[d] = g[d]  BY <1>2 DEF WonIn
<1>7. SolvesIn(h) = SolvesIn(g)  BY <1>3, <1>6 DEF SolvesIn
<1>8. HistoryFits(hand, h)  BY <1>1 DEF HistoryFits, RowAccounts
<1>9. row # NoRow => Counts(row.played, row.won, row.high, row.streak, h, hand)
  <2>1. SUFFICES ASSUME row # NoRow
                 PROVE  Counts(row.played, row.won, row.high, row.streak, h, hand)
    OBVIOUS
  <2>2. Counts(row.played, row.won, row.high, row.streak, g, hand)  BY <2>1 DEF RowAccounts
  <2>3. QED  BY <2>2, <1>1, <1>4, <1>5, <1>7 DEF Counts
<1>10. QED  BY <1>1, <1>8, <1>9 DEF RowAccounts

LEMMA CountedDays ==
  ASSUME NEW g
  PROVE  /\ IsFiniteSet(DoneIn(g)) /\ WonIn(g) \subseteq DoneIn(g)
         /\ Cardinality(DoneIn(g)) \in Nat /\ Cardinality(DoneIn(g)) <= StatCap
         /\ \A S \in SUBSET DoneIn(g) :
              IsFiniteSet(S) /\ Cardinality(S) \in Nat /\ Cardinality(S) <= StatCap
<1>1. DoneIn(g) \in SUBSET Days /\ WonIn(g) \subseteq DoneIn(g)  BY DEF DoneIn, WonIn
<1>2. IsFiniteSet(DoneIn(g)) /\ Cardinality(DoneIn(g)) <= Cardinality(Days)
  BY <1>1, DaysAreNumbers, FS_Subset
<1>3. Cardinality(DoneIn(g)) \in Nat  BY <1>2, FS_CardinalityType
<1>4. Cardinality(DoneIn(g)) <= StatCap
  BY <1>2, <1>3, DaysAreNumbers, DailyPuffdleAssumption, PuffdleScoresAssumption
<1>5. ASSUME NEW S \in SUBSET DoneIn(g)
      PROVE  IsFiniteSet(S) /\ Cardinality(S) \in Nat /\ Cardinality(S) <= StatCap
  <2>1. IsFiniteSet(S) /\ Cardinality(S) <= Cardinality(DoneIn(g))  BY <1>2, FS_Subset
  <2>2. Cardinality(S) \in Nat  BY <2>1, FS_CardinalityType
  <2>3. QED  BY <1>3, <1>4, <2>1, <2>2, PuffdleScoresAssumption
<1>6. QED  BY <1>1, <1>2, <1>3, <1>4, <1>5

LEMMA CountsAreNumbers ==
  ASSUME NEW g, NEW s \in Handed
  PROVE  /\ PlayedFrom(g, s) \in Nat /\ WonFrom(g, s) \in Nat
         /\ DoneIn(g) \subseteq s.done =>
              PlayedFrom(g, s) = s.totals.played /\ WonFrom(g, s) = s.totals.won
<1>1. DoneIn(g) \ s.done \in SUBSET DoneIn(g) /\ WonIn(g) \ s.done \in SUBSET DoneIn(g)
  BY CountedDays
<1>2. Cardinality(DoneIn(g) \ s.done) \in Nat /\ Cardinality(WonIn(g) \ s.done) \in Nat
  BY <1>1, CountedDays
<1>3. s.totals.played \in Nat /\ s.totals.won \in Nat  BY HandedNumbers
<1>4. DoneIn(g) \subseteq s.done =>
        Cardinality(DoneIn(g) \ s.done) = 0 /\ Cardinality(WonIn(g) \ s.done) = 0
  <2>1. DoneIn(g) \subseteq s.done => DoneIn(g) \ s.done = {} /\ WonIn(g) \ s.done = {}
    BY CountedDays
  <2>2. QED  BY <2>1, FS_EmptySet
<1>5. PICK p, w \in Nat :
        p = Cardinality(DoneIn(g) \ s.done) /\ w = Cardinality(WonIn(g) \ s.done)
  BY <1>2
<1>6. PlayedFrom(g, s) = s.totals.played + p /\ WonFrom(g, s) = s.totals.won + w
  BY <1>5 DEF PlayedFrom, WonFrom
<1>7. QED  BY <1>3, <1>4, <1>5, <1>6

(* The largest of some counts goes up with them, or takes in another one.    *)
LEMMA LargestGoesUp ==
  ASSUME NEW V \in SUBSET Nat, NEW n, IsLargest(n, {Capped(v) : v \in V}), NEW one \in {0, 1}
  PROVE  n \in Nat /\ IsLargest(Capped(n + one), {Capped(v + one) : v \in V})
<1>1. PICK v \in V : n = Capped(v)  BY DEF IsLargest
<1>2. v \in Nat /\ n \in Nat  BY <1>1, CappedNumbers
<1>3. Capped(n + one) = Capped(v + one)  BY <1>1, <1>2, PuffdleScoresAssumption DEF Capped
<1>4. ASSUME NEW w \in V PROVE Capped(n + one) >= Capped(w + one)
  <2>1. w \in Nat /\ n >= Capped(w)  BY DEF IsLargest
  <2>2. QED  BY <1>2, <2>1, PuffdleScoresAssumption DEF Capped
<1>5. QED  BY <1>1, <1>2, <1>3, <1>4 DEF IsLargest

LEMMA LargestTakesIn ==
  ASSUME NEW S \in SUBSET Nat, NEW n, IsLargest(n, S), NEW m \in Nat
  PROVE  n \in Nat /\ IsLargest(Greatest(n, m), S \cup {m})
<1>1. n \in S /\ n \in Nat /\ \A v \in S : n >= v  BY DEF IsLargest
<1>2. Greatest(n, m) \in {n, m} /\ Greatest(n, m) >= n /\ Greatest(n, m) >= m
  BY <1>1 DEF Greatest
<1>3. \A v \in S : v \in Nat /\ Greatest(n, m) >= v  BY <1>1, <1>2
<1>4. QED  BY <1>1, <1>2, <1>3 DEF IsLargest

(* A day's game ends, after all those that ended before.                     *)
GameEnds(g, h, day) ==
  /\ ~Finished(g[day]) /\ Finished(h[day])
  /\ \A d \in Days : d # day => h[d] = g[d]
  /\ \A d \in Days : d > day => ~Finished(g[d])

LEMMA CountsFollow ==
  ASSUME NEW played, NEW won, NEW high, NEW streak, NEW g, NEW h, NEW hand, NEW day \in Days,
         Counts(played, won, high, streak, g, hand), HistoryFits(hand, g), GameEnds(g, h, day),
         NEW one, one = IF h[day].status = "WON" THEN 1 ELSE 0,
         NEW points, points = IF h[day].status = "WON" THEN Points(Len(h[day].guesses)) ELSE 0
  PROVE  /\ played \in Nat /\ won \in Nat /\ high \in Nat /\ streak \in Nat
         /\ HistoryFits(hand, h)
         /\ Counts(Capped(played + 1), Capped(won + one), Greatest(high, points),
                   IF h[day].status = "WON" THEN Capped(streak + 1) ELSE 0, h, hand)
<1>1. /\ DoneIn(h) = DoneIn(g) \cup {day} /\ day \notin DoneIn(g)
      /\ \A d \in DoneIn(g) : h[d] = g[d] /\ d # day
  BY DEF DoneIn, GameEnds
<1>2. WonIn(h) = IF h[day].status = "WON" THEN WonIn(g) \cup {day} ELSE WonIn(g)
  BY <1>1 DEF WonIn
<1>3. day \notin WonIn(g) /\ WonIn(g) \subseteq DoneIn(g)
  BY <1>1 DEF WonIn
<1>4. HistoryFits(hand, h)  BY <1>1 DEF HistoryFits
<1>5. \A s \in hand.saves : s \in Handed /\ day \notin s.done /\ s.done \subseteq DoneIn(g)
  BY <1>1 DEF HistoryFits
<1>6. one \in {0, 1} /\ points \in Nat  BY PointsAreNumbers
<1>7. ASSUME NEW s \in hand.saves
      PROVE  /\ PlayedFrom(h, s) = PlayedFrom(g, s) + 1 /\ WonFrom(h, s) = WonFrom(g, s) + one
             /\ PlayedFrom(g, s) \in Nat /\ WonFrom(g, s) \in Nat
  <2>1. s \in Handed /\ day \notin s.done  BY <1>5
  <2>2. PICK D, W : D = DoneIn(g) \ s.done /\ W = WonIn(g) \ s.done  OBVIOUS
  <2>3. D \in SUBSET DoneIn(g) /\ W \in SUBSET DoneIn(g) /\ day \notin D /\ day \notin W
    BY <1>1, <1>3, <2>2
  <2>4. /\ IsFiniteSet(D) /\ IsFiniteSet(W) /\ Cardinality(D) \in Nat /\ Cardinality(W) \in Nat
    BY <2>3, CountedDays
  <2>5. /\ Cardinality(D \cup {day}) = Cardinality(D) + 1
        /\ Cardinality(W \cup {day}) = Cardinality(W) + 1
    BY <2>3, <2>4, FS_AddElement
  <2>6. DoneIn(h) \ s.done = D \cup {day}  BY <1>1, <2>1, <2>2
  <2>7. WonIn(h) \ s.done = IF h[day].status = "WON" THEN W \cup {day} ELSE W
    BY <1>2, <2>1, <2>2
  <2>8. s.totals.played \in Nat /\ s.totals.won \in Nat  BY <2>1, HandedNumbers
  <2>9. /\ PlayedFrom(g, s) = s.totals.played + Cardinality(D)
        /\ WonFrom(g, s) = s.totals.won + Cardinality(W)
        /\ PlayedFrom(h, s) = s.totals.played + Cardinality(D \cup {day})
        /\ WonFrom(h, s) = s.totals.won + Cardinality(WonIn(h) \ s.done)
    BY <2>2, <2>6 DEF PlayedFrom, WonFrom
  <2>10. PICK c, w, wh : c = Cardinality(D) /\ w = Cardinality(W)
                         /\ wh = Cardinality(WonIn(h) \ s.done)
    OBVIOUS
  <2>11. c \in Nat /\ w \in Nat  BY <2>4, <2>10
  <2>12. wh = w + one
    <3>1. CASE h[day].status = "WON"
      <4>1. wh = Cardinality(W \cup {day})  BY <2>7, <2>10, <3>1
      <4>2. one = 1  BY <3>1
      <4>3. QED  BY <2>5, <2>10, <4>1, <4>2
    <3>2. CASE h[day].status # "WON"
      <4>1. wh = w  BY <2>7, <2>10, <3>2
      <4>2. one = 0  BY <3>2
      <4>3. QED  BY <2>11, <4>1, <4>2
    <3>3. QED  BY <3>1, <3>2
  <2>13. PICK p, q \in Nat : p = s.totals.played /\ q = s.totals.won  BY <2>8
  <2>14. /\ PlayedFrom(g, s) = p + c /\ WonFrom(g, s) = q + w
         /\ PlayedFrom(h, s) = p + (c + 1) /\ WonFrom(h, s) = q + (w + one)
    BY <2>5, <2>9, <2>10, <2>12, <2>13
  <2>15. p + c \in Nat /\ q + w \in Nat /\ p + (c + 1) = (p + c) + 1
         /\ q + (w + one) = (q + w) + one
    BY <1>6, <2>11, <2>13
  <2>16. QED  BY <2>14, <2>15
<1>8. played \in Nat /\ IsLargest(Capped(played + 1), {Capped(PlayedFrom(h, s)) : s \in hand.saves})
  <2>1. PICK V \in SUBSET Nat : V = {PlayedFrom(g, s) : s \in hand.saves}  BY <1>7
  <2>2. {Capped(v) : v \in V} = {Capped(PlayedFrom(g, s)) : s \in hand.saves}  BY <2>1
  <2>3. {Capped(v + 1) : v \in V} = {Capped(PlayedFrom(h, s)) : s \in hand.saves}
    BY <2>1, <1>7
  <2>4. IsLargest(played, {Capped(v) : v \in V})  BY <2>2 DEF Counts
  <2>5. PICK o \in {0, 1} : o = 1  OBVIOUS
  <2>6. played \in Nat /\ IsLargest(Capped(played + o), {Capped(v + o) : v \in V})
    BY <2>4, LargestGoesUp
  <2>7. QED  BY <2>3, <2>5, <2>6
<1>9. won \in Nat /\ IsLargest(Capped(won + one), {Capped(WonFrom(h, s)) : s \in hand.saves})
  <2>1. PICK V \in SUBSET Nat : V = {WonFrom(g, s) : s \in hand.saves}  BY <1>7
  <2>2. {Capped(v) : v \in V} = {Capped(WonFrom(g, s)) : s \in hand.saves}  BY <2>1
  <2>3. {Capped(v + one) : v \in V} = {Capped(WonFrom(h, s)) : s \in hand.saves}
    BY <2>1, <1>7
  <2>4. IsLargest(won, {Capped(v) : v \in V})  BY <2>2 DEF Counts
  <2>5. won \in Nat /\ IsLargest(Capped(won + one), {Capped(v + one) : v \in V})
    BY <1>6, <2>4, LargestGoesUp
  <2>6. QED  BY <2>3, <2>5
<1>10. /\ high \in Nat
       /\ IsLargest(Greatest(high, points), {s.totals.score : s \in hand.saves} \cup SolvesIn(h))
  <2>1. PICK S \in SUBSET Nat : S = {s.totals.score : s \in hand.saves} \cup SolvesIn(g)
    <3>1. \A s \in hand.saves : s.totals.score \in Nat  BY <1>5, HandedNumbers
    <3>2. SolvesIn(g) \subseteq Nat  BY PointsAreNumbers DEF SolvesIn
    <3>3. QED  BY <3>1, <3>2
  <2>2. IsLargest(high, S)  BY <2>1 DEF Counts
  <2>3. high \in Nat /\ IsLargest(Greatest(high, points), S \cup {points})
    BY <1>6, <2>2, LargestTakesIn
  <2>4. \A d \in WonIn(g) : h[d] = g[d]  BY <1>1, <1>3
  <2>5. CASE h[day].status = "WON"
    <3>1. SolvesIn(h) = SolvesIn(g) \cup {points}  BY <1>2, <2>4, <2>5 DEF SolvesIn
    <3>2. QED  BY <2>1, <2>3, <3>1
  <2>6. CASE h[day].status # "WON"
    <3>1. SolvesIn(h) = SolvesIn(g)  BY <1>2, <2>4, <2>6 DEF SolvesIn
    <3>2. Greatest(high, points) = high  BY <2>3, <2>6 DEF Greatest
    <3>3. QED  BY <2>1, <2>2, <2>3, <3>1, <3>2
  <2>7. QED  BY <2>5, <2>6
<1>11. PICK from \in Handed : from = hand.streakFrom  BY DEF HistoryFits
<1>12. PICK since, base : since = DoneIn(g) \ from.done /\ base = from.totals.streak  OBVIOUS
<1>13. /\ since \in SUBSET DoneIn(g) /\ day \notin since /\ base \in Nat
       /\ DoneIn(h) \ from.done = since \cup {day}
  <2>1. from.done \subseteq DoneIn(g)  BY <1>11 DEF HistoryFits
  <2>2. base \in Nat  BY <1>12, HandedNumbers
  <2>3. QED  BY <1>1, <1>12, <2>1, <2>2
<1>14. day \in Nat /\ \A d \in since : d \in Nat /\ d < day
  BY <1>1, <1>13, DaysAreNumbers DEF DoneIn, GameEnds
<1>15. InARow(g, since) \in SUBSET DoneIn(g) /\ day \notin InARow(g, since)
  BY <1>13 DEF InARow
<1>16. streak = Capped(StreakOver(g, since, base)) /\ StreakOver(g, since, base) \in Nat
  <2>1. Cardinality(InARow(g, since)) \in Nat  BY <1>15, CountedDays
  <2>2. (IF since \subseteq WonIn(g) THEN base ELSE 0) \in Nat  BY <1>13
  <2>3. StreakOver(g, since, base) \in Nat  BY <2>1, <2>2 DEF StreakOver
  <2>4. QED  BY <2>3, <1>11, <1>12 DEF Counts
<1>17. streak \in Nat  BY <1>16, CappedNumbers
<1>18. (IF h[day].status = "WON" THEN Capped(streak + 1) ELSE 0)
         = Capped(StreakOver(h, since \cup {day}, base))
  <2>1. CASE h[day].status = "WON"
    <3>1. ASSUME NEW d \in since
          PROVE  (\A e \in since \cup {day} : e >= d => e \in WonIn(h))
                   <=> (\A e \in since : e >= d => e \in WonIn(g))
      BY <1>1, <1>2, <1>13, <2>1
    <3>2. \A e \in since \cup {day} : e >= day => e \in WonIn(h)
      BY <1>2, <1>14, <2>1
    <3>3. InARow(h, since \cup {day}) = InARow(g, since) \cup {day}
      BY <3>1, <3>2 DEF InARow
    <3>4. IsFiniteSet(InARow(g, since)) /\ Cardinality(InARow(g, since)) \in Nat
      BY <1>15, CountedDays
    <3>5. Cardinality(InARow(g, since) \cup {day}) = Cardinality(InARow(g, since)) + 1
      BY <1>15, <3>4, FS_AddElement
    <3>6. since \cup {day} \subseteq WonIn(h) <=> since \subseteq WonIn(g)
      BY <1>2, <1>13, <2>1
    <3>7. PICK more \in Nat : more = IF since \subseteq WonIn(g) THEN base ELSE 0  BY <1>13
    <3>8. StreakOver(h, since \cup {day}, base) = Cardinality(InARow(g, since) \cup {day}) + more
      BY <3>3, <3>6, <3>7 DEF StreakOver
    <3>9. StreakOver(g, since, base) = Cardinality(InARow(g, since)) + more
      BY <3>7 DEF StreakOver
    <3>10. StreakOver(h, since \cup {day}, base) = StreakOver(g, since, base) + 1
      BY <3>4, <3>5, <3>8, <3>9
    <3>11. QED  BY <1>16, <2>1, <3>10, PuffdleScoresAssumption DEF Capped
  <2>2. CASE h[day].status # "WON"
    <3>1. day \notin WonIn(h)  BY <1>2, <1>3, <2>2
    <3>2. \A d \in since \cup {day} : day >= d  BY <1>14
    <3>3. InARow(h, since \cup {day}) = {}  BY <3>1, <3>2 DEF InARow
    <3>4. ~(since \cup {day} \subseteq WonIn(h))  BY <3>1
    <3>5. Cardinality({}) = 0  BY FS_EmptySet
    <3>6. StreakOver(h, since \cup {day}, base) = 0 + 0  BY <3>3, <3>4, <3>5 DEF StreakOver
    <3>7. QED  BY <2>2, <3>6, PuffdleScoresAssumption DEF Capped
  <2>3. QED  BY <2>1, <2>2
<1>19. QED
  <2>1. StreakOver(h, DoneIn(h) \ hand.streakFrom.done, hand.streakFrom.totals.streak)
          = StreakOver(h, since \cup {day}, base)
    BY <1>11, <1>12, <1>13
  <2>2. Counts(Capped(played + 1), Capped(won + one), Greatest(high, points),
               IF h[day].status = "WON" THEN Capped(streak + 1) ELSE 0, h, hand)
    BY <1>8, <1>9, <1>10, <1>18, <2>1 DEF Counts
  <2>3. QED  BY <1>4, <1>8, <1>9, <1>10, <1>17, <2>2

(* An account without a row counts from nothing.                             *)
LEMMA NothingCounts ==
  ASSUME NEW g, DoneIn(g) = {}, NEW hand, hand = NothingHandedIn
  PROVE  Counts(0, 0, 0, 0, g, hand)
<1>1. WonIn(g) = {} /\ SolvesIn(g) = {}  BY DEF WonIn, SolvesIn
<1>2. Cardinality({}) = 0  BY FS_EmptySet
<1>3. hand.saves = {NothingSaved} /\ hand.streakFrom = NothingSaved  BY DEF NothingHandedIn
<1>4. /\ NothingSaved.totals.played = 0 /\ NothingSaved.totals.won = 0
      /\ NothingSaved.totals.score = 0 /\ NothingSaved.totals.streak = 0 /\ NothingSaved.done = {}
  BY DEF NothingSaved
<1>5. {} \ {} = {}  OBVIOUS
<1>6. PlayedFrom(g, NothingSaved) = 0 /\ WonFrom(g, NothingSaved) = 0
  BY <1>1, <1>2, <1>4, <1>5 DEF PlayedFrom, WonFrom
<1>7. InARow(g, {}) = {}  BY DEF InARow
<1>8. StreakOver(g, {}, 0) = 0  BY <1>2, <1>7 DEF StreakOver
<1>9. Capped(0) = 0  BY CappedNumbers, PuffdleScoresAssumption
<1>10. /\ {Capped(PlayedFrom(g, s)) : s \in hand.saves} = {0}
       /\ {Capped(WonFrom(g, s)) : s \in hand.saves} = {0}
       /\ {s.totals.score : s \in hand.saves} \cup SolvesIn(g) = {0}
  BY <1>1, <1>3, <1>4, <1>6, <1>9
<1>11. IsLargest(0, {0})  BY DEF IsLargest
<1>12. QED  BY <1>3, <1>4, <1>5, <1>8, <1>9, <1>10, <1>11 DEF Counts

LEMMA RowFollows ==
  ASSUME NEW row \in Rows, NEW g, NEW h, NEW hand, NEW day \in Days, RowAccounts(row, g, hand),
         ~Finished(g[day]), Finished(h[day]),
         \A d \in Days : d # day => h[d] = g[d],
         \A d \in Days : d > day => ~Finished(g[d]), NEW now \in Nat
  PROVE  LET next == DailyScored(row, h[day].status = "WON", Points(Len(h[day].guesses)), now)
         IN next \in ScoreRow /\ RowAccounts(next, h, hand)
<1> DEFINE win == h[day].status = "WON"
           points == Points(Len(h[day].guesses))
           next == DailyScored(row, win, points, now)
<1> USE PuffdleScoresAssumption
<1>0. points \in Nat  BY PointsAreNumbers
<1>1. next \in ScoreRow
  <2>1. CASE row = NoRow
    BY <2>1, <1>0 DEF DailyScored, ScoreRow
  <2>2. CASE row \in ScoreRow
    <3>1. row # NoRow /\ row.high \in Nat /\ row.played \in Nat /\ row.won \in Nat
          /\ row.streak \in Nat /\ row.best \in Nat /\ row.achieved \in Nat /\ row.updated \in Nat
      BY <2>2 DEF ScoreRow
    <3>2. \A a, b \in Nat : Greatest(a, b) \in Nat /\ Capped(a) \in Nat
      BY DEF Greatest, Capped
    <3>3. (IF win THEN 1 ELSE 0) \in Nat /\ (IF win THEN points ELSE 0) \in Nat
      BY <1>0
    <3>4. PICK one, high \in Nat :
            one = (IF win THEN 1 ELSE 0) /\ high = (IF win THEN points ELSE 0)
      BY <3>3
    <3>5. PICK streak \in Nat : streak = IF win THEN Capped(row.streak + 1) ELSE 0
      <4>1. row.streak + 1 \in Nat  BY <3>1
      <4>2. Capped(row.streak + 1) \in Nat  BY <4>1, <3>2
      <4>3. (IF win THEN Capped(row.streak + 1) ELSE 0) \in Nat  BY <4>2
      <4>4. QED  BY <4>3
    <3>6. next = [high     |-> Greatest(row.high, high),
                  played   |-> Capped(row.played + 1),
                  won      |-> Capped(row.won + one),
                  streak   |-> streak,
                  best     |-> Greatest(row.best, streak),
                  achieved |-> IF high > row.high THEN Greatest(now, row.updated) ELSE row.achieved,
                  updated  |-> Greatest(now, row.updated)]
      BY <3>1, <3>4, <3>5 DEF DailyScored
    <3>7. /\ Greatest(row.high, high) \in Nat /\ Capped(row.played + 1) \in Nat
          /\ Capped(row.won + one) \in Nat /\ Greatest(row.best, streak) \in Nat
          /\ Greatest(now, row.updated) \in Nat
          /\ (IF high > row.high THEN Greatest(now, row.updated) ELSE row.achieved) \in Nat
      <4>1. row.played + 1 \in Nat /\ row.won + one \in Nat  BY <3>1
      <4>2. Capped(row.played + 1) \in Nat /\ Capped(row.won + one) \in Nat
        BY <4>1, <3>2
      <4>3. Greatest(row.high, high) \in Nat /\ Greatest(row.best, streak) \in Nat
        BY <3>1, <3>2
      <4>4. Greatest(now, row.updated) \in Nat  BY <3>1, <3>2
      <4>5. QED  BY <3>1, <4>2, <4>3, <4>4
    <3>8. QED  BY <3>6, <3>7 DEF ScoreRow
  <2>3. QED  BY <2>1, <2>2 DEF Rows
<1>2. next # NoRow  BY <1>1
<1>3. PICK one, high \in Nat :
        one = (IF win THEN 1 ELSE 0) /\ high = (IF win THEN points ELSE 0)
  BY <1>0
<1>4. HistoryFits(hand, g) /\ GameEnds(g, h, day)  BY DEF RowAccounts, GameEnds
<1>5. HistoryFits(hand, h) /\ Counts(next.played, next.won, next.high, next.streak, h, hand)
  <2>1. CASE row = NoRow
    <3>1. PICK z : z = 0 /\ Counts(z, z, z, z, g, hand)
      BY <2>1, NothingCounts DEF RowAccounts
    <3>2. /\ HistoryFits(hand, h)
          /\ Counts(Capped(z + 1), Capped(z + one), Greatest(z, high),
                    IF h[day].status = "WON" THEN Capped(z + 1) ELSE 0, h, hand)
      BY <1>3, <1>4, <3>1, CountsFollow
    <3>3. /\ next.played = 1 /\ next.won = one /\ next.high = high
          /\ next.streak = IF win THEN 1 ELSE 0
      BY <1>3, <2>1 DEF DailyScored
    <3>4. /\ Capped(z + 1) = 1 /\ Capped(z + one) = one /\ Greatest(z, high) = high
      <4>1. z = 0  BY <3>1
      <4>2. one = 0 \/ one = 1  BY <1>3
      <4>3. z + 1 = 1 /\ z + one = one /\ one <= StatCap /\ 1 <= StatCap  BY <4>1, <4>2
      <4>4. Greatest(z, high) = high  BY <1>3, <4>1 DEF Greatest
      <4>5. QED  BY <4>3, <4>4 DEF Capped
    <3>5. QED  BY <3>2, <3>3, <3>4
  <2>2. CASE row # NoRow
    <3>1. Counts(row.played, row.won, row.high, row.streak, g, hand)  BY <2>2 DEF RowAccounts
    <3>2. /\ HistoryFits(hand, h)
          /\ Counts(Capped(row.played + 1), Capped(row.won + one), Greatest(row.high, high),
                    IF h[day].status = "WON" THEN Capped(row.streak + 1) ELSE 0, h, hand)
      <4>1. PICK p, w, hi, st : /\ p = row.played /\ w = row.won /\ hi = row.high /\ st = row.streak
                                /\ Counts(p, w, hi, st, g, hand)
        BY <3>1
      <4>2. /\ HistoryFits(hand, h)
            /\ Counts(Capped(p + 1), Capped(w + one), Greatest(hi, high),
                      IF h[day].status = "WON" THEN Capped(st + 1) ELSE 0, h, hand)
        BY <1>3, <1>4, <4>1, CountsFollow
      <4>3. QED  BY <4>1, <4>2
    <3>3. /\ next.played = Capped(row.played + 1) /\ next.won = Capped(row.won + one)
          /\ next.high = Greatest(row.high, high)
          /\ next.streak = IF win THEN Capped(row.streak + 1) ELSE 0
      BY <1>3, <2>2 DEF DailyScored
    <3>4. QED  BY <3>2, <3>3
  <2>3. QED  BY <2>1, <2>2
<1>6. QED  BY <1>1, <1>2, <1>5 DEF RowAccounts

(* Totals of an Unlimited page are merged into the row.                      *)
LEMMA RowMerges ==
  ASSUME NEW row \in Rows, NEW g, NEW hand, RowAccounts(row, g, hand),
         NEW totals \in Totals, NEW now \in Nat, NEW save,
         save = [totals |-> totals, done |-> DoneIn(g)], NEW adopted \in BOOLEAN,
         adopted = (row = NoRow \/ totals.played > row.played), NEW latest,
         latest = IF adopted THEN save ELSE hand.streakFrom, NEW next,
         next = [saves |-> hand.saves \cup {save}, streakFrom |-> latest]
  PROVE  /\ UnlimitedScored(row, totals, now) \in ScoreRow
         /\ RowAccounts(UnlimitedScored(row, totals, now), g, next)
<1>1. PICK merged : merged = UnlimitedScored(row, totals, now)  OBVIOUS
<1>2. save \in Handed  BY DEF Handed, DoneIn
<1>3. /\ save.totals = totals /\ save.done = DoneIn(g)
      /\ totals.score \in Nat /\ totals.played \in Nat /\ totals.won \in Nat
      /\ totals.streak \in Nat /\ totals.best \in Nat
      /\ totals.played <= StatCap /\ totals.won <= StatCap /\ totals.streak <= StatCap
  <2>1. totals.best \in Nat  BY DailyPuffdleAssumption
  <2>2. QED  BY <1>2, <2>1, HandedNumbers
<1>4. PlayedFrom(g, save) = totals.played /\ WonFrom(g, save) = totals.won
  BY <1>2, <1>3, CountsAreNumbers
<1>7. next.saves = hand.saves \cup {save} /\ next.streakFrom = latest  OBVIOUS
<1>8. HistoryFits(hand, g)  BY DEF RowAccounts
<1>9. HistoryFits(next, g)  BY <1>2, <1>3, <1>7, <1>8 DEF HistoryFits
<1>10. PICK played, won, high, streak :
         /\ Counts(played, won, high, streak, g, hand)
         /\ row = NoRow => played = 0 /\ won = 0 /\ high = 0 /\ streak = 0
         /\ row # NoRow => /\ played = row.played /\ won = row.won
                          /\ high = row.high /\ streak = row.streak
  <2>1. CASE row = NoRow
    <3>1. Counts(0, 0, 0, 0, g, hand)  BY <2>1, NothingCounts DEF RowAccounts
    <3>2. QED  BY <2>1, <3>1
  <2>2. CASE row # NoRow
    <3>1. Counts(row.played, row.won, row.high, row.streak, g, hand)  BY <2>2 DEF RowAccounts
    <3>2. QED  BY <2>2, <3>1
  <2>3. QED  BY <2>1, <2>2
<1>11. \A s \in hand.saves : s \in Handed /\ PlayedFrom(g, s) \in Nat /\ WonFrom(g, s) \in Nat
  BY <1>8, CountsAreNumbers DEF HistoryFits
<1>12. /\ played \in Nat
       /\ IsLargest(Greatest(played, totals.played), {Capped(PlayedFrom(g, s)) : s \in next.saves})
  <2>1. PICK S \in SUBSET Nat : S = {Capped(PlayedFrom(g, s)) : s \in hand.saves}
    <3>1. \A s \in hand.saves : Capped(PlayedFrom(g, s)) \in Nat  BY <1>11, CappedNumbers
    <3>2. {Capped(PlayedFrom(g, s)) : s \in hand.saves} \in SUBSET Nat  BY <3>1
    <3>3. QED  BY <3>2
  <2>2. IsLargest(played, S)  BY <1>10, <2>1 DEF Counts
  <2>3. played \in Nat /\ IsLargest(Greatest(played, totals.played), S \cup {totals.played})
    BY <1>3, <2>2, LargestTakesIn
  <2>4. Capped(PlayedFrom(g, save)) = totals.played  BY <1>3, <1>4, CappedNumbers
  <2>5. {Capped(PlayedFrom(g, s)) : s \in next.saves} = S \cup {totals.played}
    BY <1>7, <2>1, <2>4
  <2>6. QED  BY <2>3, <2>5
<1>13. /\ won \in Nat
       /\ IsLargest(Greatest(won, totals.won), {Capped(WonFrom(g, s)) : s \in next.saves})
  <2>1. PICK S \in SUBSET Nat : S = {Capped(WonFrom(g, s)) : s \in hand.saves}
    <3>1. \A s \in hand.saves : Capped(WonFrom(g, s)) \in Nat  BY <1>11, CappedNumbers
    <3>2. {Capped(WonFrom(g, s)) : s \in hand.saves} \in SUBSET Nat  BY <3>1
    <3>3. QED  BY <3>2
  <2>2. IsLargest(won, S)  BY <1>10, <2>1 DEF Counts
  <2>3. won \in Nat /\ IsLargest(Greatest(won, totals.won), S \cup {totals.won})
    BY <1>3, <2>2, LargestTakesIn
  <2>4. Capped(WonFrom(g, save)) = totals.won  BY <1>3, <1>4, CappedNumbers
  <2>5. {Capped(WonFrom(g, s)) : s \in next.saves} = S \cup {totals.won}
    BY <1>7, <2>1, <2>4
  <2>6. QED  BY <2>3, <2>5
<1>14. /\ high \in Nat
       /\ IsLargest(Greatest(high, totals.score),
                    {s.totals.score : s \in next.saves} \cup SolvesIn(g))
  <2>1. PICK S \in SUBSET Nat : S = {s.totals.score : s \in hand.saves} \cup SolvesIn(g)
    <3>1. \A s \in hand.saves : s.totals.score \in Nat  BY <1>11, HandedNumbers
    <3>2. SolvesIn(g) \subseteq Nat  BY PointsAreNumbers DEF SolvesIn
    <3>3. QED  BY <3>1, <3>2
  <2>2. IsLargest(high, S)  BY <1>10, <2>1 DEF Counts
  <2>3. high \in Nat /\ IsLargest(Greatest(high, totals.score), S \cup {totals.score})
    BY <1>3, <2>2, LargestTakesIn
  <2>4. {s.totals.score : s \in next.saves} \cup SolvesIn(g) = S \cup {totals.score}
    BY <1>3, <1>7, <2>1
  <2>5. QED  BY <2>3, <2>4
<1>15. (IF adopted THEN totals.streak ELSE streak)
         = Capped(StreakOver(g, DoneIn(g) \ next.streakFrom.done, next.streakFrom.totals.streak))
  <2>1. CASE adopted
    <3>1. next.streakFrom = save /\ DoneIn(g) \ save.done = {}  BY <1>3, <1>7, <2>1
    <3>2. InARow(g, {}) = {} /\ {} \subseteq WonIn(g)  BY DEF InARow
    <3>3. Cardinality({}) = 0  BY FS_EmptySet
    <3>4. StreakOver(g, {}, totals.streak) = 0 + totals.streak  BY <3>2, <3>3 DEF StreakOver
    <3>5. StreakOver(g, {}, totals.streak) = totals.streak  BY <1>3, <3>4
    <3>6. Capped(totals.streak) = totals.streak  BY <1>3, CappedNumbers
    <3>7. QED  BY <1>3, <2>1, <3>1, <3>5, <3>6
  <2>2. CASE ~adopted
    <3>1. next.streakFrom = hand.streakFrom  BY <1>7, <2>2
    <3>2. QED  BY <1>10, <2>2, <3>1 DEF Counts
  <2>3. QED  BY <2>1, <2>2
<1>16. streak \in Nat
  <2>1. PICK from \in Handed : from = hand.streakFrom  BY <1>8 DEF HistoryFits
  <2>2. InARow(g, DoneIn(g) \ from.done) \in SUBSET DoneIn(g)  BY DEF InARow
  <2>3. Cardinality(InARow(g, DoneIn(g) \ from.done)) \in Nat  BY <2>2, CountedDays
  <2>4. from.totals.streak \in Nat  BY HandedNumbers
  <2>5. StreakOver(g, DoneIn(g) \ from.done, from.totals.streak) \in Nat
    BY <2>3, <2>4 DEF StreakOver
  <2>6. QED  BY <1>10, <2>1, <2>5, CappedNumbers DEF Counts
<1>17. /\ merged \in ScoreRow /\ merged.played = Greatest(played, totals.played)
       /\ merged.won = Greatest(won, totals.won) /\ merged.high = Greatest(high, totals.score)
       /\ merged.streak = IF adopted THEN totals.streak ELSE streak
  <2>1. CASE row = NoRow
    <3>1. /\ merged = [high |-> totals.score, played |-> totals.played, won |-> totals.won,
                       streak |-> totals.streak, best |-> totals.best,
                       achieved |-> now, updated |-> now]
          /\ adopted
      BY <1>1, <2>1 DEF UnlimitedScored
    <3>2. /\ Greatest(0, totals.played) = totals.played /\ Greatest(0, totals.won) = totals.won
          /\ Greatest(0, totals.score) = totals.score
      BY <1>3 DEF Greatest
    <3>3. QED  BY <1>3, <1>10, <2>1, <3>1, <3>2 DEF ScoreRow
  <2>2. CASE row # NoRow
    <3>1. /\ row.high \in Nat /\ row.best \in Nat /\ row.achieved \in Nat /\ row.updated \in Nat
      BY <2>2 DEF Rows, ScoreRow
    <3>2. \A a, b \in Nat : Greatest(a, b) \in Nat  BY DEF Greatest
    <3>3. PICK best, achieved, updated \in Nat :
            /\ best = Greatest(row.best, totals.best)
            /\ achieved = IF totals.score > row.high THEN Greatest(now, row.updated)
                          ELSE row.achieved
            /\ updated = Greatest(now, row.updated)
      BY <1>3, <3>1, <3>2
    <3>4. merged = [high |-> Greatest(high, totals.score),
                    played |-> Greatest(played, totals.played),
                    won |-> Greatest(won, totals.won),
                    streak |-> IF adopted THEN totals.streak ELSE streak,
                    best |-> best, achieved |-> achieved, updated |-> updated]
      BY <1>1, <1>10, <2>2, <3>3 DEF UnlimitedScored
    <3>5. /\ Greatest(high, totals.score) \in Nat /\ Greatest(played, totals.played) \in Nat
          /\ Greatest(won, totals.won) \in Nat
          /\ (IF adopted THEN totals.streak ELSE streak) \in Nat
      BY <1>3, <1>12, <1>13, <1>14, <1>16, <3>2
    <3>6. QED  BY <3>4, <3>5 DEF ScoreRow
  <2>3. QED  BY <2>1, <2>2
<1>18. Counts(merged.played, merged.won, merged.high, merged.streak, g, next)
  BY <1>12, <1>13, <1>14, <1>15, <1>17 DEF Counts
<1>19. merged # NoRow  BY <1>17, PuffdleScoresAssumption
<1>20. RowAccounts(merged, g, next)  BY <1>9, <1>18, <1>19 DEF RowAccounts
<1>21. QED  BY <1>1, <1>17, <1>20

-----------------------------------------------------------------------------
(* The games and the score rows of the database. *)

GamesSound ==
  /\ dbDay \in Days
  /\ dailyGames \in AllGames
  /\ scores \in [Accounts -> Rows]
  /\ \A a \in Accounts, d \in Days :
       dailyGames[a][d].status = "NONE" => dailyGames[a][d].guesses = <<>>
  /\ \A a \in Accounts, d \in Days : d > dbDay => dailyGames[a][d].status = "NONE"
  /\ handedIn = [a \in Accounts |-> handedIn[a]]
  /\ \A a \in Accounts :
       handedIn[a] = [saves |-> handedIn[a].saves, streakFrom |-> handedIn[a].streakFrom]
  /\ \A a \in Accounts : RowAccounts(scores[a], dailyGames[a], handedIn[a])

(* Guesses are only appended. *)
Grows(G, H) ==
  \A a \in Accounts, d \in Days :
    /\ Len(G[a][d].guesses) <= Len(H[a][d].guesses)
    /\ \A i \in 1..Len(G[a][d].guesses) : H[a][d].guesses[i] = G[a][d].guesses[i]

LEMMA GrowsNot == \A G \in AllGames : Grows(G, G)
<1> SUFFICES ASSUME NEW G \in AllGames, NEW a \in Accounts, NEW d \in Days
             PROVE  Len(G[a][d].guesses) <= Len(G[a][d].guesses)
  BY DEF Grows
<1>1. G[a][d] \in Games  BY DEF AllGames
<1>2. G[a][d].guesses \in Seq(Words)  BY <1>1 DEF Games
<1>3. Len(G[a][d].guesses) \in Nat  BY <1>2
<1>4. QED  BY <1>3

(* One game of one account changes, the row of that account with it or not.  *)
LEMMA GameChanges ==
  ASSUME GamesSound, NEW a \in Accounts, NEW day \in Days, NEW game \in Games,
         NEW row \in Rows, day = dbDay, game.status # "NONE",
         dailyGames' = [dailyGames EXCEPT ![a][day] = game],
         scores' = [scores EXCEPT ![a] = row], dbDay' = dbDay, handedIn' = handedIn,
         RowAccounts(row, [dailyGames[a] EXCEPT ![day] = game], handedIn[a]),
         Len(dailyGames[a][day].guesses) <= Len(game.guesses),
         \A i \in 1..Len(dailyGames[a][day].guesses) :
           game.guesses[i] = dailyGames[a][day].guesses[i]
  PROVE  GamesSound' /\ Grows(dailyGames, dailyGames')
<1>1. dailyGames \in AllGames /\ scores \in [Accounts -> Rows] /\ dbDay \in Days
  BY DEF GamesSound
<1>2. [dailyGames[a] EXCEPT ![day] = game] \in [Days -> Games]
  BY <1>1 DEF AllGames
<1>3. dailyGames' = [dailyGames EXCEPT ![a] = [dailyGames[a] EXCEPT ![day] = game]]
  BY <1>1 DEF AllGames
<1>4. dailyGames' \in AllGames  BY <1>1, <1>2, <1>3 DEF AllGames
<1>5. scores' \in [Accounts -> Rows]  BY <1>1
<1>6. /\ dailyGames'[a] = [dailyGames[a] EXCEPT ![day] = game]
      /\ \A o \in Accounts : o # a => dailyGames'[o] = dailyGames[o]
      /\ scores'[a] = row
      /\ \A o \in Accounts : o # a => scores'[o] = scores[o]
  BY <1>1, <1>3 DEF AllGames
<1>7. \A d \in Days : dailyGames'[a][d] = IF d = day THEN game ELSE dailyGames[a][d]
  BY <1>1, <1>6 DEF AllGames
<1>8. \A o \in Accounts, d \in Days :
        dailyGames'[o][d] = IF o = a /\ d = day THEN game ELSE dailyGames[o][d]
  BY <1>6, <1>7
<1>9. \A o \in Accounts, d \in Days :
        dailyGames'[o][d].status = "NONE" => dailyGames'[o][d].guesses = <<>>
  BY <1>8 DEF GamesSound
<1>10. \A o \in Accounts, d \in Days : d > dbDay => dailyGames'[o][d].status = "NONE"
  <2>1. dbDay \in Nat  BY <1>1, DaysAreNumbers
  <2>2. ~(dbDay > dbDay)  BY <2>1
  <2>3. QED  BY <1>8, <2>2 DEF GamesSound
<1>11. \A o \in Accounts : RowAccounts(scores'[o], dailyGames'[o], handedIn[o])
  BY <1>6 DEF GamesSound
<1>12. Grows(dailyGames, dailyGames')
  <2>1. Grows(dailyGames, dailyGames)  BY <1>1, GrowsNot
  <2>2. QED  BY <2>1, <1>8 DEF Grows
<1>13. QED  BY <1>1, <1>4, <1>5, <1>9, <1>10, <1>11, <1>12 DEF GamesSound

LEMMA WithGameKeeps ==
  ASSUME GamesSound, NEW a \in Accounts, dailyGames' = WithGame(a, dbDay),
         UNCHANGED <<dbDay, scores, handedIn>>
  PROVE  GamesSound' /\ Grows(dailyGames, dailyGames')
<1> DEFINE old == dailyGames[a][dbDay]
           new == IF old.status = "NONE" THEN [status |-> "IN_PROGRESS", guesses |-> <<>>]
                  ELSE old
<1>1. dailyGames \in AllGames /\ scores \in [Accounts -> Rows] /\ dbDay \in Days
  BY DEF GamesSound
<1>2. old \in Games  BY <1>1 DEF AllGames
<1>3. new \in Games /\ new.status # "NONE" /\ new.guesses = old.guesses
  <2>1. <<>> \in Seq(Words)  OBVIOUS
  <2>2. old.status = "NONE" => old.guesses = <<>>  BY <1>1 DEF GamesSound
  <2>3. CASE old.status = "NONE"  BY <2>1, <2>2, <2>3 DEF Games
  <2>4. CASE old.status # "NONE"  BY <1>2, <2>4
  <2>5. QED  BY <2>3, <2>4
<1>4. Finished(old) \/ Finished(new) => new = old
  BY DEF Finished
<1>5. dailyGames' = [dailyGames EXCEPT ![a][dbDay] = new]
  BY DEF WithGame
<1>6. scores' = [scores EXCEPT ![a] = scores[a]] /\ scores[a] \in Rows
  BY <1>1
<1>7. RowAccounts(scores[a], [dailyGames[a] EXCEPT ![dbDay] = new], handedIn[a])
  <2>1. dailyGames[a] \in [Days -> Games]  BY <1>1 DEF AllGames
  <2>2. PICK g : g = dailyGames[a]  OBVIOUS
  <2>3. PICK h : h = [dailyGames[a] EXCEPT ![dbDay] = new]  OBVIOUS
  <2>4. \A d \in Days : h[d] = IF d = dbDay THEN new ELSE g[d]
    BY <2>1, <2>2, <2>3
  <2>5. \A d \in Days : Finished(g[d]) \/ Finished(h[d]) => h[d] = g[d]
    BY <2>2, <2>4, <1>4
  <2>6. RowAccounts(scores[a], g, handedIn[a])  BY <2>2 DEF GamesSound
  <2>7. RowAccounts(scores[a], h, handedIn[a])  BY <2>5, <2>6, RowStays
  <2>8. QED  BY <2>3, <2>7
<1>8. Len(old.guesses) \in Nat  BY <1>2 DEF Games
<1> HIDE DEF new, old
<1>9. Len(old.guesses) <= Len(new.guesses)
      /\ \A i \in 1..Len(old.guesses) : new.guesses[i] = old.guesses[i]
  BY <1>3, <1>8
<1>10. QED  BY <1>1, <1>3, <1>5, <1>6, <1>7, <1>9, GameChanges DEF old

(* What a guess may do to the games; "input" is where the WHERE clause wants *)
(* it.                                                                       *)
LEMMA AdvanceKeeps ==
  ASSUME GamesSound, NEW a \in Accounts, NEW input \in Inputs,
         CanAdvance(a, input), Advance(a, input), UNCHANGED <<dbDay, handedIn>>
  PROVE  /\ GamesSound' /\ Grows(dailyGames, dailyGames')
         /\ LET guesses == dailyGames'[a][input.day].guesses
            IN input.revision < Len(guesses) /\ guesses[input.revision + 1] = input.word
<1>1. dailyGames \in AllGames /\ scores \in [Accounts -> Rows] /\ dbDay \in Days
  BY DEF GamesSound
<1>2. PICK day \in Days : day = input.day /\ day = dbDay
  BY DEF CanAdvance, Inputs
<1>3. PICK old \in Games : old = dailyGames[a][day]
  BY <1>1 DEF AllGames
<1>4. old.status = "IN_PROGRESS" /\ Len(old.guesses) = input.revision
  BY <1>2, <1>3 DEF CanAdvance
<1>5. PICK guesses \in Seq(Words) : guesses = Append(old.guesses, input.word)
  <2>1. old.guesses \in Seq(Words) /\ input.word \in Words  BY DEF Games, Inputs
  <2>2. Append(old.guesses, input.word) \in Seq(Words)  BY <2>1
  <2>3. QED  BY <2>2
<1>6. /\ old.guesses \in Seq(Words) /\ input.word \in Words
      /\ Len(guesses) = Len(old.guesses) + 1 /\ Len(old.guesses) \in Nat
      /\ \A i \in 1..Len(old.guesses) : guesses[i] = old.guesses[i]
      /\ guesses[Len(old.guesses) + 1] = input.word
  <2>1. old.guesses \in Seq(Words) /\ input.word \in Words  BY DEF Games, Inputs
  <2>2. QED  BY <2>1, <1>5
<1>7. PICK status \in {"WON", "LOST", "IN_PROGRESS"} :
        status = IF input.word = TargetOf[input.day] THEN "WON"
                 ELSE IF Len(old.guesses) = MaxAttempts - 1 THEN "LOST" ELSE "IN_PROGRESS"
  OBVIOUS
<1>8. PICK new \in Games : new = [status |-> status, guesses |-> guesses]
  BY DEF Games
<1>9. new.status = status /\ new.guesses = guesses /\ new.status # "NONE"
  BY <1>8
<1>10. PICK row : row = IF status = "IN_PROGRESS" THEN scores[a]
                        ELSE DailyScored(scores[a], status = "WON", Points(Len(guesses)), dbDay)
  OBVIOUS
<1>11. dailyGames' = [dailyGames EXCEPT ![a][day] = new]
  BY <1>2, <1>3, <1>5, <1>7, <1>8 DEF Advance
<1>12. scores' = [scores EXCEPT ![a] = row]
  <2>1. scores = [scores EXCEPT ![a] = scores[a]]  BY <1>1
  <2>2. CASE status = "IN_PROGRESS"
    <3>1. scores' = scores
      BY <1>2, <1>3, <1>5, <1>7, <2>2 DEF Advance
    <3>2. QED  BY <2>1, <2>2, <3>1, <1>10
  <2>3. CASE status # "IN_PROGRESS"
    <3>1. scores' = [scores EXCEPT ![a] =
                       DailyScored(scores[a], status = "WON", Points(Len(guesses)), dbDay)]
      BY <1>2, <1>3, <1>5, <1>7, <2>3 DEF Advance
    <3>2. QED  BY <2>3, <3>1, <1>10
  <2>4. QED  BY <2>2, <2>3
<1>13. PICK g : g = dailyGames[a]  OBVIOUS
<1>14. PICK h : h = [dailyGames[a] EXCEPT ![day] = new]  OBVIOUS
<1>15. h[day] = new /\ (\A d \in Days : d # day => h[d] = g[d]) /\ g[day] = old
  <2>1. dailyGames[a] \in [Days -> Games]  BY <1>1 DEF AllGames
  <2>2. QED  BY <2>1, <1>3, <1>13, <1>14
<1>16. RowAccounts(scores[a], g, handedIn[a]) /\ scores[a] \in Rows
  BY <1>1, <1>13 DEF GamesSound
<1>17. ~Finished(g[day])  BY <1>4, <1>15 DEF Finished
<1>18. row \in Rows /\ RowAccounts(row, h, handedIn[a])
  <2>1. CASE status = "IN_PROGRESS"
    <3>1. \A d \in Days : Finished(g[d]) \/ Finished(h[d]) => h[d] = g[d]
      BY <1>9, <1>15, <1>17, <2>1 DEF Finished
    <3>2. RowAccounts(scores[a], h, handedIn[a])  BY <1>16, <3>1, RowStays
    <3>3. QED  BY <1>10, <1>16, <2>1, <3>2
  <2>2. CASE status # "IN_PROGRESS"
    <3>1. Finished(h[day])  BY <1>7, <1>9, <1>15, <2>2 DEF Finished
    <3>2. \A d \in Days : d > day => ~Finished(g[d])
      BY <1>2, <1>13 DEF GamesSound, Finished
    <3>3. dbDay \in Nat  BY <1>1, DaysAreNumbers
    <3>4. LET next == DailyScored(scores[a], h[day].status = "WON", Points(Len(h[day].guesses)), dbDay)
          IN next \in ScoreRow /\ RowAccounts(next, h, handedIn[a])
      BY <1>15, <1>16, <1>17, <3>1, <3>2, <3>3, RowFollows
    <3>5. row = DailyScored(scores[a], h[day].status = "WON", Points(Len(h[day].guesses)), dbDay)
      BY <1>9, <1>10, <1>15, <2>2
    <3>6. QED  BY <3>4, <3>5 DEF Rows
  <2>3. QED  BY <2>1, <2>2
<1>19. GamesSound' /\ Grows(dailyGames, dailyGames')
  <2>1. RowAccounts(row, [dailyGames[a] EXCEPT ![day] = new], handedIn[a])  BY <1>14, <1>18
  <2>2. Len(dailyGames[a][day].guesses) <= Len(new.guesses)  BY <1>3, <1>6, <1>9
  <2>3. \A i \in 1..Len(dailyGames[a][day].guesses) :
          new.guesses[i] = dailyGames[a][day].guesses[i]
    BY <1>3, <1>6, <1>9
  <2>4. QED  BY <1>2, <1>9, <1>11, <1>12, <1>18, <2>1, <2>2, <2>3, GameChanges
<1>20. dailyGames'[a][day] = new
  <2>1. dailyGames[a] \in [Days -> Games]  BY <1>1 DEF AllGames
  <2>2. QED  BY <1>1, <1>11, <2>1 DEF AllGames
<1>21. input.revision < Len(guesses) /\ guesses[input.revision + 1] = input.word
  BY <1>4, <1>6
<1>22. QED  BY <1>2, <1>9, <1>19, <1>20, <1>21

-----------------------------------------------------------------------------
(* What a request and a tab know of the games. *)

IsIn(input, G) ==
  LET guesses == G[input.acct][input.day].guesses
  IN input.revision < Len(guesses) /\ guesses[input.revision + 1] = input.word

(* A list of guesses is the beginning of a game's. *)
Shown(guesses, a, day, G) ==
  /\ Len(guesses) <= Len(G[a][day].guesses)
  /\ \A i \in 1..Len(guesses) : guesses[i] = G[a][day].guesses[i]

Snapshots == [acct : Accounts, day : Days, guesses : Seq(Words),
              status : {"NONE", "IN_PROGRESS", "WON", "LOST"}]
TabStates == [status : {"closed", "loading", "ready", "error", "signed-out"},
              current : Snapshots \cup {NoSnapshot}, pending : Inputs \cup {NoGuess}]

CallShaped(c) ==
  c \in [step : {"none", "sent", "dated", "written", "read", "done"},
         cookie : Accounts \cup {NoAccount}, input : Inputs \cup {NoGuess},
         conflict : BOOLEAN, day : {c.day}, game : {c.game}, answer : {c.answer}]

CallKnows(c, G) ==
  /\ CallShaped(c)
  /\ c.step \in {"dated", "written", "read"} => c.cookie \in Accounts
  /\ c.step = "dated" => c.input \in Inputs
  /\ c.step \in {"written", "read"} /\ c.input # NoGuess /\ ~c.conflict =>
       c.input.acct = c.cookie /\ IsIn(c.input, G)
  /\ c.step = "read" =>
       c.day \in Days /\ c.game \in Games /\ Shown(c.game.guesses, c.cookie, c.day, G)
  /\ c.step = "done" /\ c.answer # SignedOutAnswer =>
       /\ Progress(c.answer) \in Snapshots
       /\ c.input # NoGuess /\ ~c.conflict =>
            c.input.acct = c.answer.acct /\ IsIn(c.input, G)

CallsKnow ==
  /\ calls = [t \in Tabs |-> calls[t]]
  /\ \A t \in Tabs : CallKnows(calls[t], dailyGames)

LEMMA StaysIn ==
  ASSUME NEW G \in AllGames, NEW H \in AllGames, Grows(G, H),
         NEW input \in Inputs, IsIn(input, G)
  PROVE  IsIn(input, H)
<1>1. input.acct \in Accounts /\ input.day \in Days /\ input.revision \in Nat
  BY DEF Inputs
<1>2. PICK old \in Games, new \in Games :
        old = G[input.acct][input.day] /\ new = H[input.acct][input.day]
  BY <1>1 DEF AllGames
<1>3. /\ Len(old.guesses) <= Len(new.guesses)
      /\ \A i \in 1..Len(old.guesses) : new.guesses[i] = old.guesses[i]
  BY <1>1, <1>2 DEF Grows
<1>4. input.revision < Len(old.guesses) /\ old.guesses[input.revision + 1] = input.word
  BY <1>2 DEF IsIn
<1>5. Len(old.guesses) \in Nat /\ Len(new.guesses) \in Nat
  BY DEF Games
<1>6. input.revision < Len(new.guesses)
  BY <1>1, <1>3, <1>4, <1>5
<1>7. input.revision + 1 \in 1..Len(old.guesses)
  BY <1>1, <1>4, <1>5
<1>8. new.guesses[input.revision + 1] = input.word
  BY <1>3, <1>4, <1>7
<1>9. QED  BY <1>2, <1>6, <1>8 DEF IsIn

LEMMA StaysShown ==
  ASSUME NEW G \in AllGames, NEW H \in AllGames, Grows(G, H),
         NEW a \in Accounts, NEW day \in Days, NEW game \in Games,
         Shown(game.guesses, a, day, G)
  PROVE  Shown(game.guesses, a, day, H)
<1>1. PICK old \in Games, new \in Games : old = G[a][day] /\ new = H[a][day]
  BY DEF AllGames
<1>2. /\ Len(old.guesses) <= Len(new.guesses)
      /\ \A i \in 1..Len(old.guesses) : new.guesses[i] = old.guesses[i]
  BY <1>1 DEF Grows
<1>3. /\ Len(game.guesses) <= Len(old.guesses)
      /\ \A i \in 1..Len(game.guesses) : game.guesses[i] = old.guesses[i]
  BY <1>1 DEF Shown
<1>4. Len(old.guesses) \in Nat /\ Len(new.guesses) \in Nat /\ Len(game.guesses) \in Nat
  BY DEF Games
<1>5. \A i \in 1..Len(game.guesses) : game.guesses[i] = new.guesses[i]
  BY <1>2, <1>3, <1>4
<1>6. QED  BY <1>1, <1>2, <1>3, <1>4, <1>5 DEF Shown

LEMMA CallStays ==
  ASSUME NEW G \in AllGames, NEW H \in AllGames, Grows(G, H), NEW c, CallKnows(c, G)
  PROVE  CallKnows(c, H)
<1>1. CallShaped(c) /\ (c.input # NoGuess => c.input \in Inputs)
  BY DEF CallKnows, CallShaped
<1>2. c.input # NoGuess /\ IsIn(c.input, G) => IsIn(c.input, H)
  BY <1>1, StaysIn
<1>3. c.step = "read" => Shown(c.game.guesses, c.cookie, c.day, H)
  <2>1. SUFFICES ASSUME c.step = "read" PROVE Shown(c.game.guesses, c.cookie, c.day, H)
    OBVIOUS
  <2>2. /\ c.cookie \in Accounts /\ c.day \in Days /\ c.game \in Games
        /\ Shown(c.game.guesses, c.cookie, c.day, G)
    BY <2>1 DEF CallKnows
  <2>3. QED  BY <2>2, StaysShown
<1>4. QED  BY <1>1, <1>2, <1>3 DEF CallKnows

(* The calls other than the one of tab t stay as they are. *)
LEMMA CallsFollow ==
  ASSUME GamesSound, GamesSound', Grows(dailyGames, dailyGames'), CallsKnow,
         NEW t \in Tabs, NEW c, CallKnows(c, dailyGames'), calls' = [calls EXCEPT ![t] = c]
  PROVE  CallsKnow'
<1>1. dailyGames \in AllGames /\ dailyGames' \in AllGames  BY DEF GamesSound
<1>2. DOMAIN calls = Tabs  BY DEF CallsKnow
<1>3. /\ calls' = [o \in Tabs |-> calls'[o]]
      /\ calls'[t] = c /\ \A o \in Tabs : o # t => calls'[o] = calls[o]
  BY <1>2
<1>4. \A o \in Tabs : CallKnows(calls[o], dailyGames)  BY DEF CallsKnow
<1>5. \A o \in Tabs : CallKnows(calls[o], dailyGames')  BY <1>1, <1>4, CallStays
<1>6. \A o \in Tabs : CallKnows(calls'[o], dailyGames')  BY <1>3, <1>5
<1>7. QED  BY <1>3, <1>6 DEF CallsKnow

LEMMA CallsStay ==
  ASSUME GamesSound, GamesSound', Grows(dailyGames, dailyGames'), CallsKnow, UNCHANGED calls
  PROVE  CallsKnow'
<1>1. dailyGames \in AllGames /\ dailyGames' \in AllGames  BY DEF GamesSound
<1>2. \A o \in Tabs : CallKnows(calls[o], dailyGames)  BY DEF CallsKnow
<1>3. \A o \in Tabs : CallKnows(calls[o], dailyGames')  BY <1>1, <1>2, CallStays
<1>4. QED  BY <1>3 DEF CallsKnow

-----------------------------------------------------------------------------
(* The inductive invariant. *)

PlayInv ==
  /\ GamesSound
  /\ CallsKnow
  /\ member \in Accounts \cup {NoAccount}
  /\ tabs \in [Tabs -> TabStates]
  /\ \A s \in strays : s.input \in Inputs

LEMMA IdleKnows == \A G : CallKnows(Idle, G)
<1> SUFFICES ASSUME NEW G PROVE CallKnows(Idle, G)  OBVIOUS
<1>1. /\ Idle.step = "none" /\ Idle.cookie = NoAccount /\ Idle.input = NoGuess
      /\ Idle.conflict = FALSE
  BY DEF Idle
<1>2. FALSE \in BOOLEAN  OBVIOUS
<1>3. CallShaped(Idle)  BY <1>2 DEF Idle, CallShaped
<1>4. QED  BY <1>1, <1>3 DEF CallKnows

LEMMA SentIs ==
  ASSUME NEW input
  PROVE  Sent(input) = [step |-> "sent", cookie |-> member, input |-> input, conflict |-> FALSE,
                        day |-> 0, game |-> NoGame, answer |-> NoSnapshot]
<1>1. PICK one : one = [Idle EXCEPT !.step = "sent"]  OBVIOUS
<1>2. one = [step |-> "sent", cookie |-> NoAccount, input |-> NoGuess, conflict |-> FALSE,
             day |-> 0, game |-> NoGame, answer |-> NoSnapshot]
  BY <1>1 DEF Idle
<1>3. PICK two : two = [one EXCEPT !.cookie = member]  OBVIOUS
<1>4. two = [step |-> "sent", cookie |-> member, input |-> NoGuess, conflict |-> FALSE,
             day |-> 0, game |-> NoGame, answer |-> NoSnapshot]
  BY <1>2, <1>3
<1>5. Sent(input) = [two EXCEPT !.input = input]
  BY <1>1, <1>3 DEF Sent
<1>6. QED  BY <1>4, <1>5

LEMMA SentKnows ==
  ASSUME NEW input \in Inputs \cup {NoGuess}, member \in Accounts \cup {NoAccount}, NEW G
  PROVE  CallKnows(Sent(input), G)
<1>1. Sent(input) = [step |-> "sent", cookie |-> member, input |-> input, conflict |-> FALSE,
                     day |-> 0, game |-> NoGame, answer |-> NoSnapshot]
  BY SentIs
<1>2. FALSE \in BOOLEAN  OBVIOUS
<1>3. CallShaped(Sent(input))  BY <1>1, <1>2 DEF CallShaped
<1>4. Sent(input).step = "sent"  BY <1>1
<1>5. QED  BY <1>3, <1>4 DEF CallKnows

LEMMA ClosedTabFits == ClosedTab \in TabStates
BY DEF ClosedTab, TabStates

LEMMA LeftBehindFits ==
  ASSUME NEW c, NEW G, CallKnows(c, G)
  PROVE  \A s \in LeftBehind(c) : s.input \in Inputs
<1>1. c.input # NoGuess => c.input \in Inputs  BY DEF CallKnows, CallShaped
<1>2. QED  BY <1>1 DEF LeftBehind

(* The steps that do not touch the database. *)
LEMMA QuietKeeps ==
  ASSUME PlayInv, UNCHANGED <<dbDay, dailyGames, scores, handedIn>>
  PROVE  GamesSound' /\ Grows(dailyGames, dailyGames')
<1>1. dailyGames \in AllGames  BY DEF PlayInv, GamesSound
<1>2. Grows(dailyGames, dailyGames')  BY <1>1, GrowsNot
<1>3. QED  BY <1>2 DEF PlayInv, GamesSound

LEMMA MidnightKeeps == PlayInv /\ Midnight => PlayInv'
<1> SUFFICES ASSUME PlayInv, Midnight PROVE PlayInv'  OBVIOUS
<1>1. dbDay' \in Days /\ dbDay \in Nat /\ dbDay' = dbDay + 1
  <2>1. dbDay \in 1..MaxDay /\ MaxDay \in Nat
    BY DailyPuffdleAssumption DEF PlayInv, GamesSound, Days
  <2>2. QED  BY <2>1 DEF Midnight, Days
<1>2. UNCHANGED <<dailyGames, scores, member, tabs, calls, strays, handedIn>>  BY DEF Midnight
<1>3. \A a \in Accounts, d \in Days : d > dbDay' => dailyGames[a][d].status = "NONE"
  BY <1>1, DaysAreNumbers DEF PlayInv, GamesSound
<1>4. GamesSound'  BY <1>1, <1>2, <1>3 DEF PlayInv, GamesSound
<1>5. CallsKnow'  BY <1>2 DEF PlayInv, CallsKnow
<1>6. QED  BY <1>2, <1>4, <1>5 DEF PlayInv

LEMMA SignInKeeps == ASSUME PlayInv, NEW a \in Accounts \cup {NoAccount}, SignIn(a) PROVE PlayInv'
<1>1. /\ UNCHANGED <<dbDay, dailyGames, scores, tabs, calls, strays, handedIn>>
      /\ member' \in Accounts \cup {NoAccount}
  BY DEF SignIn
<1>2. CallsKnow'  BY <1>1 DEF PlayInv, CallsKnow
<1>3. GamesSound'  BY <1>1, QuietKeeps
<1>4. QED  BY <1>1, <1>2, <1>3 DEF PlayInv

LEMMA OpenTabKeeps == ASSUME PlayInv, NEW t \in Tabs, OpenTab(t) PROVE PlayInv'
<1>1. /\ calls' = [calls EXCEPT ![t] = Sent(NoGuess)]
      /\ tabs' = [tabs EXCEPT ![t] = [ClosedTab EXCEPT !.status = "loading"]]
      /\ UNCHANGED <<dbDay, dailyGames, scores, member, strays, handedIn>>
  BY DEF OpenTab
<1>2. [ClosedTab EXCEPT !.status = "loading"] \in TabStates
  BY DEF ClosedTab, TabStates
<1>3. tabs' \in [Tabs -> TabStates]  BY <1>1, <1>2 DEF PlayInv
<1>4. GamesSound' /\ Grows(dailyGames, dailyGames')  BY <1>1, QuietKeeps
<1>5. CallKnows(Sent(NoGuess), dailyGames')  BY SentKnows DEF PlayInv
<1>6. CallsKnow'  BY <1>1, <1>4, <1>5, CallsFollow DEF PlayInv
<1>7. QED  BY <1>1, <1>3, <1>4, <1>6 DEF PlayInv

LEMMA CloseTabKeeps == ASSUME PlayInv, NEW t \in Tabs, CloseTab(t) PROVE PlayInv'
<1>1. /\ calls' = [calls EXCEPT ![t] = Idle]
      /\ tabs' = [tabs EXCEPT ![t] = ClosedTab]
      /\ strays' = strays \cup LeftBehind(calls[t])
      /\ UNCHANGED <<dbDay, dailyGames, scores, member, handedIn>>
  BY DEF CloseTab
<1>2. tabs' \in [Tabs -> TabStates]  BY <1>1, ClosedTabFits DEF PlayInv
<1>3. GamesSound' /\ Grows(dailyGames, dailyGames')  BY <1>1, QuietKeeps
<1>4. CallsKnow'  BY <1>1, <1>3, IdleKnows, CallsFollow DEF PlayInv
<1>5. CallKnows(calls[t], dailyGames)  BY DEF PlayInv, CallsKnow
<1>6. \A s \in strays' : s.input \in Inputs  BY <1>1, <1>5, LeftBehindFits DEF PlayInv
<1>7. QED  BY <1>1, <1>2, <1>3, <1>4, <1>6 DEF PlayInv

LEMMA GiveUpKeeps ==
  ASSUME PlayInv, NEW t \in Tabs, NEW arrives \in BOOLEAN, GiveUp(t, arrives) PROVE PlayInv'
<1>1. /\ calls' = [calls EXCEPT ![t] = Idle]
      /\ tabs' = [tabs EXCEPT ![t].status = "error"]
      /\ strays' = strays \/ strays' = strays \cup LeftBehind(calls[t])
      /\ UNCHANGED <<dbDay, dailyGames, scores, member, handedIn>>
  BY DEF GiveUp
<1>2. tabs' \in [Tabs -> TabStates]
  <2>1. tabs[t] \in TabStates  BY DEF PlayInv
  <2>2. [tabs[t] EXCEPT !.status = "error"] \in TabStates  BY <2>1 DEF TabStates
  <2>3. tabs' = [tabs EXCEPT ![t] = [tabs[t] EXCEPT !.status = "error"]]  BY <1>1
  <2>4. QED  BY <2>2, <2>3 DEF PlayInv
<1>3. GamesSound' /\ Grows(dailyGames, dailyGames')  BY <1>1, QuietKeeps
<1>4. CallsKnow'  BY <1>1, <1>3, IdleKnows, CallsFollow DEF PlayInv
<1>5. CallKnows(calls[t], dailyGames)  BY DEF PlayInv, CallsKnow
<1>6. \A s \in strays' : s.input \in Inputs  BY <1>1, <1>5, LeftBehindFits DEF PlayInv
<1>7. QED  BY <1>1, <1>2, <1>3, <1>4, <1>6 DEF PlayInv

LEMMA RefreshKeeps == ASSUME PlayInv, NEW t \in Tabs, Refresh(t) PROVE PlayInv'
<1>1. /\ calls' = [calls EXCEPT ![t] = Sent(tabs[t].pending)]
      /\ UNCHANGED <<dbDay, dailyGames, scores, member, tabs, strays, handedIn>>
  BY DEF Refresh
<1>2. tabs[t].pending \in Inputs \cup {NoGuess}  BY DEF PlayInv, TabStates
<1>3. CallKnows(Sent(tabs[t].pending), dailyGames')  BY <1>2, SentKnows DEF PlayInv
<1>4. GamesSound' /\ Grows(dailyGames, dailyGames')  BY <1>1, QuietKeeps
<1>5. CallsKnow'  BY <1>1, <1>3, <1>4, CallsFollow DEF PlayInv
<1>6. QED  BY <1>1, <1>4, <1>5 DEF PlayInv

LEMMA SubmitKeeps ==
  ASSUME PlayInv, NEW t \in Tabs, NEW word \in Words, SubmitDraft(t, word) PROVE PlayInv'
<1>1. PICK saved \in Snapshots : saved = tabs[t].current
  BY DEF PlayInv, TabStates, SubmitDraft
<1>2. PICK input : input = [acct |-> saved.acct, day |-> saved.day,
                            revision |-> Len(saved.guesses), word |-> word]
  OBVIOUS
<1>3. input \in Inputs
  <2>1. saved.guesses \in Seq(Words) /\ saved.acct \in Accounts /\ saved.day \in Days
    BY DEF Snapshots
  <2>2. Len(saved.guesses) \in Nat  BY <2>1
  <2>3. QED  BY <1>2, <2>1, <2>2 DEF Inputs
<1>4. /\ calls' = [calls EXCEPT ![t] = Sent(input)]
      /\ tabs' = [tabs EXCEPT ![t].pending = input]
      /\ UNCHANGED <<dbDay, dailyGames, scores, member, strays, handedIn>>
  BY <1>1, <1>2 DEF SubmitDraft
<1>5. tabs' \in [Tabs -> TabStates]
  <2>1. tabs[t] \in TabStates  BY DEF PlayInv
  <2>2. [tabs[t] EXCEPT !.pending = input] \in TabStates  BY <1>3, <2>1 DEF TabStates
  <2>3. tabs' = [tabs EXCEPT ![t] = [tabs[t] EXCEPT !.pending = input]]  BY <1>4
  <2>4. QED  BY <2>2, <2>3 DEF PlayInv
<1>6. CallKnows(Sent(input), dailyGames')  BY <1>3, SentKnows DEF PlayInv
<1>7. GamesSound' /\ Grows(dailyGames, dailyGames')  BY <1>4, QuietKeeps
<1>8. CallsKnow'  BY <1>4, <1>6, <1>7, CallsFollow DEF PlayInv
<1>9. QED  BY <1>4, <1>5, <1>7, <1>8 DEF PlayInv

(* A guess of the member's other browser, and one that nobody waits for. *)
LEMMA OtherDeviceKeeps ==
  ASSUME PlayInv, NEW a \in Elsewhere, NEW word \in Words, OtherDevice(a, word) PROVE PlayInv'
<1>1. a \in Accounts /\ dbDay \in Days /\ dailyGames \in AllGames
  BY DailyPuffdleAssumption DEF PlayInv, GamesSound
<1>2. PICK input : input = [acct |-> a, day |-> dbDay,
                            revision |-> Len(dailyGames[a][dbDay].guesses), word |-> word]
  OBVIOUS
<1>3. input \in Inputs
  <2>1. dailyGames[a][dbDay] \in Games  BY <1>1 DEF AllGames
  <2>2. Len(dailyGames[a][dbDay].guesses) \in Nat  BY <2>1 DEF Games
  <2>3. QED  BY <1>1, <1>2, <2>2 DEF Inputs
<1>4. /\ CanAdvance(a, input) /\ Advance(a, input)
      /\ UNCHANGED <<dbDay, member, tabs, calls, strays, handedIn>>
  BY <1>2 DEF OtherDevice
<1>5. GamesSound' /\ Grows(dailyGames, dailyGames')
  BY <1>1, <1>3, <1>4, AdvanceKeeps DEF PlayInv
<1>6. CallsKnow'  BY <1>4, <1>5, CallsStay DEF PlayInv
<1>7. QED  BY <1>4, <1>5, <1>6 DEF PlayInv

(* Totals of an Unlimited page are saved. *)
LEMMA SaveUnlimitedKeeps ==
  ASSUME PlayInv, NEW a \in Elsewhere, NEW totals \in Totals, SaveUnlimited(a, totals)
  PROVE  PlayInv'
<1>1. a \in Accounts /\ dbDay \in Days /\ dbDay \in Nat /\ dailyGames \in AllGames
  BY DailyPuffdleAssumption, DaysAreNumbers DEF PlayInv, GamesSound
<1>2. UNCHANGED <<dbDay, dailyGames, member, tabs, calls, strays>>  BY DEF SaveUnlimited
<1>3. PICK row, hand, g : row = scores[a] /\ hand = handedIn[a] /\ g = dailyGames[a]  OBVIOUS
<1>4. /\ row \in Rows /\ RowAccounts(row, g, hand)
      /\ hand = [saves |-> hand.saves, streakFrom |-> hand.streakFrom]
  BY <1>1, <1>3 DEF PlayInv, GamesSound
<1>5. PICK save : save = [totals |-> totals, done |-> DoneIn(g)]  OBVIOUS
<1>6. PICK adopted \in BOOLEAN : adopted = (row = NoRow \/ totals.played > row.played)
  OBVIOUS
<1>6a. PICK latest, next :
         /\ latest = IF adopted THEN save ELSE hand.streakFrom
         /\ next = [saves |-> hand.saves \cup {save}, streakFrom |-> latest]
  OBVIOUS
<1>7. PICK now, merged : now = dbDay /\ merged = UnlimitedScored(row, totals, now)  OBVIOUS
<1>8. /\ merged \in ScoreRow /\ RowAccounts(merged, g, next)
      /\ next = [saves |-> next.saves, streakFrom |-> next.streakFrom]
  <2>1. now \in Nat  BY <1>1, <1>7
  <2>2. /\ UnlimitedScored(row, totals, now) \in ScoreRow
        /\ RowAccounts(UnlimitedScored(row, totals, now), g, next)
    BY <1>4, <1>5, <1>6, <1>6a, <2>1, RowMerges
  <2>3. next = [saves |-> next.saves, streakFrom |-> next.streakFrom]  BY <1>6, <1>6a
  <2>4. QED  BY <1>7, <2>2, <2>3
<1>9. scores' = [scores EXCEPT ![a] = merged]  BY <1>3, <1>7 DEF SaveUnlimited
<1>10. handedIn' = [handedIn EXCEPT ![a] = next]
  <2>1. save = [totals |-> totals, done |-> FinishedDays(a)]
    BY <1>3, <1>5 DEF FinishedDays, DoneIn
  <2>2. handedIn' = [handedIn EXCEPT ![a].saves = handedIn[a].saves \cup {save},
                                     ![a].streakFrom = latest]
    BY <1>3, <1>6, <1>6a, <2>1 DEF SaveUnlimited
  <2>3. handedIn = [o \in Accounts |-> handedIn[o]]  BY DEF PlayInv, GamesSound
  <2>4. [[hand EXCEPT !.saves = hand.saves \cup {save}] EXCEPT !.streakFrom = latest] = next
    <3>1. PICK saves, from : hand = [saves |-> saves, streakFrom |-> from]  BY <1>4
    <3>2. hand.saves = saves  BY <3>1
    <3>3. next = [saves |-> saves \cup {save}, streakFrom |-> latest]  BY <1>6, <1>6a, <3>2
    <3>4. PICK all, half : all = saves \cup {save} /\ half = [hand EXCEPT !.saves = all]
      OBVIOUS
    <3>5. half = [saves |-> all, streakFrom |-> from]  BY <3>1, <3>4
    <3>6. [half EXCEPT !.streakFrom = latest] = [saves |-> all, streakFrom |-> latest]
      BY <3>5
    <3>7. QED  BY <3>2, <3>3, <3>4, <3>6
  <2>5. QED  BY <1>1, <1>3, <2>2, <2>3, <2>4
<1>11. /\ scores' \in [Accounts -> Rows] /\ handedIn' = [o \in Accounts |-> handedIn'[o]]
       /\ scores'[a] = merged /\ handedIn'[a] = next
       /\ \A o \in Accounts : o # a => scores'[o] = scores[o] /\ handedIn'[o] = handedIn[o]
  BY <1>1, <1>8, <1>9, <1>10 DEF PlayInv, GamesSound, Rows
<1>12. \A o \in Accounts :
         /\ RowAccounts(scores'[o], dailyGames'[o], handedIn'[o])
         /\ handedIn'[o] = [saves |-> handedIn'[o].saves, streakFrom |-> handedIn'[o].streakFrom]
  BY <1>2, <1>3, <1>8, <1>11 DEF PlayInv, GamesSound
<1>13. GamesSound'  BY <1>2, <1>11, <1>12 DEF PlayInv, GamesSound
<1>14. CallsKnow'  BY <1>2 DEF PlayInv, CallsKnow
<1>15. QED  BY <1>2, <1>13, <1>14 DEF PlayInv

LEMMA StrayKeeps == ASSUME PlayInv, NEW s \in strays, StrayGuess(s) PROVE PlayInv'
<1>1. s.input \in Inputs /\ s.input.acct \in Accounts  BY DEF PlayInv, Inputs
<1>2. UNCHANGED <<dbDay, member, tabs, calls, handedIn>> /\ strays' = strays \ {s}
  BY DEF StrayGuess
<1>3. GamesSound' /\ Grows(dailyGames, dailyGames')
  <2>1. CASE s.input.acct = s.cookie /\ CanAdvance(s.cookie, s.input) /\ Advance(s.cookie, s.input)
    BY <1>1, <1>2, <2>1, AdvanceKeeps DEF PlayInv
  <2>2. CASE UNCHANGED <<dailyGames, scores>>
    BY <1>2, <2>2, QuietKeeps
  <2>3. QED  BY <2>1, <2>2 DEF StrayGuess
<1>4. CallsKnow'  BY <1>2, <1>3, CallsStay DEF PlayInv
<1>5. QED  BY <1>2, <1>3, <1>4 DEF PlayInv

-----------------------------------------------------------------------------
(* The steps of the handler. *)

LEMMA AcceptKeeps == ASSUME PlayInv, NEW t \in Tabs, Accept(t) PROVE PlayInv'
<1>1. PICK c : c = calls[t]  OBVIOUS
<1>2. /\ CallKnows(c, dailyGames) /\ CallShaped(c)
      /\ dbDay \in Days /\ dailyGames \in AllGames
  BY <1>1 DEF PlayInv, CallsKnow, CallKnows, GamesSound
<1>3. UNCHANGED <<dbDay, scores, member, tabs, strays, handedIn>> /\ c.step = "sent"
  BY <1>1 DEF Accept
<1>4. CASE c.cookie = NoAccount \/ c.cookie # member
  <2>1. PICK n : n = [[c EXCEPT !.step = "done"] EXCEPT !.answer = SignedOutAnswer]  OBVIOUS
  <2>2. calls' = [calls EXCEPT ![t] = n] /\ UNCHANGED dailyGames
    BY <1>1, <1>4, <2>1 DEF Accept, PlayInv, CallsKnow
  <2>3. n.step = "done" /\ n.answer = SignedOutAnswer /\ CallShaped(n)
    BY <1>2, <2>1 DEF CallShaped
  <2>4. CallKnows(n, dailyGames')  BY <2>3 DEF CallKnows
  <2>5. GamesSound' /\ Grows(dailyGames, dailyGames')  BY <1>3, <2>2, QuietKeeps
  <2>6. CallsKnow'  BY <2>2, <2>4, <2>5, CallsFollow DEF PlayInv
  <2>7. QED  BY <1>3, <2>5, <2>6 DEF PlayInv
<1>5. CASE ~(c.cookie = NoAccount \/ c.cookie # member)
  <2>1. PICK step \in {"written", "dated"} :
          step = IF c.input = NoGuess THEN "written" ELSE "dated"
    OBVIOUS
  <2>2. PICK n : n = [[c EXCEPT !.step = step] EXCEPT !.day = dbDay]  OBVIOUS
  <2>3. calls' = [calls EXCEPT ![t] = n] /\ dailyGames' = WithGame(c.cookie, dbDay)
    BY <1>1, <1>5, <2>1, <2>2 DEF Accept, PlayInv, CallsKnow
  <2>4. /\ n.step = step /\ n.cookie = c.cookie /\ n.input = c.input /\ CallShaped(n)
        /\ c.cookie \in Accounts /\ c.input \in Inputs \cup {NoGuess}
    BY <1>2, <1>5, <2>1, <2>2 DEF CallShaped, PlayInv
  <2>5. CallKnows(n, dailyGames')
    BY <2>1, <2>4 DEF CallKnows
  <2>6. GamesSound' /\ Grows(dailyGames, dailyGames')
    BY <1>3, <2>3, <2>4, WithGameKeeps DEF PlayInv
  <2>7. CallsKnow'  BY <2>3, <2>5, <2>6, CallsFollow DEF PlayInv
  <2>8. QED  BY <1>3, <2>6, <2>7 DEF PlayInv
<1>6. QED  BY <1>4, <1>5

LEMMA GuessedKeeps == ASSUME PlayInv, NEW t \in Tabs, Guessed(t) PROVE PlayInv'
<1>1. PICK c : c = calls[t]  OBVIOUS
<1>2. /\ CallKnows(c, dailyGames) /\ CallShaped(c) /\ c.step = "dated"
  BY <1>1 DEF PlayInv, CallsKnow, CallKnows, Guessed
<1>3. c.cookie \in Accounts /\ c.input \in Inputs  BY <1>2 DEF CallKnows
<1>4. PICK conflict \in BOOLEAN :
        conflict = (c.input.acct # c.cookie \/ c.input.day # c.day \/ ~CanAdvance(c.cookie, c.input))
  OBVIOUS
<1>5. PICK n : n = [[c EXCEPT !.step = "written"] EXCEPT !.conflict = conflict]  OBVIOUS
<1>6. /\ calls' = [calls EXCEPT ![t] = n]
      /\ UNCHANGED <<dbDay, member, tabs, strays, handedIn>>
  BY <1>1, <1>4, <1>5 DEF Guessed, PlayInv, CallsKnow
<1>7. /\ n.step = "written" /\ n.cookie = c.cookie /\ n.input = c.input
      /\ n.conflict = conflict /\ CallShaped(n)
  BY <1>2, <1>5 DEF CallShaped
<1>8. /\ GamesSound' /\ Grows(dailyGames, dailyGames')
      /\ ~conflict => c.input.acct = c.cookie /\ IsIn(c.input, dailyGames')
  <2>1. CASE conflict
    <3>1. UNCHANGED <<dailyGames, scores>>
      BY <1>1, <1>4, <2>1 DEF Guessed
    <3>2. QED  BY <1>6, <2>1, <3>1, QuietKeeps
  <2>2. CASE ~conflict
    <3>1. /\ CanAdvance(c.cookie, c.input) /\ Advance(c.cookie, c.input)
          /\ c.input.acct = c.cookie
      BY <1>1, <1>4, <2>2 DEF Guessed
    <3>2. /\ GamesSound' /\ Grows(dailyGames, dailyGames')
          /\ LET guesses == dailyGames'[c.cookie][c.input.day].guesses
             IN c.input.revision < Len(guesses) /\ guesses[c.input.revision + 1] = c.input.word
      BY <1>3, <1>6, <3>1, AdvanceKeeps DEF PlayInv
    <3>3. QED  BY <3>1, <3>2 DEF IsIn
  <2>3. QED  BY <2>1, <2>2
<1>9. CallKnows(n, dailyGames')  BY <1>3, <1>7, <1>8 DEF CallKnows
<1>10. CallsKnow'  BY <1>6, <1>8, <1>9, CallsFollow DEF PlayInv
<1>11. QED  BY <1>6, <1>8, <1>10 DEF PlayInv

LEMMA ReadGameKeeps == ASSUME PlayInv, NEW t \in Tabs, ReadGame(t) PROVE PlayInv'
<1>1. PICK c : c = calls[t]  OBVIOUS
<1>2. /\ CallKnows(c, dailyGames) /\ CallShaped(c) /\ c.step = "written"
      /\ dbDay \in Days /\ dailyGames \in AllGames
  BY <1>1 DEF PlayInv, CallsKnow, CallKnows, ReadGame, GamesSound
<1>3. c.cookie \in Accounts /\ c.input \in Inputs \cup {NoGuess}
  BY <1>2 DEF CallKnows, CallShaped
<1>4. PICK games : games = WithGame(c.cookie, dbDay)  OBVIOUS
<1>5. dailyGames' = games /\ UNCHANGED <<dbDay, scores, member, tabs, strays, handedIn>>
  BY <1>1, <1>4 DEF ReadGame
<1>6. GamesSound' /\ Grows(dailyGames, dailyGames')
  BY <1>3, <1>4, <1>5, WithGameKeeps DEF PlayInv
<1>7. games \in AllGames  BY <1>5, <1>6 DEF GamesSound
<1>8. PICK game \in Games : game = games[c.cookie][dbDay]
  BY <1>2, <1>3, <1>7 DEF AllGames
<1>9. PICK n : n = [[[c EXCEPT !.step = "read"] EXCEPT !.day = dbDay] EXCEPT !.game = game]
  OBVIOUS
<1>10. calls' = [calls EXCEPT ![t] = n]
  BY <1>1, <1>4, <1>8, <1>9 DEF ReadGame, PlayInv, CallsKnow
<1>11. /\ n.step = "read" /\ n.cookie = c.cookie /\ n.input = c.input /\ n.game = game
       /\ n.conflict = c.conflict /\ n.day = dbDay /\ CallShaped(n)
  BY <1>2, <1>9 DEF CallShaped
<1>12. Shown(n.game.guesses, n.cookie, n.day, dailyGames')
  <2>1. game.guesses \in Seq(Words) /\ Len(game.guesses) \in Nat  BY DEF Games
  <2>2. QED  BY <1>5, <1>8, <1>11, <2>1 DEF Shown
<1>13. n.input # NoGuess /\ ~n.conflict => n.input.acct = n.cookie /\ IsIn(n.input, dailyGames')
  <2>1. CallKnows(c, dailyGames')
    BY <1>2, <1>5, <1>6, <1>7, CallStays
  <2>2. QED  BY <1>2, <1>11, <2>1 DEF CallKnows
<1>14. CallKnows(n, dailyGames')
  BY <1>2, <1>3, <1>11, <1>12, <1>13 DEF CallKnows
<1>15. CallsKnow'  BY <1>6, <1>10, <1>14, CallsFollow DEF PlayInv
<1>16. QED  BY <1>5, <1>6, <1>15 DEF PlayInv

LEMMA AnswerKeeps == ASSUME PlayInv, NEW t \in Tabs, Answer(t) PROVE PlayInv'
<1>1. PICK c : c = calls[t]  OBVIOUS
<1>2. /\ CallKnows(c, dailyGames) /\ CallShaped(c) /\ c.step = "read"
      /\ dailyGames \in AllGames
  BY <1>1 DEF PlayInv, CallsKnow, CallKnows, Answer, GamesSound
<1>3. /\ c.cookie \in Accounts /\ c.input \in Inputs \cup {NoGuess}
      /\ c.day \in Days /\ c.game \in Games
      /\ Shown(c.game.guesses, c.cookie, c.day, dailyGames)
  BY <1>2 DEF CallKnows, CallShaped
<1>4. PICK answer :
        answer = [acct |-> c.cookie, day |-> c.day, guesses |-> c.game.guesses,
                  status |-> c.game.status, stats |-> History(dailyGames[c.cookie], c.day)]
  OBVIOUS
<1>5. PICK rejected \in BOOLEAN :
        rejected = (c.conflict /\ (~Retry(c) \/ c.input.acct # c.cookie))
  <2>1. (c.conflict /\ (~Retry(c) \/ c.input.acct # c.cookie)) \in BOOLEAN  OBVIOUS
  <2>2. QED  BY <2>1
<1>6. PICK n : n = [[[[c EXCEPT !.step = "done"] EXCEPT !.conflict = rejected]
                       EXCEPT !.game = NoGame] EXCEPT !.answer = answer]
  OBVIOUS
<1>7. /\ calls' = [calls EXCEPT ![t] = n]
      /\ UNCHANGED <<dbDay, dailyGames, scores, member, tabs, strays, handedIn>>
  BY <1>1, <1>4, <1>5, <1>6 DEF Answer, PlayInv, CallsKnow
<1>8. /\ n.step = "done" /\ n.input = c.input /\ n.conflict = rejected
      /\ n.answer = answer /\ CallShaped(n)
  BY <1>2, <1>5, <1>6 DEF CallShaped
<1>9. Progress(answer) \in Snapshots /\ answer.acct = c.cookie
  BY <1>3, <1>4 DEF Progress, Snapshots, Games
<1>10. c.input # NoGuess /\ ~rejected => c.input.acct = c.cookie /\ IsIn(c.input, dailyGames)
  <2>1. SUFFICES ASSUME c.input # NoGuess, ~rejected
                 PROVE  c.input.acct = c.cookie /\ IsIn(c.input, dailyGames)
    OBVIOUS
  <2>2. CASE ~c.conflict
    BY <1>2, <2>1, <2>2 DEF CallKnows
  <2>3. CASE c.conflict
    <3>1. Retry(c) /\ c.input.acct = c.cookie  BY <1>5, <2>1, <2>3
    <3>2. /\ c.day = c.input.day /\ c.input.revision < Len(c.game.guesses)
          /\ c.game.guesses[c.input.revision + 1] = c.input.word
      BY <3>1 DEF Retry
    <3>3. c.input.revision \in Nat  BY <1>3, <2>1 DEF Inputs
    <3>4. PICK game \in Games : game = dailyGames[c.cookie][c.day]
      BY <1>2, <1>3 DEF AllGames
    <3>5. Len(c.game.guesses) \in Nat /\ Len(game.guesses) \in Nat
      BY <1>3 DEF Games
    <3>6. /\ Len(c.game.guesses) <= Len(game.guesses)
          /\ \A i \in 1..Len(c.game.guesses) : c.game.guesses[i] = game.guesses[i]
      BY <1>3, <3>4 DEF Shown
    <3>7. c.input.revision + 1 \in 1..Len(c.game.guesses)
      BY <3>2, <3>3, <3>5
    <3>8. c.input.revision < Len(game.guesses)
      BY <3>2, <3>3, <3>5, <3>6
    <3>9. game.guesses[c.input.revision + 1] = c.input.word
      BY <3>2, <3>6, <3>7
    <3>10. QED  BY <3>1, <3>2, <3>4, <3>8, <3>9 DEF IsIn
  <2>4. QED  BY <1>2, <2>2, <2>3 DEF CallShaped
<1>11. CallKnows(n, dailyGames')
  BY <1>7, <1>8, <1>9, <1>10 DEF CallKnows
<1>12. GamesSound' /\ Grows(dailyGames, dailyGames')  BY <1>7, QuietKeeps
<1>13. CallsKnow'  BY <1>7, <1>11, <1>12, CallsFollow DEF PlayInv
<1>14. QED  BY <1>7, <1>12, <1>13 DEF PlayInv

LEMMA ReceiveKeeps == ASSUME PlayInv, NEW t \in Tabs, Receive(t) PROVE PlayInv'
<1>1. PICK c : c = calls[t]  OBVIOUS
<1>2. CallKnows(c, dailyGames) /\ c.step = "done"
  BY <1>1 DEF PlayInv, CallsKnow, Receive
<1>3. /\ calls' = [calls EXCEPT ![t] = Idle]
      /\ UNCHANGED <<dbDay, dailyGames, scores, member, strays, handedIn>>
  BY DEF Receive
<1>4. GamesSound' /\ Grows(dailyGames, dailyGames')  BY <1>3, QuietKeeps
<1>5. CallsKnow'  BY <1>3, <1>4, IdleKnows, CallsFollow DEF PlayInv
<1>6. tabs' \in [Tabs -> TabStates]
  <2>1. tabs[t] \in TabStates  BY DEF PlayInv
  <2>2. [ClosedTab EXCEPT !.status = "signed-out"] \in TabStates
    BY DEF ClosedTab, TabStates
  <2>3. c.answer # SignedOutAnswer =>
          [status |-> "ready", current |-> Progress(c.answer), pending |-> NoGuess] \in TabStates
    BY <1>2 DEF CallKnows, TabStates
  <2>4. PICK new \in TabStates : tabs' = [tabs EXCEPT ![t] = new]
    <3>1. CASE c.answer = SignedOutAnswer
      <4>1. tabs' = [tabs EXCEPT ![t] = [ClosedTab EXCEPT !.status = "signed-out"]]
        BY <1>1, <3>1 DEF Receive
      <4>2. QED  BY <2>2, <4>1
    <3>2. CASE c.answer # SignedOutAnswer /\ Older(c.answer, tabs[t].current)
      <4>1. tabs' = [tabs EXCEPT ![t] = tabs[t]]
        BY <1>1, <3>2 DEF Receive
      <4>2. QED  BY <2>1, <4>1
    <3>3. CASE c.answer # SignedOutAnswer /\ ~Older(c.answer, tabs[t].current)
      <4>1. tabs' = [tabs EXCEPT ![t] =
                       [status |-> "ready", current |-> Progress(c.answer), pending |-> NoGuess]]
        BY <1>1, <3>3 DEF Receive
      <4>2. QED  BY <2>3, <3>3, <4>1
    <3>4. QED  BY <3>1, <3>2, <3>3
  <2>5. QED  BY <2>4 DEF PlayInv
<1>7. QED  BY <1>3, <1>4, <1>5, <1>6 DEF PlayInv

-----------------------------------------------------------------------------
(* The invariant holds in every state of the specification. *)

LEMMA PlayInit == DailyInit => PlayInv
<1> SUFFICES ASSUME DailyInit PROVE PlayInv  OBVIOUS
<1>1. dbDay \in Days  BY DailyPuffdleAssumption DEF DailyInit, Days
<1>2. NoGame \in Games
  <2>1. <<>> \in Seq(Words)  OBVIOUS
  <2>2. QED  BY <2>1 DEF NoGame, Games
<1>3. \A a \in Accounts, d \in Days : dailyGames[a][d] = NoGame  BY DEF DailyInit
<1>4. dailyGames \in AllGames
  <2>1. [d \in Days |-> NoGame] \in [Days -> Games]  BY <1>2
  <2>2. QED  BY <2>1 DEF DailyInit, AllGames
<1>5. scores \in [Accounts -> Rows]  BY DEF DailyInit, Rows
<1>6. \A a \in Accounts : RowAccounts(scores[a], dailyGames[a], handedIn[a])
  <2>1. SUFFICES ASSUME NEW a \in Accounts
                 PROVE  RowAccounts(scores[a], dailyGames[a], handedIn[a])
    OBVIOUS
  <2>2. scores[a] = NoRow /\ handedIn[a] = NothingHandedIn  BY DEF DailyInit
  <2>3. \A d \in Days : ~Finished(dailyGames[a][d])  BY <1>3 DEF NoGame, Finished
  <2>4. DoneIn(dailyGames[a]) = {}  BY <2>3 DEF DoneIn
  <2>5. NothingSaved \in Handed /\ NothingSaved.done = {}  BY DEF NothingSaved, Handed
  <2>6. NothingHandedIn.saves = {NothingSaved} /\ NothingHandedIn.streakFrom = NothingSaved
    BY DEF NothingHandedIn
  <2>7. HistoryFits(handedIn[a], dailyGames[a])  BY <2>2, <2>5, <2>6 DEF HistoryFits
  <2>8. QED  BY <2>2, <2>4, <2>7 DEF RowAccounts
<1>7. handedIn = [a \in Accounts |-> NothingHandedIn]  BY DEF DailyInit
<1>8. GamesSound
  <2>1. NothingHandedIn = [saves |-> NothingHandedIn.saves, streakFrom |-> NothingHandedIn.streakFrom]
    BY DEF NothingHandedIn
  <2>2. /\ handedIn = [a \in Accounts |-> handedIn[a]]
        /\ \A a \in Accounts :
             handedIn[a] = [saves |-> handedIn[a].saves, streakFrom |-> handedIn[a].streakFrom]
    BY <1>7, <2>1
  <2>3. QED  BY <1>1, <1>3, <1>4, <1>5, <1>6, <2>2 DEF GamesSound, NoGame
<1>9. CallsKnow  BY IdleKnows DEF DailyInit, CallsKnow
<1>10. tabs \in [Tabs -> TabStates]  BY ClosedTabFits DEF DailyInit
<1>11. QED  BY <1>8, <1>9, <1>10 DEF DailyInit, PlayInv

LEMMA PlayNext == PlayInv /\ [DailyNext]_dailyVars => PlayInv'
<1> SUFFICES ASSUME PlayInv, [DailyNext]_dailyVars PROVE PlayInv'  OBVIOUS
<1>1. CASE Midnight  BY <1>1, MidnightKeeps
<1>2. ASSUME NEW a \in Accounts \cup {NoAccount}, SignIn(a) PROVE PlayInv'
  BY <1>2, SignInKeeps
<1>3. ASSUME NEW a \in Elsewhere, NEW w \in Words, OtherDevice(a, w) PROVE PlayInv'
  BY <1>3, OtherDeviceKeeps
<1>16. ASSUME NEW a \in Elsewhere, NEW totals \in Totals, SaveUnlimited(a, totals) PROVE PlayInv'
  BY <1>16, SaveUnlimitedKeeps
<1>4. ASSUME NEW t \in Tabs, OpenTab(t) PROVE PlayInv'  BY <1>4, OpenTabKeeps
<1>5. ASSUME NEW t \in Tabs, CloseTab(t) PROVE PlayInv'  BY <1>5, CloseTabKeeps
<1>6. ASSUME NEW t \in Tabs, Refresh(t) PROVE PlayInv'  BY <1>6, RefreshKeeps
<1>7. ASSUME NEW t \in Tabs, NEW w \in Words, SubmitDraft(t, w) PROVE PlayInv'
  BY <1>7, SubmitKeeps
<1>8. ASSUME NEW t \in Tabs, Accept(t) PROVE PlayInv'  BY <1>8, AcceptKeeps
<1>9. ASSUME NEW t \in Tabs, Guessed(t) PROVE PlayInv'  BY <1>9, GuessedKeeps
<1>10. ASSUME NEW t \in Tabs, ReadGame(t) PROVE PlayInv'  BY <1>10, ReadGameKeeps
<1>11. ASSUME NEW t \in Tabs, Answer(t) PROVE PlayInv'  BY <1>11, AnswerKeeps
<1>12. ASSUME NEW t \in Tabs, Receive(t) PROVE PlayInv'  BY <1>12, ReceiveKeeps
<1>13. ASSUME NEW t \in Tabs, NEW arrives \in BOOLEAN, GiveUp(t, arrives) PROVE PlayInv'
  BY <1>13, GiveUpKeeps
<1>14. ASSUME NEW s \in strays, StrayGuess(s) PROVE PlayInv'  BY <1>14, StrayKeeps
<1>15. CASE UNCHANGED dailyVars
  <2>1. UNCHANGED <<dbDay, dailyGames, scores, member, tabs, calls, strays, handedIn>>
    BY <1>15 DEF dailyVars
  <2>2. CallsKnow'  BY <2>1 DEF PlayInv, CallsKnow
  <2>3. GamesSound'  BY <2>1, QuietKeeps
  <2>4. QED  BY <2>1, <2>2, <2>3 DEF PlayInv
<1>17. QED
  BY <1>1, <1>2, <1>3, <1>4, <1>5, <1>6, <1>7, <1>8, <1>9, <1>10, <1>11, <1>12, <1>13,
     <1>14, <1>15, <1>16 DEF DailyNext

LEMMA PlayHolds == DailySpec => []PlayInv
<1>1. QED  BY PlayInit, PlayNext, PTL DEF DailySpec

(* The row of the shared board accounts for both its writers: every finished *)
(* daily game is counted exactly once, whatever was retried, raced, given up *)
(* or cut off, on top of the Unlimited totals handed in before it; the best  *)
(* score is the best of both; and the streak is the daily games won since    *)
(* the last one lost, on top of that of the last totals that counted more    *)
(* games than the row.  The UPDATE of submitDailyGuess is guarded by the     *)
(* state, the day and the number of guesses, and the score is written by the *)
(* same statement; savePuffdleScore merges with GREATEST.                    *)
THEOREM ScoresStayExact == DailySpec => []ScoresAccounted
<1>1. PlayInv => ScoresAccounted
  <2>1. SUFFICES ASSUME PlayInv, NEW a \in Accounts
                 PROVE  LET done == {d \in Days : Finished(dailyGames[a][d])}
                            won == {d \in done : dailyGames[a][d].status = "WON"}
                            saves == handedIn[a].saves
                            from == handedIn[a].streakFrom
                            since == done \ from.done
                            inARow == {d \in since : \A e \in since : e >= d => e \in won}
                            row == scores[a]
                        IN IF row = NoRow THEN done = {} /\ saves = {NothingSaved}
                           ELSE /\ IsLargest(row.played,
                                     {Capped(s.totals.played + Cardinality(done \ s.done)) : s \in saves})
                                /\ IsLargest(row.won,
                                     {Capped(s.totals.won + Cardinality(won \ s.done)) : s \in saves})
                                /\ IsLargest(row.high,
                                     {s.totals.score : s \in saves}
                                       \cup {Points(Len(dailyGames[a][d].guesses)) : d \in won})
                                /\ row.streak =
                                     Capped(Cardinality(inARow)
                                       + (IF since \subseteq won THEN from.totals.streak ELSE 0))
    BY Zenon DEF ScoresAccounted, FinishedDays
  <2>2. RowAccounts(scores[a], dailyGames[a], handedIn[a])  BY <2>1 DEF PlayInv, GamesSound
  <2>3. NothingHandedIn.saves = {NothingSaved}  BY DEF NothingHandedIn
  <2>4. CASE scores[a] = NoRow  BY <2>2, <2>3, <2>4 DEF RowAccounts, DoneIn
  <2>5. CASE scores[a] # NoRow
    <3>1. Counts(scores[a].played, scores[a].won, scores[a].high, scores[a].streak,
                 dailyGames[a], handedIn[a])
      BY <2>2, <2>5 DEF RowAccounts
    <3>2. QED
      BY <2>5, <3>1 DEF Counts, PlayedFrom, WonFrom, SolvesIn, StreakOver, InARow, DoneIn, WonIn
  <2>6. QED  BY <2>4, <2>5
<1>2. QED  BY <1>1, PlayHolds, PTL

LEMMA AcceptedRecorded == PlayInv => AcceptedIsRecorded
<1>1. SUFFICES ASSUME PlayInv, NEW t \in Tabs, NEW c, c = calls[t],
                      c.step = "done", c.answer # SignedOutAnswer, c.input # NoGuess, ~c.conflict
               PROVE  c.input.acct = c.answer.acct /\ IsIn(c.input, dailyGames)
  BY DEF AcceptedIsRecorded, Recorded, IsIn
<1>2. CallKnows(c, dailyGames)  BY <1>1 DEF PlayInv, CallsKnow
<1>3. QED  BY <1>1, <1>2 DEF CallKnows

(* A guess that the server accepts is in the game of the account and day it  *)
(* was typed for, also when only a retry or a stray copy of it got there: a  *)
(* retry is recognised by finding the word at the place it was meant for.    *)
THEOREM AcceptedGuessesCount == DailySpec => []AcceptedIsRecorded
<1>1. QED  BY AcceptedRecorded, PlayHolds, PTL

-----------------------------------------------------------------------------
(* How the games go on: a game that began stays, a finished one is never     *)
(* touched again, and only the day's own games change.                       *)

Onward(G, H, today) ==
  \A a \in Accounts, d \in Days :
    /\ G[a][d].status # "NONE" => H[a][d].status # "NONE"
    /\ Finished(G[a][d]) => H[a][d] = G[a][d]
    /\ d # today => H[a][d] = G[a][d]

LEMMA OneGame ==
  ASSUME NEW G \in AllGames, NEW a \in Accounts, NEW today \in Days, NEW game,
         game.status # "NONE", Finished(G[a][today]) => game = G[a][today],
         NEW H, H = [G EXCEPT ![a][today] = game]
  PROVE  Onward(G, H, today)
<1>1. G[a] \in [Days -> Games] /\ DOMAIN G = Accounts  BY DEF AllGames
<1>2. PICK row : row = [G[a] EXCEPT ![today] = game]  OBVIOUS
<1>3. row[today] = game /\ \A d \in Days : d # today => row[d] = G[a][d]
  BY <1>1, <1>2
<1>4. H = [G EXCEPT ![a] = row]  BY <1>2
<1>5. H[a] = row /\ \A o \in Accounts : o # a => H[o] = G[o]
  BY <1>1, <1>4
<1>6. QED  BY <1>3, <1>5 DEF Onward

LEMMA WithGameOnward ==
  ASSUME GamesSound, NEW a \in Accounts, dailyGames' = WithGame(a, dbDay)
  PROVE  Onward(dailyGames, dailyGames', dbDay)
<1>1. dailyGames \in AllGames /\ dbDay \in Days  BY DEF GamesSound
<1>2. PICK old \in Games : old = dailyGames[a][dbDay]  BY <1>1 DEF AllGames
<1>3. PICK new : new = IF old.status = "NONE"
                         THEN [status |-> "IN_PROGRESS", guesses |-> <<>>] ELSE old
  OBVIOUS
<1>4. dailyGames' = [dailyGames EXCEPT ![a][dbDay] = new]
  BY <1>2, <1>3 DEF WithGame
<1>5. new.status # "NONE" /\ (Finished(old) => new = old)
  BY <1>3 DEF Finished
<1>6. QED  BY <1>1, <1>2, <1>4, <1>5, OneGame

LEMMA AdvanceOnward ==
  ASSUME GamesSound, NEW a \in Accounts, NEW input \in Inputs,
         CanAdvance(a, input), Advance(a, input)
  PROVE  Onward(dailyGames, dailyGames', dbDay)
<1>1. dailyGames \in AllGames /\ dbDay \in Days  BY DEF GamesSound
<1>2. input.day = dbDay  BY DEF CanAdvance
<1>3. PICK old \in Games : old = dailyGames[a][dbDay]  BY <1>1 DEF AllGames
<1>4. old.status = "IN_PROGRESS"  BY <1>2, <1>3 DEF CanAdvance
<1>5. PICK status \in {"WON", "LOST", "IN_PROGRESS"} :
        status = IF input.word = TargetOf[input.day] THEN "WON"
                 ELSE IF Len(old.guesses) = MaxAttempts - 1 THEN "LOST" ELSE "IN_PROGRESS"
  OBVIOUS
<1>6. PICK new : new = [status |-> status, guesses |-> Append(old.guesses, input.word)]
  OBVIOUS
<1>7. dailyGames' = [dailyGames EXCEPT ![a][dbDay] = new]
  BY <1>2, <1>3, <1>5, <1>6 DEF Advance
<1>8. new.status # "NONE" /\ ~Finished(old)  BY <1>4, <1>5, <1>6 DEF Finished
<1>9. QED  BY <1>1, <1>3, <1>7, <1>8, OneGame

LEMMA NothingOnward == \A G, today : Onward(G, G, today)
BY DEF Onward

(* A step of the games and of the clock.                                     *)
Goes == /\ Grows(dailyGames, dailyGames')
        /\ Onward(dailyGames, dailyGames', dbDay)
        /\ dbDay' = dbDay \/ (dbDay' > dbDay /\ UNCHANGED dailyGames)

LEMMA QuietGoes == ASSUME PlayInv, UNCHANGED <<dbDay, dailyGames>> PROVE Goes
<1>1. dailyGames \in AllGames  BY DEF PlayInv, GamesSound
<1>2. QED  BY <1>1, GrowsNot, NothingOnward DEF Goes

LEMMA WithGameGoes ==
  ASSUME PlayInv, NEW a \in Accounts, dailyGames' = WithGame(a, dbDay), UNCHANGED <<dbDay, scores, handedIn>>
  PROVE  Goes
BY WithGameKeeps, WithGameOnward DEF PlayInv, Goes

LEMMA AdvanceGoes ==
  ASSUME PlayInv, NEW a \in Accounts, NEW input \in Inputs,
         CanAdvance(a, input), Advance(a, input), UNCHANGED <<dbDay, handedIn>>
  PROVE  Goes
BY AdvanceKeeps, AdvanceOnward DEF PlayInv, Goes

LEMMA GamesGo == ASSUME PlayInv, [DailyNext]_dailyVars PROVE Goes
<1>1. CASE Midnight
  <2>1. dbDay \in Nat /\ dbDay' = dbDay + 1 /\ UNCHANGED dailyGames
    BY <1>1, DaysAreNumbers DEF Midnight, PlayInv, GamesSound
  <2>2. dailyGames \in AllGames  BY DEF PlayInv, GamesSound
  <2>3. dbDay' > dbDay  BY <2>1
  <2>4. QED  BY <2>1, <2>2, <2>3, GrowsNot, NothingOnward DEF Goes
<1>2. ASSUME NEW a \in Accounts \cup {NoAccount}, SignIn(a) PROVE Goes
  BY <1>2, QuietGoes DEF SignIn
<1>3. ASSUME NEW a \in Elsewhere, NEW w \in Words, OtherDevice(a, w) PROVE Goes
  <2>1. a \in Accounts /\ dbDay \in Days /\ dailyGames \in AllGames
    BY DailyPuffdleAssumption DEF PlayInv, GamesSound
  <2>2. PICK input : input = [acct |-> a, day |-> dbDay,
                              revision |-> Len(dailyGames[a][dbDay].guesses), word |-> w]
    OBVIOUS
  <2>3. dailyGames[a][dbDay] \in Games  BY <2>1 DEF AllGames
  <2>4. Len(dailyGames[a][dbDay].guesses) \in Nat  BY <2>3 DEF Games
  <2>5. input \in Inputs  BY <2>1, <2>2, <2>4 DEF Inputs
  <2>6. CanAdvance(a, input) /\ Advance(a, input) /\ UNCHANGED <<dbDay, handedIn>>
    BY <1>3, <2>2 DEF OtherDevice
  <2>7. QED  BY <2>1, <2>5, <2>6, AdvanceGoes
<1>16. ASSUME NEW a \in Elsewhere, NEW totals \in Totals, SaveUnlimited(a, totals) PROVE Goes
  BY <1>16, QuietGoes DEF SaveUnlimited
<1>4. ASSUME NEW t \in Tabs PROVE OpenTab(t) => Goes  BY QuietGoes DEF OpenTab
<1>5. ASSUME NEW t \in Tabs PROVE CloseTab(t) => Goes  BY QuietGoes DEF CloseTab
<1>6. ASSUME NEW t \in Tabs PROVE Refresh(t) => Goes  BY QuietGoes DEF Refresh
<1>7. ASSUME NEW t \in Tabs, NEW w \in Words PROVE SubmitDraft(t, w) => Goes
  BY QuietGoes DEF SubmitDraft
<1>8. ASSUME NEW t \in Tabs, Accept(t) PROVE Goes
  <2>1. CallKnows(calls[t], dailyGames)  BY DEF PlayInv, CallsKnow
  <2>2. calls[t].cookie \in Accounts \cup {NoAccount}  BY <2>1 DEF CallKnows, CallShaped
  <2>3. UNCHANGED <<dbDay, scores, handedIn>>  BY <1>8 DEF Accept
  <2>4. UNCHANGED dailyGames \/ (calls[t].cookie \in Accounts /\ dailyGames' = WithGame(calls[t].cookie, dbDay))
    BY <1>8, <2>2 DEF Accept
  <2>5. QED  BY <2>3, <2>4, QuietGoes, WithGameGoes
<1>9. ASSUME NEW t \in Tabs, Guessed(t) PROVE Goes
  <2>1. CallKnows(calls[t], dailyGames) /\ calls[t].step = "dated"
    BY <1>9 DEF PlayInv, CallsKnow, Guessed
  <2>2. calls[t].cookie \in Accounts /\ calls[t].input \in Inputs  BY <2>1 DEF CallKnows
  <2>3. \/ UNCHANGED dailyGames
        \/ CanAdvance(calls[t].cookie, calls[t].input) /\ Advance(calls[t].cookie, calls[t].input)
    BY <1>9 DEF Guessed
  <2>4. UNCHANGED <<dbDay, handedIn>>  BY <1>9 DEF Guessed
  <2>5. QED  BY <2>2, <2>3, <2>4, QuietGoes, AdvanceGoes
<1>10. ASSUME NEW t \in Tabs, ReadGame(t) PROVE Goes
  <2>1. CallKnows(calls[t], dailyGames) /\ calls[t].step = "written"
    BY <1>10 DEF PlayInv, CallsKnow, ReadGame
  <2>2. calls[t].cookie \in Accounts  BY <2>1 DEF CallKnows
  <2>3. dailyGames' = WithGame(calls[t].cookie, dbDay) /\ UNCHANGED <<dbDay, scores, handedIn>>
    BY <1>10 DEF ReadGame
  <2>4. QED  BY <2>2, <2>3, WithGameGoes
<1>11. ASSUME NEW t \in Tabs PROVE Answer(t) => Goes  BY QuietGoes DEF Answer
<1>12. ASSUME NEW t \in Tabs PROVE Receive(t) => Goes  BY QuietGoes DEF Receive
<1>13. ASSUME NEW t \in Tabs, NEW arrives \in BOOLEAN PROVE GiveUp(t, arrives) => Goes
  BY QuietGoes DEF GiveUp
<1>14. ASSUME NEW s \in strays, StrayGuess(s) PROVE Goes
  <2>1. s.input \in Inputs /\ s.input.acct \in Accounts  BY DEF PlayInv, Inputs
  <2>2. \/ UNCHANGED dailyGames
        \/ s.input.acct = s.cookie /\ CanAdvance(s.cookie, s.input) /\ Advance(s.cookie, s.input)
    BY <1>14 DEF StrayGuess
  <2>3. UNCHANGED <<dbDay, handedIn>>  BY <1>14 DEF StrayGuess
  <2>4. QED  BY <2>1, <2>2, <2>3, QuietGoes, AdvanceGoes
<1>15. CASE UNCHANGED dailyVars  BY <1>15, QuietGoes DEF dailyVars
<1>17. QED
  BY <1>1, <1>2, <1>3, <1>4, <1>5, <1>6, <1>7, <1>8, <1>9, <1>10, <1>11, <1>12, <1>13,
     <1>14, <1>15, <1>16 DEF DailyNext
-----------------------------------------------------------------------------
(* What a request and a tab are told, against the games. *)

(* A guess was typed for a game that was there, after guesses of that game.  *)
Placed(input, G, today) ==
  /\ input.day <= today
  /\ G[input.acct][input.day].status # "NONE"
  /\ input.revision <= Len(G[input.acct][input.day].guesses)

(* A refusal that an account is told of one of its own guesses.              *)
Denied(c, a) == c.input # NoGuess /\ c.conflict /\ c.input.acct = a

(* The place of the guess is taken, or its game is over.                     *)
Overtaken(input, G) ==
  \/ input.revision < Len(G[input.acct][input.day].guesses)
  \/ Finished(G[input.acct][input.day])

(* The beginning of a game that was there.                                   *)
Told(a, G, today) ==
  /\ a.day <= today
  /\ G[a.acct][a.day].status # "NONE"
  /\ Shown(a.guesses, a.acct, a.day, G)

StreakTold(a, G, today) ==
  a.day = today =>
    \/ a.stats.streak = WinsEndingWith(G[a.acct], a.day - 1)
    \/ /\ Finished(G[a.acct][a.day])
       /\ a.stats.streak = WinsEndingWith(G[a.acct], a.day)

CallTells(c, G, today) ==
  /\ c.input # NoGuess => Placed(c.input, G, today)
  /\ c.step = "dated" => c.day \in Days /\ c.day <= today /\ c.input.day <= c.day
  /\ c.step = "written" /\ Denied(c, c.cookie) =>
       c.input.day < today \/ Overtaken(c.input, G)
  /\ c.step = "read" => c.day <= today /\ G[c.cookie][c.day].status # "NONE"
  /\ c.step = "read" /\ Denied(c, c.cookie) /\ c.input.day = c.day =>
       \/ c.input.revision < Len(c.game.guesses)
       \/ Finished(c.game) /\ c.game = G[c.cookie][c.day]
  /\ c.step = "done" /\ c.answer # SignedOutAnswer =>
       Told(c.answer, G, today) /\ StreakTold(c.answer, G, today)
  /\ c.step = "done" /\ c.answer # SignedOutAnswer /\ Denied(c, c.answer.acct)
       /\ c.input.day = c.answer.day =>
       Overtaken(c.input, G) /\ ~IsIn(c.input, G)

TabTells(tab, G, today) ==
  /\ tab.pending # NoGuess => Placed(tab.pending, G, today)
  /\ tab.current # NoSnapshot => Told(tab.current, G, today)

TellInv ==
  /\ PlayInv
  /\ \A t \in Tabs : CallTells(calls[t], dailyGames, dbDay)
  /\ \A t \in Tabs : TabTells(tabs[t], dailyGames, dbDay)

(* What was told stays true. *)

LEMMA PlacedStays ==
  ASSUME NEW G \in AllGames, NEW H \in AllGames, NEW today \in Days, NEW next \in Days,
         Grows(G, H), Onward(G, H, today), next >= today, NEW input \in Inputs,
         Placed(input, G, today)
  PROVE  Placed(input, H, next)
<1>1. input.acct \in Accounts /\ input.day \in Days /\ input.revision \in Nat
  BY DEF Inputs
<1>2. PICK old \in Games, new \in Games :
        old = G[input.acct][input.day] /\ new = H[input.acct][input.day]
  BY <1>1 DEF AllGames
<1>3. Len(old.guesses) \in Nat /\ Len(new.guesses) \in Nat  BY DEF Games
<1>4. Len(old.guesses) <= Len(new.guesses)  BY <1>1, <1>2 DEF Grows
<1>5. new.status # "NONE"  BY <1>1, <1>2 DEF Onward, Placed
<1>6. input.revision <= Len(new.guesses)
  <2>1. input.revision <= Len(old.guesses)  BY <1>2 DEF Placed
  <2>2. QED  BY <1>1, <1>3, <1>4, <2>1
<1>7. input.day <= next
  <2>1. input.day \in Nat /\ today \in Nat /\ next \in Nat /\ input.day <= today
    BY <1>1, DaysAreNumbers DEF Placed
  <2>2. QED  BY <2>1
<1>8. QED  BY <1>2, <1>5, <1>6, <1>7 DEF Placed

LEMMA ShownStays ==
  ASSUME NEW G \in AllGames, NEW H \in AllGames, Grows(G, H),
         NEW a \in Accounts, NEW day \in Days, NEW guesses \in Seq(Words),
         Shown(guesses, a, day, G)
  PROVE  Shown(guesses, a, day, H)
<1>1. PICK game \in Games : game = [status |-> "NONE", guesses |-> guesses]  BY DEF Games
<1>2. game.guesses = guesses  BY <1>1
<1>3. Shown(game.guesses, a, day, H)  BY <1>2, StaysShown
<1>4. QED  BY <1>2, <1>3

LEMMA ToldStays ==
  ASSUME NEW G \in AllGames, NEW H \in AllGames, NEW today \in Days, NEW next \in Days,
         Grows(G, H), Onward(G, H, today), next >= today, NEW a,
         a.acct \in Accounts, a.day \in Days, a.guesses \in Seq(Words), Told(a, G, today)
  PROVE  Told(a, H, next)
<1>1. Shown(a.guesses, a.acct, a.day, H)  BY ShownStays DEF Told
<1>2. H[a.acct][a.day].status # "NONE"  BY DEF Onward, Told
<1>3. a.day <= next
  <2>1. a.day \in Nat /\ today \in Nat /\ next \in Nat /\ a.day <= today
    BY DaysAreNumbers DEF Told
  <2>2. QED  BY <2>1
<1>4. QED  BY <1>1, <1>2, <1>3 DEF Told

LEMMA OvertakenStays ==
  ASSUME NEW G \in AllGames, NEW H \in AllGames, NEW today \in Days,
         Grows(G, H), Onward(G, H, today), NEW input \in Inputs, Overtaken(input, G)
  PROVE  /\ Overtaken(input, H)
         /\ ~IsIn(input, G) => ~IsIn(input, H)
<1>1. input.acct \in Accounts /\ input.day \in Days /\ input.revision \in Nat
  BY DEF Inputs
<1>2. PICK old \in Games, new \in Games :
        old = G[input.acct][input.day] /\ new = H[input.acct][input.day]
  BY <1>1 DEF AllGames
<1>3. Len(old.guesses) \in Nat /\ Len(new.guesses) \in Nat  BY DEF Games
<1>4. /\ Len(old.guesses) <= Len(new.guesses)
      /\ \A i \in 1..Len(old.guesses) : new.guesses[i] = old.guesses[i]
  BY <1>1, <1>2 DEF Grows
<1>5. CASE Finished(old)
  <2>1. new = old  BY <1>1, <1>2, <1>5 DEF Onward
  <2>2. QED  BY <1>2, <1>5, <2>1 DEF Overtaken, IsIn
<1>6. CASE input.revision < Len(old.guesses)
  <2>1. input.revision < Len(new.guesses) /\ input.revision + 1 \in 1..Len(old.guesses)
    BY <1>1, <1>3, <1>4, <1>6
  <2>2. new.guesses[input.revision + 1] = old.guesses[input.revision + 1]
    BY <1>4, <2>1
  <2>3. QED  BY <1>2, <1>6, <2>1, <2>2 DEF Overtaken, IsIn
<1>7. QED  BY <1>2, <1>5, <1>6 DEF Overtaken

(* The wins that end with a day are those of the days up to it.              *)
LEMMA SameWins ==
  ASSUME NEW g, NEW h, NEW d \in Nat, \A e \in 1..d : h[e] = g[e]
  PROVE  WinsEndingWith(h, d) = WinsEndingWith(g, d)
<1>1. \A s \in 1..d : \A e \in s..d : h[e] = g[e]  OBVIOUS
<1>2. {s \in 1..d : \A e \in s..d : h[e].status = "WON"}
        = {s \in 1..d : \A e \in s..d : g[e].status = "WON"}
  BY <1>1
<1>3. QED  BY <1>2 DEF WinsEndingWith

LEMMA StreakStays ==
  ASSUME NEW G \in AllGames, NEW H \in AllGames, NEW today \in Days, NEW next \in Days,
         Onward(G, H, today), next = today \/ next > today, NEW a,
         a.acct \in Accounts, a.day \in Days, a.day <= today, StreakTold(a, G, today)
  PROVE  StreakTold(a, H, next)
<1>1. /\ today \in Nat \ {0} /\ today <= MaxDay /\ MaxDay \in Nat /\ next \in Nat
      /\ a.day \in Nat
  BY DailyPuffdleAssumption DEF Days
<1>2. CASE a.day # next
  BY <1>2 DEF StreakTold
<1>3. CASE a.day = next
  <2>1. next = today /\ a.day = today  BY <1>1, <1>3
  <2>2. \A e \in 1..(today - 1) : e \in Days /\ e # today  BY <1>1 DEF Days
  <2>3. \A e \in 1..(today - 1) : H[a.acct][e] = G[a.acct][e]  BY <2>2 DEF Onward
  <2>4. WinsEndingWith(H[a.acct], today - 1) = WinsEndingWith(G[a.acct], today - 1)
    <3>1. PICK d \in Nat : d = today - 1  BY <1>1
    <3>2. QED  BY <2>3, <3>1, SameWins
  <2>5. CASE Finished(G[a.acct][today])
    <3>1. H[a.acct][today] = G[a.acct][today]  BY <2>5 DEF Onward
    <3>2. \A e \in 1..today : e = today \/ e \in 1..(today - 1)  BY <1>1
    <3>3. \A e \in 1..today : H[a.acct][e] = G[a.acct][e]  BY <2>3, <3>1, <3>2
    <3>4. WinsEndingWith(H[a.acct], today) = WinsEndingWith(G[a.acct], today)
      BY <1>1, <3>3, SameWins
    <3>5. QED  BY <2>1, <2>4, <3>1, <3>4 DEF StreakTold
  <2>6. CASE ~Finished(G[a.acct][today])
    <3>1. a.stats.streak = WinsEndingWith(G[a.acct], today - 1)
      BY <2>1, <2>6 DEF StreakTold
    <3>2. QED  BY <2>1, <2>4, <3>1 DEF StreakTold
  <2>7. QED  BY <2>5, <2>6
<1>4. QED  BY <1>2, <1>3

LEMMA CallTellsOn ==
  ASSUME NEW G \in AllGames, NEW H \in AllGames, NEW today \in Days, NEW next \in Days,
         Grows(G, H), Onward(G, H, today), next = today \/ (next > today /\ H = G), NEW c,
         CallKnows(c, G), CallTells(c, G, today)
  PROVE  CallTells(c, H, next)
<1>1. today \in Nat /\ next \in Nat /\ next >= today
  <2>1. today \in Nat /\ next \in Nat  BY DaysAreNumbers
  <2>2. QED  BY <2>1
<1>2. c.input # NoGuess => c.input \in Inputs /\ c.input.day \in Days
  BY DEF CallKnows, CallShaped, Inputs
<1>3. c.input # NoGuess => Placed(c.input, H, next)
  BY <1>1, <1>2, PlacedStays DEF CallTells
<1>4. c.step = "dated" => c.day \in Days /\ c.day <= next /\ c.input.day <= c.day
  <2>1. SUFFICES ASSUME c.step = "dated" PROVE c.day \in Days /\ c.day <= next /\ c.input.day <= c.day
    OBVIOUS
  <2>2. c.day \in Days /\ c.day <= today /\ c.input.day <= c.day  BY <2>1 DEF CallTells
  <2>3. c.day \in Nat  BY <2>2, DaysAreNumbers
  <2>4. c.day <= next  BY <1>1, <2>2, <2>3
  <2>5. QED  BY <2>2, <2>4
<1>5. c.step = "written" /\ Denied(c, c.cookie) => c.input.day < next \/ Overtaken(c.input, H)
  <2>1. SUFFICES ASSUME c.step = "written", Denied(c, c.cookie)
                 PROVE  c.input.day < next \/ Overtaken(c.input, H)
    OBVIOUS
  <2>2. c.input \in Inputs /\ c.input.day \in Nat  BY <1>2, <2>1, DaysAreNumbers DEF Denied
  <2>3. c.input.day < today \/ Overtaken(c.input, G)  BY <2>1 DEF CallTells
  <2>4. c.input.day < today => c.input.day < next  BY <1>1, <2>2
  <2>5. Overtaken(c.input, G) => Overtaken(c.input, H)  BY <2>2, OvertakenStays
  <2>6. QED  BY <2>3, <2>4, <2>5
<1>6. c.step = "read" => c.cookie \in Accounts /\ c.day \in Days /\ c.day <= next
                         /\ H[c.cookie][c.day].status # "NONE"
  <2>1. SUFFICES ASSUME c.step = "read"
                 PROVE  c.cookie \in Accounts /\ c.day \in Days /\ c.day <= next
                        /\ H[c.cookie][c.day].status # "NONE"
    OBVIOUS
  <2>2. c.cookie \in Accounts /\ c.day \in Days  BY <2>1 DEF CallKnows
  <2>3. c.day <= today /\ G[c.cookie][c.day].status # "NONE"  BY <2>1 DEF CallTells
  <2>4. c.day \in Nat  BY <2>2, DaysAreNumbers
  <2>5. c.day <= next  BY <1>1, <2>3, <2>4
  <2>6. H[c.cookie][c.day].status # "NONE"  BY <2>2, <2>3 DEF Onward
  <2>7. QED  BY <2>2, <2>5, <2>6
<1>7. c.step = "read" /\ Denied(c, c.cookie) /\ c.input.day = c.day =>
        \/ c.input.revision < Len(c.game.guesses)
        \/ Finished(c.game) /\ c.game = H[c.cookie][c.day]
  BY <1>6 DEF CallTells, Onward
<1>8. c.step = "done" /\ c.answer # SignedOutAnswer =>
        Told(c.answer, H, next) /\ StreakTold(c.answer, H, next)
  <2>1. SUFFICES ASSUME c.step = "done", c.answer # SignedOutAnswer
                 PROVE  Told(c.answer, H, next) /\ StreakTold(c.answer, H, next)
    OBVIOUS
  <2>2. PICK a : a = c.answer  OBVIOUS
  <2>3. a.acct \in Accounts /\ a.day \in Days /\ a.guesses \in Seq(Words)
    BY <2>1, <2>2 DEF CallKnows, Progress, Snapshots
  <2>4. Told(a, G, today) /\ StreakTold(a, G, today) /\ a.day <= today
    BY <2>1, <2>2 DEF CallTells, Told
  <2>5. Told(a, H, next)  BY <1>1, <2>3, <2>4, ToldStays
  <2>6. StreakTold(a, H, next)  BY <2>3, <2>4, StreakStays
  <2>7. QED  BY <2>2, <2>5, <2>6
<1>9. c.step = "done" /\ c.answer # SignedOutAnswer /\ Denied(c, c.answer.acct)
        /\ c.input.day = c.answer.day =>
        Overtaken(c.input, H) /\ ~IsIn(c.input, H)
  <2>1. SUFFICES ASSUME c.step = "done", c.answer # SignedOutAnswer,
                        Denied(c, c.answer.acct), c.input.day = c.answer.day
                 PROVE  Overtaken(c.input, H) /\ ~IsIn(c.input, H)
    OBVIOUS
  <2>2. Overtaken(c.input, G) /\ ~IsIn(c.input, G)  BY <2>1 DEF CallTells
  <2>3. c.input \in Inputs  BY <1>2, <2>1 DEF Denied
  <2>4. QED  BY <2>2, <2>3, OvertakenStays
<1>10. QED  BY <1>3, <1>4, <1>5, <1>6, <1>7, <1>8, <1>9 DEF CallTells

LEMMA TabTellsOn ==
  ASSUME NEW G \in AllGames, NEW H \in AllGames, NEW today \in Days, NEW next \in Days,
         Grows(G, H), Onward(G, H, today), next = today \/ (next > today /\ H = G),
         NEW tab \in TabStates, TabTells(tab, G, today)
  PROVE  TabTells(tab, H, next)
<1>1. next >= today
  <2>1. today \in Nat /\ next \in Nat  BY DaysAreNumbers
  <2>2. QED  BY <2>1
<1>2. tab.pending # NoGuess => tab.pending \in Inputs  BY DEF TabStates
<1>3. tab.pending # NoGuess => Placed(tab.pending, H, next)
  BY <1>1, <1>2, PlacedStays DEF TabTells
<1>4. tab.current # NoSnapshot => Told(tab.current, H, next)
  <2>1. SUFFICES ASSUME tab.current # NoSnapshot PROVE Told(tab.current, H, next)  OBVIOUS
  <2>2. PICK a : a = tab.current  OBVIOUS
  <2>3. a.acct \in Accounts /\ a.day \in Days /\ a.guesses \in Seq(Words)
    BY <2>1, <2>2 DEF TabStates, Snapshots
  <2>4. Told(a, G, today)  BY <2>1, <2>2 DEF TabTells
  <2>5. QED  BY <1>1, <2>2, <2>3, <2>4, ToldStays
<1>5. QED  BY <1>3, <1>4 DEF TabTells

-----------------------------------------------------------------------------
(* What a step tells a tab. *)

LEMMA TellFollows ==
  ASSUME TellInv, [DailyNext]_dailyVars,
         \A t \in Tabs : calls'[t] = calls[t] \/ CallTells(calls'[t], dailyGames', dbDay'),
         \A t \in Tabs : tabs'[t] = tabs[t] \/ TabTells(tabs'[t], dailyGames', dbDay')
  PROVE  TellInv'
<1>1. PlayInv /\ PlayInv'  BY PlayNext DEF TellInv
<1>2. dailyGames \in AllGames /\ dailyGames' \in AllGames /\ dbDay \in Days /\ dbDay' \in Days
  BY <1>1 DEF PlayInv, GamesSound
<1>3. /\ Grows(dailyGames, dailyGames') /\ Onward(dailyGames, dailyGames', dbDay)
      /\ dbDay' = dbDay \/ (dbDay' > dbDay /\ dailyGames' = dailyGames)
  BY <1>1, GamesGo DEF Goes
<1>4. ASSUME NEW t \in Tabs PROVE CallTells(calls'[t], dailyGames', dbDay')
  <2>1. CallKnows(calls[t], dailyGames) /\ CallTells(calls[t], dailyGames, dbDay)
    BY DEF TellInv, PlayInv, CallsKnow
  <2>2. CallTells(calls[t], dailyGames', dbDay')  BY <1>2, <1>3, <2>1, CallTellsOn
  <2>3. QED  BY <2>2
<1>5. ASSUME NEW t \in Tabs PROVE TabTells(tabs'[t], dailyGames', dbDay')
  <2>1. tabs[t] \in TabStates /\ TabTells(tabs[t], dailyGames, dbDay)
    BY DEF TellInv, PlayInv
  <2>2. TabTells(tabs[t], dailyGames', dbDay')  BY <1>2, <1>3, <2>1, TabTellsOn
  <2>3. QED  BY <2>2
<1>6. QED  BY <1>1, <1>4, <1>5 DEF TellInv

LEMMA IdleTells == \A G, today : CallTells(Idle, G, today)
<1>1. Idle.step = "none" /\ Idle.input = NoGuess  BY DEF Idle
<1>2. QED  BY <1>1 DEF CallTells

LEMMA SentTells ==
  ASSUME NEW input, NEW G, NEW today, input # NoGuess => Placed(input, G, today)
  PROVE  CallTells(Sent(input), G, today)
<1>1. Sent(input).step = "sent" /\ Sent(input).input = input  BY SentIs
<1>2. QED  BY <1>1 DEF CallTells

LEMMA ClosedTells ==
  \A G, today : /\ TabTells(ClosedTab, G, today)
                /\ \A status : TabTells([ClosedTab EXCEPT !.status = status], G, today)
<1>1. ClosedTab.pending = NoGuess /\ ClosedTab.current = NoSnapshot  BY DEF ClosedTab
<1>2. ASSUME NEW status
      PROVE  /\ [ClosedTab EXCEPT !.status = status].pending = NoGuess
             /\ [ClosedTab EXCEPT !.status = status].current = NoSnapshot
  BY DEF ClosedTab
<1>3. QED  BY <1>1, <1>2 DEF TabTells

LEMMA OneTab ==
  ASSUME PlayInv, NEW t \in Tabs
  PROVE  /\ \A c : calls' = [calls EXCEPT ![t] = c] =>
               calls'[t] = c /\ \A o \in Tabs : o # t => calls'[o] = calls[o]
         /\ \A s : tabs' = [tabs EXCEPT ![t] = s] =>
               tabs'[t] = s /\ \A o \in Tabs : o # t => tabs'[o] = tabs[o]
<1>1. DOMAIN calls = Tabs /\ DOMAIN tabs = Tabs  BY DEF PlayInv, CallsKnow
<1>2. QED  BY <1>1

LEMMA TabStepTells ==
  ASSUME TellInv, NEW t \in Tabs,
         \/ OpenTab(t) \/ CloseTab(t) \/ Refresh(t) \/ \E w \in Words : SubmitDraft(t, w)
         \/ \E arrives \in BOOLEAN : GiveUp(t, arrives)
  PROVE  TellInv'
<1>1. [DailyNext]_dailyVars  BY DEF DailyNext
<1>2. PlayInv /\ TabTells(tabs[t], dailyGames, dbDay)  BY DEF TellInv
<1>3. CASE OpenTab(t)
  <2>1. /\ calls' = [calls EXCEPT ![t] = Sent(NoGuess)]
        /\ tabs' = [tabs EXCEPT ![t] = [ClosedTab EXCEPT !.status = "loading"]]
    BY <1>3 DEF OpenTab
  <2>2. CallTells(Sent(NoGuess), dailyGames', dbDay')  BY SentTells
  <2>3. TabTells([ClosedTab EXCEPT !.status = "loading"], dailyGames', dbDay')  BY ClosedTells
  <2>4. QED  BY <1>1, <1>2, <2>1, <2>2, <2>3, OneTab, TellFollows
<1>4. CASE CloseTab(t)
  <2>1. calls' = [calls EXCEPT ![t] = Idle] /\ tabs' = [tabs EXCEPT ![t] = ClosedTab]
    BY <1>4 DEF CloseTab
  <2>2. QED  BY <1>1, <1>2, <2>1, IdleTells, ClosedTells, OneTab, TellFollows
<1>5. CASE Refresh(t)
  <2>1. /\ calls' = [calls EXCEPT ![t] = Sent(tabs[t].pending)]
        /\ UNCHANGED <<tabs, dailyGames, dbDay>>
    BY <1>5 DEF Refresh
  <2>2. CallTells(Sent(tabs[t].pending), dailyGames', dbDay')
    BY <1>2, <2>1, SentTells DEF TabTells
  <2>3. QED  BY <1>1, <1>2, <2>1, <2>2, OneTab, TellFollows
<1>6. ASSUME NEW word \in Words, SubmitDraft(t, word) PROVE TellInv'
  <2>1. PICK saved \in Snapshots : saved = tabs[t].current /\ saved # NoSnapshot
    BY <1>2, <1>6 DEF PlayInv, TabStates, SubmitDraft
  <2>2. PICK input : input = [acct |-> saved.acct, day |-> saved.day,
                              revision |-> Len(saved.guesses), word |-> word]
    OBVIOUS
  <2>3. /\ calls' = [calls EXCEPT ![t] = Sent(input)]
        /\ tabs' = [tabs EXCEPT ![t] = [tabs[t] EXCEPT !.pending = input]]
        /\ UNCHANGED <<dailyGames, dbDay>>
    BY <1>6, <2>1, <2>2 DEF SubmitDraft
  <2>4. Told(saved, dailyGames, dbDay)  BY <1>2, <2>1 DEF TabTells
  <2>5. Placed(input, dailyGames', dbDay')
    BY <2>2, <2>3, <2>4 DEF Placed, Told, Shown
  <2>6. CallTells(Sent(input), dailyGames', dbDay')  BY <2>5, SentTells
  <2>7. PICK new : new = [tabs[t] EXCEPT !.pending = input]  OBVIOUS
  <2>8. new.pending = input /\ new.current = tabs[t].current
    BY <1>2, <2>7 DEF PlayInv, TabStates
  <2>9. TabTells(new, dailyGames', dbDay')  BY <1>2, <2>3, <2>5, <2>8 DEF TabTells
  <2>10. QED  BY <1>1, <1>2, <2>3, <2>6, <2>7, <2>9, OneTab, TellFollows
<1>7. ASSUME NEW arrives \in BOOLEAN, GiveUp(t, arrives) PROVE TellInv'
  <2>1. PICK new : new = [tabs[t] EXCEPT !.status = "error"]  OBVIOUS
  <2>2. /\ calls' = [calls EXCEPT ![t] = Idle] /\ tabs' = [tabs EXCEPT ![t] = new]
        /\ UNCHANGED <<dailyGames, dbDay>>
    BY <1>7, <2>1 DEF GiveUp
  <2>3. new.pending = tabs[t].pending /\ new.current = tabs[t].current
    BY <1>2, <2>1 DEF PlayInv, TabStates
  <2>4. TabTells(new, dailyGames', dbDay')  BY <1>2, <2>2, <2>3 DEF TabTells
  <2>5. QED  BY <1>1, <1>2, <2>2, <2>4, IdleTells, OneTab, TellFollows
<1>8. QED  BY <1>3, <1>4, <1>5, <1>6, <1>7

LEMMA AcceptTells == ASSUME TellInv, NEW t \in Tabs, Accept(t) PROVE TellInv'
<1>1. [DailyNext]_dailyVars /\ PlayInv  BY DEF DailyNext, TellInv
<1>2. PICK c : c = calls[t]  OBVIOUS
<1>3. CallKnows(c, dailyGames) /\ CallShaped(c) /\ CallTells(c, dailyGames, dbDay)
  BY <1>2 DEF TellInv, PlayInv, CallsKnow, CallKnows
<1>4. /\ dailyGames \in AllGames /\ dailyGames' \in AllGames
      /\ dbDay \in Days /\ dbDay' \in Days
  BY <1>1, PlayNext DEF PlayInv, GamesSound
<1>5. UNCHANGED <<dbDay, tabs>> /\ c.step = "sent"  BY <1>2 DEF Accept
<1>6. c.input # NoGuess => Placed(c.input, dailyGames', dbDay')
  <2>1. CallTells(c, dailyGames', dbDay')
    BY <1>1, <1>3, <1>4, GamesGo, CallTellsOn DEF Goes
  <2>2. QED  BY <2>1 DEF CallTells
<1>7. CASE c.cookie = NoAccount \/ c.cookie # member
  <2>1. PICK n : n = [[c EXCEPT !.step = "done"] EXCEPT !.answer = SignedOutAnswer]  OBVIOUS
  <2>2. calls' = [calls EXCEPT ![t] = n]
    BY <1>2, <1>7, <2>1 DEF Accept, TellInv, PlayInv, CallsKnow
  <2>3. n.step = "done" /\ n.answer = SignedOutAnswer /\ n.input = c.input
    BY <1>3, <2>1 DEF CallShaped
  <2>4. CallTells(n, dailyGames', dbDay')  BY <1>6, <2>3 DEF CallTells
  <2>5. QED  BY <1>1, <1>5, <2>2, <2>4, OneTab, TellFollows
<1>8. CASE ~(c.cookie = NoAccount \/ c.cookie # member)
  <2>1. PICK step \in {"written", "dated"} :
          step = IF c.input = NoGuess THEN "written" ELSE "dated"
    OBVIOUS
  <2>2. PICK n : n = [[c EXCEPT !.step = step] EXCEPT !.day = dbDay]  OBVIOUS
  <2>3. calls' = [calls EXCEPT ![t] = n]
    BY <1>2, <1>8, <2>1, <2>2 DEF Accept, TellInv, PlayInv, CallsKnow
  <2>4. n.step = step /\ n.cookie = c.cookie /\ n.input = c.input /\ n.day = dbDay
    BY <1>3, <2>2 DEF CallShaped
  <2>5. dbDay <= dbDay  BY <1>4, DaysAreNumbers
  <2>6. n.step = "dated" => n.day \in Days /\ n.day <= dbDay' /\ n.input.day <= n.day
    BY <1>4, <1>5, <1>6, <2>1, <2>4, <2>5 DEF Placed
  <2>7. n.step = "written" => ~Denied(n, n.cookie)  BY <2>1, <2>4 DEF Denied
  <2>8. CallTells(n, dailyGames', dbDay')
    BY <1>6, <2>1, <2>4, <2>6, <2>7 DEF CallTells
  <2>9. QED  BY <1>1, <1>5, <2>3, <2>8, OneTab, TellFollows
<1>9. QED  BY <1>7, <1>8

LEMMA GuessedTells == ASSUME TellInv, NEW t \in Tabs, Guessed(t) PROVE TellInv'
<1>1. [DailyNext]_dailyVars /\ PlayInv  BY DEF DailyNext, TellInv
<1>2. PICK c : c = calls[t]  OBVIOUS
<1>3. /\ CallKnows(c, dailyGames) /\ CallShaped(c) /\ CallTells(c, dailyGames, dbDay)
      /\ c.step = "dated"
  BY <1>2 DEF TellInv, PlayInv, CallsKnow, CallKnows, Guessed
<1>4. /\ dailyGames \in AllGames /\ dailyGames' \in AllGames
      /\ dbDay \in Days /\ dbDay' \in Days
  BY <1>1, PlayNext DEF PlayInv, GamesSound
<1>5. c.cookie \in Accounts /\ c.input \in Inputs  BY <1>3 DEF CallKnows
<1>6. PICK conflict \in BOOLEAN :
        conflict = (c.input.acct # c.cookie \/ c.input.day # c.day \/ ~CanAdvance(c.cookie, c.input))
  OBVIOUS
<1>7. PICK n : n = [[c EXCEPT !.step = "written"] EXCEPT !.conflict = conflict]  OBVIOUS
<1>8. calls' = [calls EXCEPT ![t] = n] /\ UNCHANGED <<dbDay, tabs>>
  BY <1>2, <1>6, <1>7 DEF Guessed, PlayInv, CallsKnow, TellInv
<1>9. n.step = "written" /\ n.cookie = c.cookie /\ n.input = c.input /\ n.conflict = conflict
  BY <1>3, <1>7 DEF CallShaped
<1>10. CallTells(c, dailyGames', dbDay')
  BY <1>1, <1>3, <1>4, GamesGo, CallTellsOn DEF Goes
<1>11. c.input # NoGuess => Placed(c.input, dailyGames', dbDay')
  BY <1>10 DEF CallTells
<1>12. ASSUME Denied(n, n.cookie) PROVE c.input.day < dbDay \/ Overtaken(c.input, dailyGames')
  <2>1. c.input # NoGuess /\ conflict /\ c.input.acct = c.cookie  BY <1>9, <1>12 DEF Denied
  <2>2. UNCHANGED dailyGames  BY <1>2, <1>6, <2>1 DEF Guessed
  <2>3. /\ c.input.day \in Nat /\ c.day \in Nat /\ dbDay \in Nat
        /\ c.input.day <= c.day /\ c.day <= dbDay
    <3>1. c.day \in Days /\ c.input.day \in Days  BY <1>3, <1>5 DEF CallTells, Inputs
    <3>2. QED  BY <1>3, <1>4, <3>1, DaysAreNumbers DEF CallTells
  <2>4. CASE c.input.day # c.day
    <3>1. c.input.day < dbDay  BY <2>3, <2>4
    <3>2. QED  BY <3>1
  <2>5. CASE c.input.day = c.day
    <3>1. ~CanAdvance(c.cookie, c.input)  BY <1>6, <2>1, <2>5
    <3>2. PICK game \in Games : game = dailyGames[c.cookie][c.input.day]
      BY <1>4, <1>5 DEF AllGames, Inputs
    <3>3. Len(game.guesses) \in Nat /\ c.input.revision \in Nat  BY <1>5 DEF Games, Inputs
    <3>4. game.status # "NONE" /\ c.input.revision <= Len(game.guesses)
      BY <1>11, <2>1, <2>2, <3>2 DEF Placed
    <3>5. \/ c.input.day # dbDay \/ game.status # "IN_PROGRESS"
          \/ Len(game.guesses) # c.input.revision
      BY <3>1, <3>2 DEF CanAdvance
    <3>6. CASE c.input.day # dbDay
      <4>1. c.input.day < dbDay  BY <2>3, <3>6
      <4>2. QED  BY <4>1
    <3>7. CASE game.status # "IN_PROGRESS"
      <4>1. Finished(game)  BY <3>4, <3>7 DEF Games, Finished
      <4>2. QED  BY <2>1, <2>2, <3>2, <4>1 DEF Overtaken
    <3>8. CASE Len(game.guesses) # c.input.revision
      <4>1. c.input.revision < Len(game.guesses)  BY <3>3, <3>4, <3>8
      <4>2. QED  BY <2>1, <2>2, <3>2, <4>1 DEF Overtaken
    <3>9. QED  BY <3>5, <3>6, <3>7, <3>8
  <2>6. QED  BY <2>4, <2>5
<1>13. CallTells(n, dailyGames', dbDay')
  BY <1>8, <1>9, <1>11, <1>12 DEF CallTells
<1>14. QED  BY <1>1, <1>8, <1>13, OneTab, TellFollows

LEMMA ReadGameTells == ASSUME TellInv, NEW t \in Tabs, ReadGame(t) PROVE TellInv'
<1>1. [DailyNext]_dailyVars /\ PlayInv  BY DEF DailyNext, TellInv
<1>2. PICK c : c = calls[t]  OBVIOUS
<1>3. /\ CallKnows(c, dailyGames) /\ CallShaped(c) /\ CallTells(c, dailyGames, dbDay)
      /\ c.step = "written"
  BY <1>2 DEF TellInv, PlayInv, CallsKnow, CallKnows, ReadGame
<1>4. /\ dailyGames \in AllGames /\ dailyGames' \in AllGames
      /\ dbDay \in Days /\ dbDay' \in Days
  BY <1>1, PlayNext DEF PlayInv, GamesSound
<1>5. c.cookie \in Accounts /\ (c.input # NoGuess => c.input \in Inputs)
  BY <1>3 DEF CallKnows, CallShaped
<1>6. /\ dailyGames' = WithGame(c.cookie, dbDay) /\ UNCHANGED <<dbDay, tabs>>
  BY <1>2 DEF ReadGame
<1>7. PICK game \in Games : game = dailyGames'[c.cookie][dbDay]
  BY <1>4, <1>5 DEF AllGames
<1>8. PICK n : n = [[[c EXCEPT !.step = "read"] EXCEPT !.day = dbDay] EXCEPT !.game = game]
  OBVIOUS
<1>9. calls' = [calls EXCEPT ![t] = n]
  BY <1>2, <1>6, <1>7, <1>8 DEF ReadGame, PlayInv, CallsKnow, TellInv
<1>10. /\ n.step = "read" /\ n.cookie = c.cookie /\ n.input = c.input /\ n.game = game
       /\ n.conflict = c.conflict /\ n.day = dbDay
  BY <1>3, <1>8 DEF CallShaped
<1>11. CallTells(c, dailyGames', dbDay')
  BY <1>1, <1>3, <1>4, GamesGo, CallTellsOn DEF Goes
<1>12. c.input # NoGuess => Placed(c.input, dailyGames', dbDay')
  BY <1>11 DEF CallTells
<1>13. n.day <= dbDay'
  BY <1>4, <1>6, <1>10, DaysAreNumbers
<1>14. game.status # "NONE"
  <2>1. dailyGames[c.cookie] \in [Days -> Games]  BY <1>4, <1>5 DEF AllGames
  <2>2. PICK old \in Games : old = dailyGames[c.cookie][dbDay]  BY <1>4, <2>1
  <2>3. PICK new : new = IF old.status = "NONE"
                           THEN [status |-> "IN_PROGRESS", guesses |-> <<>>] ELSE old
    OBVIOUS
  <2>4. dailyGames' = [dailyGames EXCEPT ![c.cookie][dbDay] = new]
    BY <1>6, <2>2, <2>3 DEF WithGame
  <2>5. game = new  BY <1>4, <1>5, <1>7, <2>1, <2>4 DEF AllGames
  <2>6. QED  BY <2>3, <2>5
<1>15. ASSUME Denied(n, n.cookie), n.input.day = n.day
       PROVE  n.input.revision < Len(n.game.guesses)
                \/ (Finished(n.game) /\ n.game = dailyGames'[n.cookie][n.day])
  <2>1. Denied(c, c.cookie) /\ c.input.day = dbDay  BY <1>10, <1>15 DEF Denied
  <2>2. c.input.day < dbDay \/ Overtaken(c.input, dailyGames')
    BY <1>3, <1>6, <1>11, <2>1 DEF CallTells
  <2>3. ~(c.input.day < dbDay)  BY <1>4, <2>1, DaysAreNumbers
  <2>4. Overtaken(c.input, dailyGames')  BY <2>2, <2>3
  <2>5. c.input.acct = c.cookie  BY <2>1 DEF Denied
  <2>6. c.input.revision < Len(game.guesses) \/ Finished(game)
    BY <1>7, <2>1, <2>4, <2>5 DEF Overtaken
  <2>7. QED  BY <1>7, <1>10, <2>6
<1>16. CallTells(n, dailyGames', dbDay')
  BY <1>7, <1>10, <1>12, <1>13, <1>14, <1>15 DEF CallTells
<1>17. QED  BY <1>1, <1>6, <1>9, <1>16, OneTab, TellFollows

LEMMA AnswerTells == ASSUME TellInv, NEW t \in Tabs, Answer(t) PROVE TellInv'
<1>1. [DailyNext]_dailyVars /\ PlayInv  BY DEF DailyNext, TellInv
<1>2. PICK c : c = calls[t]  OBVIOUS
<1>3. /\ CallKnows(c, dailyGames) /\ CallShaped(c) /\ CallTells(c, dailyGames, dbDay)
      /\ c.step = "read" /\ dailyGames \in AllGames /\ dbDay \in Days
  BY <1>1, <1>2 DEF TellInv, PlayInv, CallsKnow, CallKnows, Answer, GamesSound
<1>4. /\ c.cookie \in Accounts /\ (c.input # NoGuess => c.input \in Inputs)
      /\ c.day \in Days /\ c.game \in Games
      /\ Shown(c.game.guesses, c.cookie, c.day, dailyGames)
      /\ c.day <= dbDay /\ dailyGames[c.cookie][c.day].status # "NONE"
  BY <1>3 DEF CallKnows, CallShaped, CallTells
<1>5. PICK stats : stats = History(dailyGames[c.cookie], c.day)  OBVIOUS
<1>6. PICK answer :
        answer = [acct |-> c.cookie, day |-> c.day, guesses |-> c.game.guesses,
                  status |-> c.game.status, stats |-> stats]
  OBVIOUS
<1>7. PICK rejected \in BOOLEAN :
        rejected = (c.conflict /\ (~Retry(c) \/ c.input.acct # c.cookie))
  <2>1. (c.conflict /\ (~Retry(c) \/ c.input.acct # c.cookie)) \in BOOLEAN  OBVIOUS
  <2>2. QED  BY <2>1
<1>8. PICK n : n = [[[[c EXCEPT !.step = "done"] EXCEPT !.conflict = rejected]
                       EXCEPT !.game = NoGame] EXCEPT !.answer = answer]
  OBVIOUS
<1>9. calls' = [calls EXCEPT ![t] = n] /\ UNCHANGED <<dbDay, dailyGames, tabs>>
  BY <1>2, <1>5, <1>6, <1>7, <1>8 DEF Answer, PlayInv, CallsKnow, TellInv
<1>10. n.step = "done" /\ n.input = c.input /\ n.conflict = rejected /\ n.answer = answer
  BY <1>3, <1>8 DEF CallShaped
<1>11. c.input # NoGuess => Placed(c.input, dailyGames, dbDay)  BY <1>3 DEF CallTells
<1>12. Told(answer, dailyGames, dbDay)  BY <1>4, <1>6 DEF Told
<1>13. StreakTold(answer, dailyGames, dbDay)
  <2>1. SUFFICES ASSUME c.day = dbDay
                 PROVE  \/ stats.streak = WinsEndingWith(dailyGames[c.cookie], c.day - 1)
                        \/ /\ Finished(dailyGames[c.cookie][c.day])
                           /\ stats.streak = WinsEndingWith(dailyGames[c.cookie], c.day)
    BY <1>6 DEF StreakTold
  <2>2. \A d \in Days : d > c.day => ~Finished(dailyGames[c.cookie][d])
    BY <1>1, <1>4, <2>1 DEF PlayInv, GamesSound, Finished
  <2>3. QED  BY <1>4, <1>5, <2>2, StreakIsTrue
<1>14. ASSUME Denied(n, answer.acct), n.input.day = answer.day
       PROVE  Overtaken(c.input, dailyGames) /\ ~IsIn(c.input, dailyGames)
  <2>1. /\ c.input # NoGuess /\ c.input.acct = c.cookie /\ c.input.day = c.day
        /\ c.conflict /\ ~Retry(c)
    <3>1. c.input # NoGuess /\ rejected /\ c.input.acct = answer.acct /\ c.input.day = answer.day
      BY <1>10, <1>14 DEF Denied
    <3>2. answer.acct = c.cookie /\ answer.day = c.day  BY <1>6
    <3>3. c.conflict /\ (~Retry(c) \/ c.input.acct # c.cookie)  BY <1>7, <3>1, Zenon
    <3>4. QED  BY <3>1, <3>2, <3>3
  <2>2. \/ c.input.revision < Len(c.game.guesses)
        \/ Finished(c.game) /\ c.game = dailyGames[c.cookie][c.day]
    BY <1>3, <2>1 DEF CallTells, Denied
  <2>3. PICK game \in Games : game = dailyGames[c.cookie][c.day]
    BY <1>3, <1>4 DEF AllGames
  <2>4. /\ Len(c.game.guesses) \in Nat /\ Len(game.guesses) \in Nat
        /\ c.input.revision \in Nat
    BY <1>4, <2>1 DEF Games, Inputs
  <2>5. CASE c.input.revision < Len(c.game.guesses)
    <3>1. c.game.guesses[c.input.revision + 1] # c.input.word
      BY <2>1, <2>5 DEF Retry
    <3>2. /\ Len(c.game.guesses) <= Len(game.guesses)
          /\ \A i \in 1..Len(c.game.guesses) : c.game.guesses[i] = game.guesses[i]
      BY <1>4, <2>3 DEF Shown
    <3>3. c.input.revision + 1 \in 1..Len(c.game.guesses) /\ c.input.revision < Len(game.guesses)
      BY <2>4, <2>5, <3>2
    <3>4. game.guesses[c.input.revision + 1] # c.input.word  BY <3>1, <3>2, <3>3
    <3>5. QED  BY <2>1, <2>3, <3>3, <3>4 DEF Overtaken, IsIn
  <2>6. CASE ~(c.input.revision < Len(c.game.guesses))
    <3>1. Finished(game) /\ ~(c.input.revision < Len(game.guesses))
      BY <2>2, <2>3, <2>6
    <3>2. QED  BY <2>1, <2>3, <3>1 DEF Overtaken, IsIn
  <2>7. QED  BY <2>5, <2>6
<1>15. CallTells(n, dailyGames', dbDay')
  BY <1>9, <1>10, <1>11, <1>12, <1>13, <1>14 DEF CallTells
<1>16. QED  BY <1>1, <1>9, <1>15, OneTab, TellFollows

LEMMA ReceiveTells == ASSUME TellInv, NEW t \in Tabs, Receive(t) PROVE TellInv'
<1>1. [DailyNext]_dailyVars /\ PlayInv  BY DEF DailyNext, TellInv
<1>2. PICK c : c = calls[t]  OBVIOUS
<1>3. /\ CallTells(c, dailyGames, dbDay) /\ c.step = "done"
      /\ TabTells(tabs[t], dailyGames, dbDay)
  BY <1>2 DEF TellInv, Receive
<1>4. calls' = [calls EXCEPT ![t] = Idle] /\ UNCHANGED <<dbDay, dailyGames>>
  BY DEF Receive
<1>5. CallTells(Idle, dailyGames', dbDay')  BY IdleTells
<1>6. TabTells([ClosedTab EXCEPT !.status = "signed-out"], dailyGames', dbDay')  BY ClosedTells
<1>7. c.answer # SignedOutAnswer =>
        TabTells([status |-> "ready", current |-> Progress(c.answer), pending |-> NoGuess],
                 dailyGames', dbDay')
  <2>1. SUFFICES ASSUME c.answer # SignedOutAnswer
                 PROVE  Told(Progress(c.answer), dailyGames, dbDay)
    BY <1>4 DEF TabTells
  <2>2. Told(c.answer, dailyGames, dbDay)  BY <1>3, <2>1 DEF CallTells
  <2>3. QED  BY <2>2 DEF Told, Progress
<1>8. TabTells(tabs[t], dailyGames', dbDay')  BY <1>3, <1>4
<1>9. PICK new : tabs' = [tabs EXCEPT ![t] = new] /\ TabTells(new, dailyGames', dbDay')
  <2>1. CASE c.answer = SignedOutAnswer
    <3>1. tabs' = [tabs EXCEPT ![t] = [ClosedTab EXCEPT !.status = "signed-out"]]
      BY <1>2, <2>1 DEF Receive
    <3>2. QED  BY <1>6, <3>1
  <2>2. CASE c.answer # SignedOutAnswer /\ Older(c.answer, tabs[t].current)
    <3>1. tabs' = [tabs EXCEPT ![t] = tabs[t]]
      BY <1>2, <2>2 DEF Receive
    <3>2. QED  BY <1>8, <3>1
  <2>3. CASE c.answer # SignedOutAnswer /\ ~Older(c.answer, tabs[t].current)
    <3>1. tabs' = [tabs EXCEPT ![t] =
                     [status |-> "ready", current |-> Progress(c.answer), pending |-> NoGuess]]
      BY <1>2, <2>3 DEF Receive
    <3>2. QED  BY <1>7, <2>3, <3>1
  <2>4. QED  BY <2>1, <2>2, <2>3
<1>10. QED  BY <1>1, <1>4, <1>5, <1>9, OneTab, TellFollows

LEMMA TellInit == DailyInit => TellInv
<1> SUFFICES ASSUME DailyInit PROVE TellInv  OBVIOUS
<1>1. \A t \in Tabs : calls[t] = Idle /\ tabs[t] = ClosedTab  BY DEF DailyInit
<1>2. QED  BY <1>1, PlayInit, IdleTells, ClosedTells DEF TellInv

LEMMA TellNext == TellInv /\ [DailyNext]_dailyVars => TellInv'
<1> SUFFICES ASSUME TellInv, [DailyNext]_dailyVars PROVE TellInv'  OBVIOUS
<1>1. CASE UNCHANGED <<calls, tabs>>
  <2>1. \A t \in Tabs : calls'[t] = calls[t] /\ tabs'[t] = tabs[t]  BY <1>1
  <2>2. QED  BY <2>1, TellFollows
<1>2. Midnight => UNCHANGED <<calls, tabs>>  BY DEF Midnight
<1>3. ASSUME NEW a PROVE SignIn(a) => UNCHANGED <<calls, tabs>>  BY DEF SignIn
<1>4. ASSUME NEW a, NEW w PROVE OtherDevice(a, w) => UNCHANGED <<calls, tabs>>
  BY DEF OtherDevice
<1>5. ASSUME NEW s PROVE StrayGuess(s) => UNCHANGED <<calls, tabs>>  BY DEF StrayGuess
<1>14. ASSUME NEW a, NEW totals PROVE SaveUnlimited(a, totals) => UNCHANGED <<calls, tabs>>
  BY DEF SaveUnlimited
<1>6. UNCHANGED dailyVars => UNCHANGED <<calls, tabs>>  BY DEF dailyVars
<1>7. ASSUME NEW t \in Tabs,
             \/ OpenTab(t) \/ CloseTab(t) \/ Refresh(t) \/ \E w \in Words : SubmitDraft(t, w)
             \/ \E arrives \in BOOLEAN : GiveUp(t, arrives)
      PROVE  TellInv'
  BY <1>7, TabStepTells
<1>8. ASSUME NEW t \in Tabs, Accept(t) PROVE TellInv'  BY <1>8, AcceptTells
<1>9. ASSUME NEW t \in Tabs, Guessed(t) PROVE TellInv'  BY <1>9, GuessedTells
<1>10. ASSUME NEW t \in Tabs, ReadGame(t) PROVE TellInv'  BY <1>10, ReadGameTells
<1>11. ASSUME NEW t \in Tabs, Answer(t) PROVE TellInv'  BY <1>11, AnswerTells
<1>12. ASSUME NEW t \in Tabs, Receive(t) PROVE TellInv'  BY <1>12, ReceiveTells
<1>13. QED
  BY <1>1, <1>2, <1>3, <1>4, <1>5, <1>6, <1>7, <1>8, <1>9, <1>10, <1>11, <1>12,
     <1>14 DEF DailyNext

LEMMA TellHolds == DailySpec => []TellInv
<1>1. QED  BY TellInit, TellNext, PTL DEF DailySpec

LEMMA ShownIsBeginning ==
  ASSUME NEW s \in Seq(Words), NEW u \in Seq(Words), Len(u) <= Len(s),
         \A i \in 1..Len(u) : u[i] = s[i]
  PROVE  u = SubSeq(s, 1, Len(u))
<1>1. Len(u) \in Nat /\ Len(s) \in Nat  OBVIOUS
<1>2. SubSeq(s, 1, Len(u)) = [i \in 1..Len(u) |-> s[i]]
  BY <1>1
<1>3. u = [i \in 1..Len(u) |-> u[i]]  OBVIOUS
<1>4. QED  BY <1>2, <1>3

LEMMA TellTruth == TellInv => AnswersTruthful
<1> SUFFICES ASSUME TellInv PROVE AnswersTruthful  OBVIOUS
<1>1. AcceptedIsRecorded  BY AcceptedRecorded DEF TellInv
<1>2. ASSUME NEW t \in Tabs, NEW c, c = calls[t], NEW a, a = c.answer,
             c.step = "done", a # SignedOutAnswer
      PROVE  /\ c.input # NoGuess /\ c.conflict /\ c.input.acct = a.acct /\ c.input.day = a.day =>
                  ~Recorded(c.input)
             /\ a.guesses = SubSeq(dailyGames[a.acct][a.day].guesses, 1, Len(a.guesses))
             /\ \A n \in DOMAIN a.guesses :
                  TilesTellTheTruth(TargetOf[a.day], a.guesses[n], Evaluations(a)[n])
             /\ KeysTellTheTruth(a.guesses, Evaluations(a), Keys(a))
             /\ a.day = dbDay =>
                  a.stats.streak \in {WinsEndingWith(dailyGames[a.acct], a.day),
                                      WinsEndingWith(dailyGames[a.acct], a.day - 1)}
  <2>1. /\ CallKnows(c, dailyGames) /\ CallTells(c, dailyGames, dbDay)
        /\ dailyGames \in AllGames
    BY <1>2 DEF TellInv, PlayInv, CallsKnow, GamesSound
  <2>2. a.acct \in Accounts /\ a.day \in Days /\ a.guesses \in Seq(Words)
    BY <1>2, <2>1 DEF CallKnows, Progress, Snapshots
  <2>3. Told(a, dailyGames, dbDay) /\ StreakTold(a, dailyGames, dbDay)
    BY <1>2, <2>1 DEF CallTells
  <2>4. c.input # NoGuess /\ c.conflict /\ c.input.acct = a.acct /\ c.input.day = a.day =>
          ~Recorded(c.input)
    <3>1. SUFFICES ASSUME c.input # NoGuess, c.conflict, c.input.acct = a.acct,
                          c.input.day = a.day
                   PROVE  ~IsIn(c.input, dailyGames)
      BY DEF Recorded, IsIn
    <3>2. QED  BY <1>2, <2>1, <3>1 DEF CallTells, Denied
  <2>5. a.guesses = SubSeq(dailyGames[a.acct][a.day].guesses, 1, Len(a.guesses))
    <3>1. PICK game \in Games : game = dailyGames[a.acct][a.day]
      BY <2>1, <2>2 DEF AllGames
    <3>2. game.guesses \in Seq(Words)  BY DEF Games
    <3>3. /\ Len(a.guesses) <= Len(game.guesses)
          /\ \A i \in 1..Len(a.guesses) : a.guesses[i] = game.guesses[i]
      BY <2>3, <3>1 DEF Told, Shown
    <3>4. a.guesses = SubSeq(game.guesses, 1, Len(a.guesses))
      BY <2>2, <3>2, <3>3, ShownIsBeginning
    <3>5. QED  BY <3>1, <3>4
  <2>6. Words \subseteq Word /\ TargetOf[a.day] \in Word /\ DOMAIN a.guesses = 1..Len(a.guesses)
    BY <2>2, PuffdleGameAssumption, DailyPuffdleAssumption
  <2>7. \A n \in 1..Len(a.guesses) : a.guesses[n] \in Word
    BY <2>2, <2>6
  <2>8. PICK rows : rows = Evaluations(a)  OBVIOUS
  <2>9. /\ DOMAIN rows = 1..Len(a.guesses)
        /\ rows = [n \in 1..Len(a.guesses) |-> rows[n]]
        /\ \A n \in 1..Len(a.guesses) : rows[n] = EvaluateGuess(TargetOf[a.day], a.guesses[n])
    BY <2>6, <2>8 DEF Evaluations
  <2>10. \A n \in 1..Len(a.guesses) :
           /\ rows[n] \in [Positions -> Tile]
           /\ TilesTellTheTruth(TargetOf[a.day], a.guesses[n], rows[n])
    BY <2>6, <2>7, <2>9, TilesAreTrue
  <2>11. rows \in [1..Len(a.guesses) -> [Positions -> Tile]]  BY <2>9, <2>10
  <2>12. KeysTellTheTruth(a.guesses, rows, KeyboardAfter(a.guesses, rows))
    <3>1. a.guesses \in Seq(Word)  BY <2>2, <2>6
    <3>2. QED  BY <2>11, <3>1, KeysAreTrue
  <2>13. a.day = dbDay =>
           a.stats.streak \in {WinsEndingWith(dailyGames[a.acct], a.day),
                               WinsEndingWith(dailyGames[a.acct], a.day - 1)}
    BY <2>3 DEF StreakTold
  <2>14. Keys(a) = KeyboardAfter(a.guesses, rows)  BY <2>8 DEF Keys
  <2>15. QED  BY <2>4, <2>5, <2>6, <2>8, <2>10, <2>12, <2>13, <2>14
<1>3. QED  BY <1>1, <1>2 DEF AnswersTruthful

(* What a tab is told is so, whatever else was played, retried, given up or   *)
(* cut off: an accepted guess is recorded; a refused one is not in the game   *)
(* the tab is shown, since only a later day, a longer game or a finished one  *)
(* is refused, and none of them goes back; the guesses shown begin the        *)
(* account's game; and the tiles, the keys and the streak of the answer are   *)
(* those that its definition by counting asks for.                            *)
THEOREM AnswersAreTruthful == DailySpec => []AnswersTruthful
<1>1. QED  BY TellTruth, TellHolds, PTL
=============================================================================
