---------------------------- MODULE ImageInspection ----------------------------
(***************************************************************************)
(* Is an uploaded file one still picture?  src/lib/members/assets/         *)
(* animation.ts walks the container of a PNG, WebP or AVIF file, verify.ts *)
(* and dimensions.ts the markers of a JPEG.  A file is the sequence of its *)
(* parts (chunks, boxes, markers), read one by one; a behaviour of this    *)
(* module is one file, and ends with the verdict.                          *)
(*                                                                         *)
(* A part has its kind, whether it is whole (in the bytes, with its        *)
(* checksum and the lengths and reserved bits its kind asks for), whether  *)
(* it fits (a WebP image has the size of the canvas, a JPEG frame header   *)
(* has sound fields), what it says (the flags of VP8X, the alpha bit of    *)
(* VP8L, the brands of ftyp), the content of a meta box, and whether the   *)
(* file ends with it.  Why a file is uncertain is left out.                *)
(***************************************************************************)
EXTENDS Integers, Sequences, FiniteSets, Functions

CONSTANTS
  MaxParts,   \* bound on the parts of a file of each format
  MaxRest,    \* the same, of a file whose first parts were refused
  MaxEntries, \* MAX_CONTAINER_ENTRIES; of a JPEG the limit of its own
  Metas,      \* the contents of a meta box, see MetaIsStill
  NoMeta      \* of every other part

VARIABLES
  format,     \* of the file, by its signature
  read,       \* the parts read so far
  seen,       \* the parser's flags
  verdict     \* "undecided" while it reads

imageVars == <<format, read, seen, verdict>>

\* What a meta box holds: how often each required child is there, and what the
\* children say; "grid" stands for every other type of item.
Required == {"hdlr", "pitm", "iloc", "iinf", "iprp"}
Items == [id : Nat, type : {"av01", "Exif", "grid"}]
Extents == [method : Nat, inside : BOOLEAN, elsewhere : BOOLEAN]
MetaBox ==
  [children : [Required -> Nat], idats : Nat, known : BOOLEAN, pict : BOOLEAN, primary : Nat,
   items : Seq(Items), locations : Seq([id : Nat, extents : Seq(Extents)]),
   sizes : Seq(BOOLEAN), associations : Seq([item : Nat, property : Nat, essential : BOOLEAN])]

ASSUME ImagesAssumption ==
  /\ Metas \subseteq MetaBox
  /\ MaxEntries \in [{"png", "webp", "jpeg", "avif"} -> Nat]

Features == {"ICCP", "alpha", "EXIF", "XMP"}

Kinds ==
  [png  |-> {"IHDR", "PLTE", "IDAT", "IEND", "acTL", "fcTL", "critical", "ancillary"},
   webp |-> {"VP8X", "VP8", "VP8L", "ALPH", "ICCP", "EXIF", "XMP", "ANIM", "unknown"},
   jpeg |-> {"SOF", "SOS", "RST", "EOI", "segment", "reserved"},
   avif |-> {"ftyp", "meta", "mdat", "free", "moov", "unknown"}]

SaysOf(kind) ==
  CASE kind = "VP8X" -> (SUBSET Features) \cup {{"animation"}}
    [] kind = "VP8L" -> {{}, {"alpha"}}
    [] kind = "ftyp" -> {{"avif"}, {"avif", "avis"}, {"mif1"}}
    [] OTHER         -> {{}}

OnlyOne(kind) == \A i \in DOMAIN read : read[i].kind # kind

\* Nothing looks into a second meta box.
PartsOf(kind) ==
  [kind : {kind}, whole : BOOLEAN, last : BOOLEAN, says : SaysOf(kind),
   fits : IF kind \in {"VP8", "VP8L", "SOF"} THEN BOOLEAN ELSE {TRUE},
   meta : IF kind = "meta" /\ OnlyOne(kind) THEN Metas ELSE {NoMeta}]

ImagesInit ==
  /\ format \in DOMAIN Kinds
  /\ read = <<>> /\ seen = {} /\ verdict = "undecided"

ClosesAs(still) == IF still THEN "static" ELSE "uncertain"
-----------------------------------------------------------------------------
(* PNG: chunks with flags, until IEND or the first chunk that is refused.  *)

PngMarks(part) ==
  IF part.kind \in {"IHDR", "PLTE", "IDAT"} THEN {part.kind}
  ELSE {"ended" : mark \in seen \cap {"IDAT"}}

PngVerdict(part) ==
  IF ~part.whole \/ ((part.kind = "IHDR") <=> ("IHDR" \in seen)) THEN "uncertain"
  ELSE IF part.kind = "acTL" THEN "animated"
  ELSE IF \/ part.kind \in {"fcTL", "critical"}
          \/ part.kind = "PLTE" /\ seen \cap {"PLTE", "IDAT"} # {}
          \/ part.kind = "IDAT" /\ "ended" \in seen THEN "uncertain"
  ELSE IF part.kind = "IEND" THEN ClosesAs("IDAT" \in seen /\ part.last)
  ELSE IF part.last THEN "uncertain" ELSE "undecided"
-----------------------------------------------------------------------------
(* WebP: one image, alone or under a VP8X header whose flags must be what  *)
(* the chunks around the image turn out to be.                             *)

WebPMarks(part) ==
  CASE part.kind \in {"VP8", "VP8L"} ->
         {"image"} \cup part.says \cup (IF part.fits THEN {"fits"} ELSE {})
    [] part.kind = "ALPH" -> {"alpha", "ALPH"}
    [] part.kind = "VP8X" -> {"VP8X"}
    [] OTHER -> {part.kind}

WebPRefuses(part) ==
  \/ part.kind = "unknown"
  \/ ~part.whole
  \/ part.kind = "VP8X" /\ read # <<>>
  \/ part.kind = "ALPH" /\ ("VP8X" \notin seen \/ seen \cap {"ALPH", "image"} # {})
  \/ part.kind \in {"VP8", "VP8L"} /\ ("image" \in seen \/ ("VP8X" \notin seen /\ read # <<>>))
  \/ part.kind = "VP8L" /\ "ALPH" \in seen
  \/ part.kind = "ICCP" /\ ("VP8X" \notin seen \/ seen \cap {"ICCP", "image"} # {})
  \/ part.kind \in {"EXIF", "XMP"} /\ (part.kind \in seen \/ {"VP8X", "image"} \ seen # {})

WebPEnds(parts, marks) ==
  /\ "image" \in marks
  /\ "VP8X" \notin marks => Len(parts) = 1
  /\ "VP8X" \in marks => "fits" \in marks /\ parts[1].says = marks \cap Features

WebPVerdict(part) ==
  IF part.kind = "ANIM" /\ part.whole THEN "animated"
  ELSE IF WebPRefuses(part) THEN "uncertain"
  ELSE IF "animation" \in part.says THEN "animated"
  ELSE IF part.last THEN ClosesAs(WebPEnds(Append(read, part), seen \cup WebPMarks(part)))
  ELSE "undecided"
-----------------------------------------------------------------------------
(* JPEG: markers to EOI, entropy-coded data skipped, then a second pass    *)
(* that looks for the frame header.  "RST" is a restart marker or a        *)
(* stuffed byte: the parser takes either only in a scan, and counts both.  *)

JpegMarks(part) ==
  CASE part.kind = "SOS" -> {"SOS", "inScan"}
    [] part.kind = "SOF" -> {"SOF"}
    [] OTHER -> {}

HasFrameHeader(parts) ==
  \E i \in DOMAIN parts :
    /\ parts[i].kind = "SOF" /\ parts[i].fits
    /\ \A j \in 1..(i - 1) : parts[j].kind = "segment"

JpegVerdict(part) ==
  IF \/ ~part.whole \/ part.kind = "reserved"
     \/ part.kind = "SOF" /\ "SOF" \in seen
     \/ part.kind = "RST" /\ "inScan" \notin seen THEN "uncertain"
  ELSE IF part.kind = "EOI"
    THEN ClosesAs({"SOF", "SOS"} \subseteq seen /\ part.last /\ HasFrameHeader(read))
  ELSE IF part.last THEN "uncertain" ELSE "undecided"
-----------------------------------------------------------------------------
(* AVIF: all boxes first, then the brands, then the one meta box: one      *)
(* coded item, the primary one, whose bytes lie in this file and whose     *)
(* size is the only one declared.                                          *)

\* parseItemInfo and parsePrimaryItemLocation: no id twice, none of them 0.
UniqueIds(parts) ==
  /\ \A i \in DOMAIN parts : parts[i].id # 0
  /\ IsInjective([i \in DOMAIN parts |-> parts[i].id])

ItemsAreStill(meta) ==
  /\ UniqueIds(meta.items)
  /\ LET images == {i \in DOMAIN meta.items : meta.items[i].type = "av01"}
     IN  \E i \in images : images = {i} /\ meta.items[i].id = meta.primary
  /\ \A i \in DOMAIN meta.items : meta.items[i].type \in {"av01", "Exif"}

\* An extent in the file lies in one of its mdat boxes, one in the meta box in
\* its idat box, and none refers to another file.
ExtentWithin(extent, mdats, idats) ==
  /\ ~extent.elsewhere
  /\ extent.method = 0 => mdats > 0 /\ extent.inside
  /\ extent.method = 1 => idats > 0 /\ extent.inside

LocationsAreSound(meta, mdats) ==
  /\ UniqueIds(meta.locations)
  /\ \A i \in DOMAIN meta.locations :
       \A e \in Range(meta.locations[i].extents) : e.method \in {0, 1}
  /\ \A i \in DOMAIN meta.locations : meta.locations[i].extents # <<>>
  /\ \E i \in DOMAIN meta.locations :
       /\ meta.locations[i].id = meta.primary
       /\ \A e \in Range(meta.locations[i].extents) : ExtentWithin(e, mdats, meta.idats)

\* The entries of ipma in their order: the size found so far, and whether the
\* loop has failed.
Associate(meta, state, a) ==
  IF a.property \notin DOMAIN meta.sizes THEN [state EXCEPT !.failed = TRUE]
  ELSE IF a.item = meta.primary /\ meta.sizes[a.property]
    THEN [size |-> a.property, failed |-> state.failed \/ ~a.essential \/ state.size # 0]
  ELSE state

PropertiesAreSound(meta) ==
  LET found[n \in 0..Len(meta.associations)] ==
        IF n = 0 THEN [size |-> 0, failed |-> FALSE]
        ELSE Associate(meta, found[n - 1], meta.associations[n])
      all == found[Len(meta.associations)]
  IN  ~all.failed /\ all.size # 0 /\ Cardinality({i \in DOMAIN meta.sizes : meta.sizes[i]}) = 1

\* The entries of each table of a meta box, and all extents together.
WithinTables(meta) ==
  /\ \A entries \in {Len(meta.items), Len(meta.locations), Len(meta.sizes), Len(meta.associations)} :
       entries <= MaxEntries["avif"]
  /\ LET extents == [i \in DOMAIN meta.locations |-> Len(meta.locations[i].extents)]
     IN  FoldFunction(+, 0, extents) <= MaxEntries["avif"]

MetaIsStill(meta, mdats) ==
  /\ \A child \in Required : meta.children[child] = 1
  /\ meta.idats <= 1 /\ meta.known
  /\ meta.pict /\ meta.primary # 0
  /\ ItemsAreStill(meta)
  /\ LocationsAreSound(meta, mdats)
  /\ PropertiesAreSound(meta)
  /\ WithinTables(meta)

Of(kind, parts) == {i \in DOMAIN parts : parts[i].kind = kind}

AvifVerdict(parts) ==
  IF (\E i \in DOMAIN parts : ~parts[i].whole) \/ Of("ftyp", parts) # {1} THEN "uncertain"
  ELSE IF "avis" \in parts[1].says THEN "animated"
  ELSE IF "avif" \notin parts[1].says THEN "uncertain"
  ELSE IF Of("moov", parts) # {} THEN "animated"
  ELSE IF Of("unknown", parts) # {} \/ Cardinality(Of("meta", parts)) # 1 THEN "uncertain"
  ELSE ClosesAs(\A i \in Of("meta", parts) :
                  MetaIsStill(parts[i].meta, Cardinality(Of("mdat", parts))))
-----------------------------------------------------------------------------
Marks(part) ==
  CASE format = "png"  -> seen \cup PngMarks(part)
    [] format = "webp" -> seen \cup WebPMarks(part)
    [] format = "jpeg" ->
         (IF part.kind = "RST" THEN seen ELSE seen \ {"inScan"}) \cup JpegMarks(part)
    [] format = "avif" -> {}

Verdict(part) ==
  CASE format = "png"  -> PngVerdict(part)
    [] format = "webp" -> WebPVerdict(part)
    [] format = "jpeg" -> JpegVerdict(part)
    [] format = "avif" -> IF part.last THEN AvifVerdict(Append(read, part)) ELSE "undecided"

\* The parser takes the next part of the file, unless it has had too many.
ReadPart(part) ==
  /\ verdict = "undecided"
  /\ Len(read) < MaxParts[format]
  /\ read' = Append(read, part)
  /\ seen' = Marks(part)
  /\ verdict' = IF Len(read) >= MaxEntries[format] THEN "uncertain" ELSE Verdict(part)
  /\ UNCHANGED format

\* What comes after a part that was refused; the parser does not look at it.
Rest(part) ==
  /\ verdict = "uncertain"
  /\ Len(read) < MaxRest[format]
  /\ \A i \in DOMAIN read : read[i].whole /\ ~read[i].last
  /\ part.whole
  /\ read' = Append(read, part)
  /\ UNCHANGED <<format, seen, verdict>>

ImagesNext ==
  \E kind \in Kinds[format] : \E part \in PartsOf(kind) : ReadPart(part) \/ Rest(part)

ImagesSpec == ImagesInit /\ [][ImagesNext]_imageVars
-----------------------------------------------------------------------------
(* What one still picture is, said of the whole file at once.              *)

StillPng(parts) ==
  LET header == Of("IHDR", parts)
      palette == Of("PLTE", parts)
      data == Of("IDAT", parts)
  IN  /\ header = {1} /\ Of("IEND", parts) = {Len(parts)}
      /\ data # {} /\ \A i, j \in data : i..j \subseteq data
      /\ \A i \in palette, j \in palette \cup data : i <= j
      /\ \A i \in DOMAIN parts : parts[i].kind \notin {"acTL", "fcTL", "critical"}

Around(image, parts) ==
  /\ \A kind \in {"ALPH", "ICCP", "EXIF", "XMP"} : Cardinality(Of(kind, parts)) <= 1
  /\ \A i \in Of("ALPH", parts) \cup Of("ICCP", parts) : 1 < i /\ i < image
  /\ \A i \in Of("EXIF", parts) \cup Of("XMP", parts) : i > image
  /\ parts[image].kind = "VP8L" => Of("ALPH", parts) = {}

StillWebP(parts) ==
  \E image \in DOMAIN parts :
    /\ Of("VP8", parts) \cup Of("VP8L", parts) = {image}
    /\ Of("ANIM", parts) \cup Of("unknown", parts) = {}
    /\ \/ Len(parts) = 1
       \/ /\ Of("VP8X", parts) = {1} /\ parts[image].fits /\ Around(image, parts)
          /\ \A feature \in Features \cup {"animation"} : feature \in parts[1].says <=>
               \/ Of(feature, parts) # {}
               \/ feature = "alpha" /\ (Of("ALPH", parts) # {} \/ feature \in parts[image].says)

StillJpeg(parts) ==
  \E frame \in DOMAIN parts :
    /\ Of("SOF", parts) = {frame} /\ parts[frame].fits
    /\ Of("EOI", parts) = {Len(parts)}
    /\ Of("SOS", parts) # {} /\ \A i \in Of("SOS", parts) : i > frame
    /\ \A i \in Of("RST", parts) : i > 1 /\ parts[i - 1].kind \in {"SOS", "RST"}
    /\ Of("reserved", parts) = {}

\* Besides its Exif data a meta box has one item, a coded picture, the primary one.
OnePicture(meta) ==
  LET with(id) == {k \in DOMAIN meta.items : meta.items[k].id = id}
  IN  /\ \E k \in DOMAIN meta.items :
           /\ {j \in DOMAIN meta.items : meta.items[j].type # "Exif"} = {k}
           /\ meta.items[k] = [id |-> meta.primary, type |-> "av01"]
      /\ with(0) = {} /\ \A k \in DOMAIN meta.items : with(meta.items[k].id) = {k}

\* Every byte of it is in this file, in a mdat box (there is data) or in idat.
FoundInFile(meta, data) ==
  LET located(id) == {k \in DOMAIN meta.locations : meta.locations[k].id = id}
  IN  /\ located(0) = {} /\ \A k \in DOMAIN meta.locations : located(meta.locations[k].id) = {k}
      /\ located(meta.primary) # {}
      /\ \A k \in DOMAIN meta.locations :
           /\ meta.locations[k].extents # <<>>
           /\ \A e \in Range(meta.locations[k].extents) :
                /\ e.method \in {0, 1}
                /\ k \in located(meta.primary) =>
                     /\ e.inside /\ ~e.elsewhere
                     /\ IF e.method = 0 THEN data ELSE meta.idats = 1

\* It has the one size that is declared.
OneSize(meta) ==
  LET sizes == {k \in DOMAIN meta.sizes : meta.sizes[k]}
      own == {k \in DOMAIN meta.associations : meta.associations[k].item = meta.primary
                                           /\ meta.associations[k].property \in sizes}
  IN  /\ Cardinality(sizes) = 1 /\ Cardinality(own) = 1
      /\ \A k \in DOMAIN meta.associations :
           /\ meta.associations[k].property \in DOMAIN meta.sizes
           /\ k \in own => meta.associations[k].essential

StillAvif(parts) ==
  /\ Of("ftyp", parts) = {1} /\ parts[1].says = {"avif"}
  /\ Of("moov", parts) \cup Of("unknown", parts) = {}
  /\ \E i \in DOMAIN parts :
       /\ Of("meta", parts) = {i}
       /\ Range(parts[i].meta.children) = {1}
       /\ parts[i].meta.known /\ parts[i].meta.pict /\ parts[i].meta.idats \in {0, 1}
       /\ OnePicture(parts[i].meta)
       /\ FoundInFile(parts[i].meta, Of("mdat", parts) # {})
       /\ OneSize(parts[i].meta)

IsStill(parts) ==
  /\ \A i \in DOMAIN parts : parts[i].whole /\ (parts[i].last <=> i = Len(parts))
  /\ CASE format = "png"  -> StillPng(parts)
       [] format = "webp" -> StillWebP(parts)
       [] format = "jpeg" -> StillJpeg(parts)
       [] format = "avif" -> StillAvif(parts)

\* It has no more parts, nor its meta box more entries, than the parser reads.
WithinLimits(parts) ==
  /\ Len(parts) <= MaxEntries[format]
  /\ \A i \in Of("meta", parts) : WithinTables(parts[i].meta)

\* A parser that sees a file once, part by part, calls static exactly the still
\* pictures within its limits, and animated only a file that says it moves: no
\* part that is refused early is one such a picture could have had there.
VerdictsSound ==
  /\ verdict = "static" => IsStill(read) /\ WithinLimits(read)
  /\ verdict \in {"animated", "uncertain"} => ~(IsStill(read) /\ WithinLimits(read))
  /\ verdict = "animated" =>
       \E i \in DOMAIN read : \/ read[i].kind \in {"acTL", "ANIM", "moov"}
                             \/ read[i].says \cap {"animation", "avis"} # {}
=============================================================================
