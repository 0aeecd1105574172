-------------------------------- MODULE Pictures --------------------------------
(***************************************************************************)
(* A picture of a member page, from the file that is picked to the object  *)
(* the page shows: the uploads of the asset library (AssetUploads), the    *)
(* question whether a file is one still picture (ImageInspection), and the *)
(* reads that answer it of the object in the store (AssetVerification).    *)
(* The three share no state; here is what they promise together.           *)
(***************************************************************************)
EXTENDS AssetUploads, ImageInspection, AssetVerification

PicturesSpec == UploadsSpec /\ ImagesSpec /\ VerificationSpec
-----------------------------------------------------------------------------
\* Every picture picked is accounted for, and what is taken as one still picture
\* is one, in the very object whose identity is recorded.
PicturesAccounted ==
  /\ UploadsAccounted
  /\ VerdictsSound
  /\ VerifiedIsStatic
=============================================================================
