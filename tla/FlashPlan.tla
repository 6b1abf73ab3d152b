------------------------------ MODULE FlashPlan ------------------------------
(***************************************************************************)
(* What a fastboot session promises about the flash of the device: the     *)
(* images of the package are written one after the other, in the order of  *)
(* the package, and an image is only ever started when every image before  *)
(* it that had to be downloaded is in place.  A write either puts the image *)
(* in its partition, whole if Exact, or leaves the partition torn; after a *)
(* torn write nothing else of the package may be touched.                  *)
(*                                                                         *)
(* The detailed specification Fastboot implements this one: the command    *)
(* queue, the command/response exchange over USB, INFO messages, failures  *)
(* and unplugging are all below this level.                                *)
(***************************************************************************)
EXTENDS Integers

CONSTANTS
    NImages,  \* number of images of the package, in the order of the package
    Need,     \* the images whose need_download flag is set
    Size,     \* the size in bytes of each image
    Exact     \* FALSE: an image may be cut short, by a device that takes less of it

VARIABLE content   \* what each partition of the device holds

Images == 1..NImages

\* A blob is a run of bytes together with the image it was cut from; image 0 is
\* the firmware the device came with and -1 stands for a torn write.
Blob == [img : {-1} \cup {0} \cup Images, bytes : Nat]
Stale == [img |-> 0, bytes |-> 0]
Torn == [img |-> -1, bytes |-> 0]
Whole(i) == [img |-> i, bytes |-> Size[i]]

\* What a partition may hold of image i when it is in place.
Copies(i) == IF Exact THEN {Whole(i)} ELSE {[img |-> i, bytes |-> n] : n \in 0..Size[i]}

PlanInit == content = [i \in Images |-> Stale]

WritePartition(i) ==
    /\ i \in Need
    /\ \A j \in Need : j < i => content[j] \in Copies(j)
    /\ \E blob \in {Torn} \cup Copies(i) : content' = [content EXCEPT ![i] = blob]

PlanNext == \E i \in Images : WritePartition(i)

PlanSpec == PlanInit /\ [][PlanNext]_content
==============================================================================
