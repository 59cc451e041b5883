------------------------------ MODULE SlicerMC ------------------------------
(***************************************************************************)
(* Small instances of Slicer: a frame of 8 symbols, 2 to a byte, a drift   *)
(* of 2.  The proportions that matter are the code's: a byte is not more   *)
(* than the drift, the drift is below half a frame.                        *)
(***************************************************************************)
EXTENDS Slicer

CONSTANT Length         \* the inputs' length, in symbols

\* Streams with up to two sync words anywhere: missing ones, drifting ones, false
\* matches in the middle of a frame.
AnyStreams ==
    {[len |-> Length, syncs |-> S] :
       S \in {{}} \cup {{p, q} : p, q \in 0 .. (Length - SyncOffset - 1)}}

\* Transmissions without drift in which some slots were lost to fading, in every phase;
\* the last frame may be cut short behind its sync word.
FadedStreams ==
    {[len |-> Length, syncs |-> S] : S \in
       UNION {SUBSET {q \in p .. (Length - SyncOffset - 2) : (q - p) % FrameSymbols = 0} :
              p \in 0 .. (FrameSymbols - 1)}}

\* Transmissions that keep their sync, each frame within the drift of the one before.
Gaps == Step .. (FrameSymbols + Fluct)
SyncedStreams ==
    {s \in {[len |-> l, syncs |-> {p, p + a, p + a + b, p + a + b + c}] :
              l \in {Length - SymPerByte, Length}, p \in {0, Fluct, Step}, a, b, c \in Gaps} :
       Synced(s)}

AllStreams == AnyStreams \cup SyncedStreams
=============================================================================
