----------------------------- MODULE MCSharedWorld -----------------------------
(***************************************************************************)
(* The world in memory and its snapshots, one beside the other.  The world *)
(* has one player between two chunks that overlap in view, three blocks    *)
(* that change and one that must not, and a queue of two updates that is   *)
(* drained one by one; the snapshot service has its two callers, and is    *)
(* killed and restarted.                                                   *)
(***************************************************************************)
EXTENDS SharedWorld, SnapshotService, TLC

CONSTANTS p1, p2, p3, p4, near, far

MCPosition == {p1, p2, p3, p4}
MCChunk == {near, far}
MCChunkOf == p1 :> near @@ p2 :> near @@ p3 :> far @@ p4 :> near
MCVisibleFrom == near :> {near} @@ far :> {near, far}
MCSeed == p1 :> Air @@ p2 :> Stone @@ p3 :> Air @@ p4 :> Bedrock

\* No process: one that has ended and is not started any more.
NoProcess ==
  /\ state = 0 /\ file = Absent /\ temporary = Absent
  /\ pc = "stopped" /\ captured = 0 /\ purpose = "none"
  /\ commands = <<>> /\ asOf = [r \in Caller |-> Idle]
  /\ phase = "down" /\ owed = 0
  /\ acked = 0 /\ broken = FALSE /\ starts = MaxStarts + 1

LiveInit == WorldInit /\ (SnapshotInit \/ NoProcess)

LiveNext ==
  \/ starts > MaxStarts /\ WorldNext /\ UNCHANGED vars
  \/ SnapshotNext /\ UNCHANGED worldVars

LiveSpec ==
  LiveInit /\ [][LiveNext]_<<worldVars, vars>> /\ WorldFairness /\ Fairness
=============================================================================
