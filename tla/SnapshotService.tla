---------------------------- MODULE SnapshotService ----------------------------
(***************************************************************************)
(* The snapshot services of crates/ferrum-server/src: game_service.rs and  *)
(* world_service.rs run the same protocol, each with a thread, a command   *)
(* channel and a file of its own, so one of them is modelled.  Callers     *)
(* (the console and the admin GUI) ask for a save and wait; the thread     *)
(* saves on request, by the autosave interval, and last at shutdown; each  *)
(* step on the file system may fail, and the process may die at any point. *)
(*                                                                         *)
(* The snapshotted state is its version, a count of its changes; version 0 *)
(* is the state a start without a file begins with.                        *)
(***************************************************************************)
EXTENDS Integers, Sequences, FiniteSets

CONSTANTS
  Caller,           \* the threads that call save_now
  CommandCapacity,  \* capacity of the command channel: 32 and 16
  MaxVersion,       \* bound on the changes of the state
  MaxStarts         \* bound on the starts of the process

(* The channel has room for every caller and for Shutdown: there are two   *)
(* callers in the program, each waiting for its answer before it asks      *)
(* again.                                                                  *)
ASSUME SnapshotAssumption ==
  /\ IsFiniteSet(Caller)
  /\ CommandCapacity \in Nat /\ CommandCapacity > Cardinality(Caller)
  /\ MaxVersion \in Nat /\ MaxStarts \in Nat
  /\ {"autosave", "final", "none"} \cap Caller = {}

VARIABLES
  state,     \* version of the state in memory
  file,      \* version in the snapshot file
  temporary, \* version in the temporary file
  pc,        \* where the service thread stands
  captured,  \* version of the snapshot being saved
  purpose,   \* what it is saved for: a caller, an autosave, the final save
  commands,  \* the command channel: SaveNow, as its caller, and Shutdown
  asOf,      \* the state's version at the caller's pending save_now, or Idle
  phase,     \* of the process: running, closing (joins the thread), down
  owed,      \* the state's version when the process began to close
  acked,     \* history: the version the last successful answer stands for
  broken,    \* history: the file was removed and its successor not moved in
  starts     \* starts of the process, for MaxStarts

vars == <<state, file, temporary, pc, captured, purpose, commands, asOf, phase,
          owed, acked, broken, starts>>
disk == <<file, temporary>>
saving == <<captured, purpose>>
history == <<acked, broken>>

Version == 0 .. MaxVersion
Absent == -1   \* no such file
Partial == -2  \* a file that is not written to its end
Idle == -1     \* a caller that is not waiting
Shutdown == "final"

(* load_game_state; a world starts from its seed when there is no file.    *)
Load == IF file = Absent THEN 0 ELSE file

Greater(v, w) == IF v < w THEN w ELSE v

SnapshotInit ==
  /\ state = 0 /\ file = Absent /\ temporary = Absent
  /\ pc = "idle" /\ captured = 0 /\ purpose = "none"
  /\ commands = <<>> /\ asOf = [r \in Caller |-> Idle]
  /\ phase = "running" /\ owed = 0
  /\ acked = 0 /\ broken = FALSE /\ starts = 1

-----------------------------------------------------------------------------
(* Defects the runs must reject: a shutdown that does not save, and an     *)
(* exit that leaves callers waiting for their answers.                     *)
StopUnsaved ==
  /\ phase # "down" /\ pc = "idle" /\ commands # <<>> /\ Head(commands) = Shutdown
  /\ commands' = <<>>
  /\ pc' = "stopped"
  /\ UNCHANGED <<disk, history, saving, asOf>>
LeaveWaiting == asOf

(* Callers and the process.  save_now sends its command and waits; it      *)
(* fails at once when the thread is gone.                                  *)
SaveNow(r) ==
  /\ phase # "down" /\ pc \notin {"stopped", "failed"}
  /\ asOf[r] = Idle
  /\ Len(commands) < CommandCapacity
  /\ commands' = Append(commands, r)
  /\ asOf' = [asOf EXCEPT ![r] = state]
  /\ UNCHANGED <<state, disk, pc, saving, phase, owed, history, starts>>

(* Players, ticks and commands change the state; a console command may do  *)
(* so while the process closes.                                            *)
Change ==
  /\ phase # "down"
  /\ state < MaxVersion
  /\ state' = state + 1
  /\ UNCHANGED <<disk, pc, saving, commands, asOf, phase, owed, history, starts>>

(* try_shutdown: a full channel and a thread that is gone are ignored.     *)
BeginShutdown ==
  /\ phase = "running"
  /\ phase' = "closing"
  /\ owed' = state
  /\ commands' = IF pc \notin {"stopped", "failed"} /\ Len(commands) < CommandCapacity
                 THEN Append(commands, Shutdown) ELSE commands
  /\ UNCHANGED <<state, disk, pc, saving, asOf, history, starts>>

(* The end of the process, joined or killed: memory and threads are gone.  *)
(* A clean exit of the thread stands for the state shutdown found.         *)
Vanish ==
  /\ phase' = "down"
  /\ pc' = "stopped" /\ commands' = <<>> /\ asOf' = [r \in Caller |-> Idle]
  /\ captured' = 0 /\ purpose' = "none"
  /\ UNCHANGED <<state, disk, owed, starts>>

Join ==
  /\ phase = "closing"
  /\ pc \in {"stopped", "failed"}
  /\ Vanish
  /\ acked' = IF pc = "stopped" THEN Greater(acked, owed) ELSE acked
  /\ UNCHANGED broken

Crash ==
  /\ phase # "down"
  /\ Vanish
  /\ broken' = (broken \/ pc = "rename")
  /\ UNCHANGED acked

(* A loss is counted at the start that discovers it, and forgotten then.   *)
Restart ==
  /\ phase = "down"
  /\ starts < MaxStarts
  /\ starts' = starts + 1
  /\ phase' = "running" /\ pc' = "idle"
  /\ state' = Load
  /\ acked' = IF Load < acked THEN Load ELSE acked
  /\ broken' = FALSE
  /\ owed' = 0
  /\ UNCHANGED <<disk, saving, commands, asOf>>

-----------------------------------------------------------------------------
(* The service thread.  A save captures the state and then writes it.      *)
BeginSave(for) ==
  /\ captured' = state
  /\ purpose' = for
  /\ pc' = "create"
  /\ UNCHANGED <<disk, history>>

Ready == phase # "down" /\ pc = "idle"

TakeSaveNow(r) ==
  /\ Ready
  /\ commands # <<>> /\ Head(commands) = r
  /\ commands' = Tail(commands)
  /\ BeginSave(r)

TakeShutdown ==
  /\ Ready
  /\ commands # <<>> /\ Head(commands) = Shutdown
  /\ commands' = Tail(commands)
  /\ BeginSave("final")
  /\ UNCHANGED asOf

Autosave ==
  /\ Ready
  /\ BeginSave("autosave")
  /\ UNCHANGED <<commands, asOf>>

(* The thread's receiver goes with it, and so do the answers it owes.      *)
Unanswered == [r \in Caller |-> Idle]

(* The answer of a save: a request is answered either way, and an autosave *)
(* or a final save that fails ends the thread with its error.              *)
Conclude(ok) ==
  /\ captured' = 0 /\ purpose' = "none"
  /\ \/ /\ purpose \in Caller
        /\ asOf' = [asOf EXCEPT ![purpose] = Idle]
        /\ acked' = IF ok THEN Greater(acked, asOf[purpose]) ELSE acked
        /\ pc' = "idle"
        /\ UNCHANGED commands
     \/ /\ purpose = "autosave" /\ ok
        /\ pc' = "idle"
        /\ UNCHANGED <<asOf, acked, commands>>
     \/ /\ purpose = "final" \/ (purpose = "autosave" /\ ~ok)
        /\ pc' = IF ok THEN "stopped" ELSE "failed"
        /\ asOf' = Unanswered
        /\ commands' = <<>>
        /\ UNCHANGED acked

(* write_atomic: File::create truncates; write_all and sync_all; then the  *)
(* old file, when there is one, is removed and the new one moved in.       *)
Create ==
  /\ pc = "create"
  /\ temporary' = Partial
  /\ pc' = "write"
  /\ UNCHANGED <<file, saving, commands, asOf, history>>

AfterWrite == IF file = Absent THEN "rename" ELSE "remove"

Write ==
  /\ pc = "write"
  /\ temporary' = captured
  /\ pc' = AfterWrite
  /\ UNCHANGED <<file, saving, commands, asOf, history>>

RemoveOld ==
  /\ pc = "remove"
  /\ file' = Absent
  /\ pc' = "rename"
  /\ UNCHANGED <<temporary, saving, commands, asOf, history>>

Rename ==
  /\ pc = "rename"
  /\ file' = temporary /\ temporary' = Absent
  /\ broken' = FALSE
  /\ Conclude(TRUE)

(* Any of these steps may return an error instead, which ends the save; a  *)
(* failed write may leave the file written in part or in full.             *)
Fail ==
  /\ pc \in {"create", "write", "remove", "rename"}
  /\ temporary' \in IF pc = "write" THEN {temporary, captured} ELSE {temporary}
  /\ broken' = (broken \/ pc = "rename")
  /\ Conclude(FALSE)
  /\ UNCHANGED file

ServiceStep ==
  /\ phase # "down"
  /\ \/ \E r \in Caller : TakeSaveNow(r) /\ UNCHANGED asOf
     \/ TakeShutdown \/ Autosave \/ Create \/ Write \/ RemoveOld \/ Rename \/ Fail
  /\ UNCHANGED <<state, phase, owed, starts>>

SnapshotNext ==
  \/ \E r \in Caller : SaveNow(r)
  \/ Change \/ BeginShutdown \/ Join \/ Crash \/ Restart
  \/ ServiceStep

(* The thread runs on, and calls recv_timeout between any two autosaves.   *)
Fairness ==
  /\ WF_vars(ServiceStep)
  /\ SF_vars(ServiceStep /\ commands # <<>> /\ pc = "idle" /\ commands' = Tail(commands))
  /\ WF_vars(Join)

SnapshotSpec == SnapshotInit /\ [][SnapshotNext]_vars /\ Fairness

-----------------------------------------------------------------------------
(* Types.  The snapshot file is never one that is written in part.         *)
SnapshotTypeOK ==
  /\ state \in Version /\ captured \in Version /\ owed \in Version /\ acked \in Version
  /\ file \in Version \cup {Absent}
  /\ temporary \in Version \cup {Absent, Partial}
  /\ pc \in {"idle", "create", "write", "remove", "rename", "stopped", "failed"}
  /\ purpose \in Caller \cup {"autosave", "final", "none"}
  /\ commands \in Seq(Caller \cup {Shutdown}) /\ Len(commands) <= CommandCapacity
  /\ asOf \in [Caller -> Version \cup {Idle}]
  /\ phase \in {"running", "closing", "down"}
  /\ broken \in BOOLEAN
  /\ starts \in 0 .. MaxStarts + 1

(* A save reported to a caller, and a clean shutdown, cover every change   *)
(* made before it was asked for: a restart would load them, outside the    *)
(* window between the removal of the old file and the move of the new one  *)
(* (game_service.rs:286-290, world_service.rs:301-305).                    *)
AcknowledgedOnDisk ==
  \/ Load >= acked
  \/ broken
  \/ pc = "rename" /\ temporary >= acked

(* Nobody waits for ever: save_now returns, with an answer or because the  *)
(* thread is gone, and shutdown returns, as Shutdown is served behind the  *)
(* saves before it or the thread is gone.                                  *)
CallsReturn ==
  /\ \A r \in Caller : asOf[r] # Idle ~> asOf[r] = Idle
  /\ phase = "closing" ~> phase = "down"

(* "Both files are ... atomically replaced ... so changes made after       *)
(* startup survive restart" (docs/WORLD_PERSISTENCE.md:8): a restart has   *)
(* all that was reported saved.                                            *)
RestartKeepsSaves == [][Restart => state' >= acked]_vars
=============================================================================
