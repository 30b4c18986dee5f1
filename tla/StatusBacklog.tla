---------------------------- MODULE StatusBacklog ----------------------------
(***************************************************************************)
(* The list of status messages (ui_notify and its like, gtk_ui_notify,     *)
(* ui_process_status_backlog).  Every thread adds messages, one at a time  *)
(* under a mutex; at the end of each tick the main thread prints them,     *)
(* logs them and empties the list without taking that mutex.               *)
(*                                                                         *)
(* The list is a sequence here and each access to it one step, which is    *)
(* kinder than the pointers of sd_linked_list.c are.                       *)
(***************************************************************************)
EXTENDS Naturals, Sequences, SequencesExt

CONSTANTS
    Worker,     \* threads of connections, servers and accept entries
    MaxMessages \* bound on the messages

VARIABLES
    logging,    \* logging_enabled, never changes
    list,       \* status_backlog, each message represented by its number
    added,      \* how many messages were added
    pc,         \* what the main thread is doing
    at,         \* the entry its iteration has reached
    printed,    \* messages printed
    logged      \* messages logged

vars == <<logging, list, added, pc, at, printed, logged>>

TypeOK ==
    /\ logging \in BOOLEAN
    /\ list \in Seq(1 .. MaxMessages)
    /\ added \in 0 .. MaxMessages
    /\ pc \in {"TICK", "PRINT", "LOG", "REMOVE"}
    /\ at \in 1 .. MaxMessages + 1
    /\ printed \subseteq 1 .. MaxMessages
    /\ logged \subseteq 1 .. MaxMessages

Init ==
    /\ logging \in BOOLEAN
    /\ list = <<>>
    /\ added = 0
    /\ pc = "TICK"
    /\ at = 1
    /\ printed = {}
    /\ logged = {}

\* A thread adds a message.  The main thread does so in its handlers only.
Add(t) ==
    /\ t = "main" => pc = "TICK"
    /\ added < MaxMessages
    /\ added' = added + 1
    /\ list' = Append(list, added')
    /\ UNCHANGED <<logging, pc, at, printed, logged>>

\* ui_process_status_backlog begins.
Begin ==
    /\ pc = "TICK"
    /\ pc' = "PRINT"
    /\ at' = 1
    /\ UNCHANGED <<logging, list, added, printed, logged>>

\* One step of the first iteration, until it has reached the last entry.
PrintEntry ==
    /\ pc = "PRINT"
    /\ \/ /\ at <= Len(list)
          /\ printed' = printed \cup {list[at]}
          /\ at' = at + 1
          /\ UNCHANGED pc
       \/ /\ at > Len(list)
          /\ pc' = IF logging THEN "LOG" ELSE "REMOVE"
          /\ at' = 1
          /\ UNCHANGED printed
    /\ UNCHANGED <<logging, list, added, logged>>

\* One step of the second iteration.
LogEntry ==
    /\ pc = "LOG"
    /\ \/ /\ at <= Len(list)
          /\ logged' = logged \cup {list[at]}
          /\ at' = at + 1
          /\ UNCHANGED pc
       \/ /\ at > Len(list)
          /\ pc' = "REMOVE"
          /\ at' = 1
          /\ UNCHANGED logged
    /\ UNCHANGED <<logging, list, added, printed>>

\* linked_list_rem_all_entries removes the first entry until there is none.
RemoveEntry ==
    /\ pc = "REMOVE"
    /\ \/ /\ list # <<>>
          /\ list' = Tail(list)
          /\ UNCHANGED pc
       \/ /\ list = <<>>
          /\ pc' = "TICK"
          /\ UNCHANGED list
    /\ UNCHANGED <<logging, added, at, printed, logged>>

Next ==
    \/ \E t \in Worker \cup {"main"} : Add(t)
    \/ Begin \/ PrintEntry \/ LogEntry \/ RemoveEntry

Spec == Init /\ [][Next]_vars

\* sd_ui.c:58 says of the functions that add messages "these must be thread
\* safe": no message leaves the list before it was printed and, with logging
\* on, written to the log.
RemovedWasPrinted ==
    \A m \in 1 .. added : m \notin ToSet(list) =>
        m \in printed /\ (logging => m \in logged)
=============================================================================
