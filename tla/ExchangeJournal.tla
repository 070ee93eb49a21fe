--------------------------- MODULE ExchangeJournal --------------------------
(***************************************************************************)
(* trading::Journal and the use run_exchange makes of it: a command is     *)
(* written and synced before it is processed, and a server that starts     *)
(* reads the file, strictly, and processes what it finds.  Processes may   *)
(* be killed and the machine may lose power between any two steps, in the  *)
(* middle of a record too; several servers may be started on one file.     *)
(* What the commands do is left to MatchingEngine, which is deterministic: *)
(* a server's state is the sequence of the commands it has processed.      *)
(***************************************************************************)
EXTENDS Integers, Sequences

CONSTANTS
    Servers,        \* the processes that may be started on the journal
    Commands,       \* the commands of clients
    Configs,        \* the fingerprints of instrument configurations
    SyncNames,      \* whether syncing a file makes its name durable: many file
                    \* systems do it, POSIX does not promise it
    MaxRecords,     \* bound on the records written
    MaxFailures     \* bound on the failed writes, kills and power losses

ASSUME JournalAssumption == {MaxRecords, MaxFailures} \subseteq Nat /\ SyncNames \in BOOLEAN

VARIABLES
    file,       \* the pieces of the file, as processes see it
    synced,     \* how many of them are on the disk
    named,      \* whether the directory that holds the name is on the disk
    lock,       \* the holders of the flock
    server,     \* the state of each process
    answered,   \* the places and the commands for which reports were queued (history)
    failures    \* the number of failures so far

vars == <<file, synced, named, lock, server, answered, failures>>

\* A header and a record are two pieces each; junk is what a power loss leaves
\* of a piece that was not synced.
Piece(of, part) == [of |-> of, part |-> part]

Junk == Piece("junk", 0)

Whole(of) == <<Piece(of, 1), Piece(of, 2)>>

\* The records after the header, whole or not.
Records == {n \in 1..Len(file) : 2 * n < Len(file)}

Record(n) == IF 2 * n + 2 <= Len(file) THEN SubSeq(file, 2 * n + 1, 2 * n + 2) ELSE <<>>

\* The commands of a file in which every record is whole and has its checksum.
Readable == \A n \in Records : \E c \in Commands : Record(n) = Whole(c)

Content == [n \in Records |-> file[2 * n + 1].of]

Off == [at |-> "off", config |-> "", state |-> <<>>, output |-> <<>>]

Release(p) == lock' = lock \ {p}

-----------------------------------------------------------------------------
(* Journal::Journal and the replay *)

\* flock(LOCK_EX | LOCK_NB)
Locks(p) == lock = {} /\ lock' = {p}

\* A server starts with configuration config.  An empty file gets a header; a
\* header or a record that is torn, damaged or of another configuration ends
\* the start.
Start(p, config) ==
    /\ server[p].at = "off"
    /\ \/ /\ file = <<>>
          /\ Locks(p)
          /\ server' = [server EXCEPT ![p] = [at |-> "creating", config |-> config,
                                              state |-> <<>>, output |-> Whole(config)]]
       \/ /\ Len(file) >= 2 /\ SubSeq(file, 1, 2) = Whole(config)
          /\ Readable
          /\ Locks(p)
          /\ server' = [server EXCEPT ![p] = [at |-> "running", config |-> config,
                                              state |-> Content, output |-> <<>>]]
    /\ UNCHANGED <<file, synced, named, answered, failures>>

\* write_all, one write that may be short
Write(p) ==
    /\ server[p].at \in {"creating", "appending"}
    /\ server[p].output # <<>>
    /\ file' = Append(file, Head(server[p].output))
    /\ server' = [server EXCEPT ![p].output = Tail(@)]
    /\ UNCHANGED <<synced, named, lock, answered, failures>>

\* Fault: nothing is synced.
Sync_Skipped(p) ==
    /\ server[p].at \in {"creating", "appending"}
    /\ server[p].output = <<>>
    /\ server' = [server EXCEPT ![p].at = IF @ = "creating" THEN "naming" ELSE "durable"]
    /\ UNCHANGED <<file, synced, named, lock, answered, failures>>

\* sync
Sync(p) ==
    /\ server[p].at \in {"creating", "appending"}
    /\ server[p].output = <<>>
    /\ synced' = Len(file)
    /\ named' = (named \/ SyncNames)
    /\ server' = [server EXCEPT ![p].at = IF @ = "creating" THEN "naming" ELSE "durable"]
    /\ UNCHANGED <<file, lock, answered, failures>>

\* The fsync of the directory, which only the server that writes the header does.
SyncDirectory(p) ==
    /\ server[p].at = "naming"
    /\ named' = TRUE
    /\ server' = [server EXCEPT ![p].at = "running"]
    /\ UNCHANGED <<file, synced, lock, answered, failures>>

-----------------------------------------------------------------------------
(* The engine thread *)

\* A command is taken and append begins.
Take(p, c) ==
    /\ server[p].at = "running"
    /\ Len(file) < 2 * MaxRecords + 2
    /\ server' = [server EXCEPT ![p].at = "appending", ![p].output = Whole(c)]
    /\ UNCHANGED <<file, synced, named, lock, answered, failures>>

\* append has returned: the command is processed and its reports are queued.
Process(p) ==
    /\ server[p].at = "durable"
    /\ LET c == file[Len(file)].of IN
       /\ server' = [server EXCEPT ![p].at = "running", ![p].state = Append(@, c)]
       /\ answered' = answered \cup {[place |-> Len(server[p].state) + 1, command |-> c]}
    /\ UNCHANGED <<file, synced, named, lock, failures>>

\* Fault: after a failed append the server goes on.
AppendFails_GoesOn(p) ==
    /\ server[p].at \in {"creating", "appending"}
    /\ failures < MaxFailures
    /\ failures' = failures + 1
    /\ server' = [server EXCEPT ![p].at = "running", ![p].output = <<>>]
    /\ UNCHANGED <<file, synced, named, lock, answered>>

\* A write or a sync fails: the exception ends the server.
AppendFails(p) ==
    /\ server[p].at \in {"creating", "naming", "appending"}
    /\ failures < MaxFailures
    /\ failures' = failures + 1
    /\ server' = [server EXCEPT ![p] = Off]
    /\ Release(p)
    /\ UNCHANGED <<file, synced, named, answered>>

\* The server ends, by a stop between two commands.
Stop(p) ==
    /\ server[p].at = "running"
    /\ server' = [server EXCEPT ![p] = Off]
    /\ Release(p)
    /\ UNCHANGED <<file, synced, named, answered, failures>>

-----------------------------------------------------------------------------
(* Failures *)

\* The process is killed; what it has written stays.
Kill(p) ==
    /\ server[p].at # "off"
    /\ failures < MaxFailures
    /\ failures' = failures + 1
    /\ server' = [server EXCEPT ![p] = Off]
    /\ Release(p)
    /\ UNCHANGED <<file, synced, named, answered>>

\* The machine goes down: what was not synced is lost, in part or entirely, or
\* damaged, and so is a file without a durable name.
PowerLoss ==
    /\ failures < MaxFailures
    /\ failures' = failures + 1
    /\ \/ \E n \in synced..Len(file), damaged \in BOOLEAN :
            file' = [k \in 1..n |-> IF damaged /\ k = n /\ n > synced THEN Junk ELSE file[k]]
       \/ ~named /\ file' = <<>>
    /\ synced' = Len(file')
    /\ named' = (file' # <<>>)
    /\ server' = [p \in Servers |-> Off]
    /\ lock' = {}
    /\ UNCHANGED answered

-----------------------------------------------------------------------------

Init ==
    /\ file = <<>> /\ synced = 0 /\ named = FALSE
    /\ lock = {}
    /\ server = [p \in Servers |-> Off]
    /\ answered = {}
    /\ failures = 0

Next ==
    \/ \E p \in Servers :
         \/ \E config \in Configs : Start(p, config)
         \/ \E c \in Commands : Take(p, c)
         \/ Write(p) \/ Sync(p) \/ SyncDirectory(p) \/ Process(p) \/ AppendFails(p) \/ Stop(p) \/ Kill(p)
    \/ PowerLoss

Spec == Init /\ [][Next]_vars

-----------------------------------------------------------------------------
(* Properties *)

\* No command whose reports were queued is ever forgotten or changes its
\* place: it is on the disk before, so every server that comes up later has
\* processed it in its place, whatever failed in between
\* ("fdatasync before ACK", journal.hpp).
AnsweredIsNeverLost ==
    \A p \in Servers :
        server[p].at = "running" =>
            \A a \in answered :
                a.place <= Len(server[p].state) /\ server[p].state[a.place] = a.command

\* A server between two commands has processed exactly the commands that are
\* in the file, all of them readable, under the configuration the file was
\* made with: no torn record is ever followed by another, no
\* second server writes into the file, and the next start gets the same state.
StateIsTheFile ==
    \A p \in Servers :
        server[p].at = "running" =>
            /\ Len(file) >= 2 /\ SubSeq(file, 1, 2) = Whole(server[p].config)
            /\ Readable /\ Content = server[p].state
            /\ lock = {p}

=============================================================================
