---------------------------- MODULE WatchCommand ----------------------------
(***************************************************************************)
(* cmd/aragorn/watch.go: suite files are run when they are saved.  One     *)
(* loop takes the events of fsnotify and, for an event that shows a save,  *)
(* reads the file and runs the suite before it takes the next event.       *)
(*                                                                         *)
(* The environment: editors, which save a file in place, piece by piece,   *)
(* or by renaming a new one over it; and inotify with its reader goroutine *)
(* in fsnotify.  A directory is watched by names and a file by its inode.  *)
(* Content is the version of the file that each half of it belongs to, 0   *)
(* for a half that is missing.  An error of fsnotify (an overflow) is only *)
(* logged.                                                                 *)
(***************************************************************************)
EXTENDS Naturals, Sequences, SequencesExt

CONSTANTS DirFiles,     \* suite files (*.suite.json) in a directory that is an argument
          ArgFiles,     \* files that are arguments themselves
          None,
          MaxVersion,   \* bound: saves of each file, plus one
          MaxQueue      \* fs.inotify.max_queued_events

Files == DirFiles \cup ArgFiles

Events == [file : Files, op : {"create", "write", "remove"}]

ASSUME WatchAssumption ==
  /\ DirFiles \cap ArgFiles = {}
  /\ None \notin Events
  /\ MaxVersion \in Nat \ {0}
  /\ MaxQueue \in Nat \ {0}

VARIABLES content,      \* of each file, its inodes so far, with two halves each
          disk,         \* which of its inodes is the file, 0 if there is no file
          version,      \* the version of the last save of each file
          writing,      \* how far a save in place has got, 0 if there is none
          watched,      \* the inode that the watch of an argument is on
          queue,        \* inotify's queue
          lost,         \* files whose last event was dropped: the queue was full
          offered,      \* the event that fsnotify sends on the channel
          pc,           \* where the event loop is
          reading,      \* the suite file it has open
          ran           \* history: what the last run of each file was of

editorVars == <<content, disk, version, writing, watched>>
eventVars == <<queue, lost>>
loopVars == <<offered, pc, reading, ran>>
vars == <<editorVars, eventVars, loopVars>>

Whole(f) == <<version[f], version[f]>>

\* An argument has to exist; a suite file may be created later.
Init ==
  /\ content = [f \in Files |-> << <<1, 1>> >>]
  /\ disk \in [Files -> {0, 1}] /\ \A f \in ArgFiles : disk[f] = 1
  /\ version = [f \in Files |-> 1]
  /\ writing = [f \in Files |-> 0]
  /\ watched = [f \in ArgFiles |-> disk[f]]
  /\ queue = <<>>
  /\ lost = {}
  /\ offered = None
  /\ pc = "idle"
  /\ reading = None
  /\ ran = [f \in Files |-> <<0, 0>>]

-----------------------------------------------------------------------------
\* An argument whose inode is no longer that of its file is not seen any more.
Seen(f) == f \in DirFiles \/ watched[f] = disk[f]

\* inotify queues an event, merges it with the last one if that is the same and has not
\* been read, or drops it.
Post(f, op) ==
  IF ~Seen(f) THEN UNCHANGED eventVars
  ELSE LET e == [file |-> f, op |-> op]
       IN  \/ /\ queue # <<>> /\ Last(queue) = e
              /\ lost' = lost \ {f}
              /\ UNCHANGED queue
           \/ /\ Len(queue) < MaxQueue
              /\ queue' = Append(queue, e)
              /\ lost' = lost \ {f}
           \/ /\ Len(queue) = MaxQueue
              /\ lost' = lost \cup {f}
              /\ UNCHANGED queue

NewInode(f, c) ==
  /\ content' = [content EXCEPT ![f] = Append(@, c)]
  /\ disk' = [disk EXCEPT ![f] = Len(content[f]) + 1]

\* A save in place: the file is created or truncated, then written in two pieces.
BeginSave(f) ==
  /\ writing[f] = 0 /\ version[f] < MaxVersion
  /\ version' = [version EXCEPT ![f] = @ + 1]
  /\ writing' = [writing EXCEPT ![f] = 1]
  /\ IF disk[f] = 0
     THEN NewInode(f, <<0, 0>>) /\ Post(f, "create")
     ELSE /\ content' = [content EXCEPT ![f][disk[f]] = <<0, 0>>]
          /\ Post(f, "write")
          /\ UNCHANGED disk
  /\ UNCHANGED <<watched, loopVars>>

WriteHalf(f) ==
  /\ writing[f] # 0
  /\ content' = [content EXCEPT ![f][disk[f]][writing[f]] = version[f]]
  /\ writing' = [writing EXCEPT ![f] = (@ + 1) % 3]
  /\ Post(f, "write")
  /\ UNCHANGED <<disk, version, watched, loopVars>>

\* A new file is renamed over the old one.  The directory sees a file moved to the name;
\* a watch on the old inode sees it go, and ends.
Replace(f) ==
  /\ writing[f] = 0 /\ version[f] < MaxVersion
  /\ version' = [version EXCEPT ![f] = @ + 1]
  /\ NewInode(f, <<version'[f], version'[f]>>)
  /\ Post(f, IF f \in DirFiles THEN "create" ELSE "remove")
  /\ UNCHANGED <<writing, watched, loopVars>>

Delete(f) ==
  /\ writing[f] = 0 /\ disk[f] # 0
  /\ disk' = [disk EXCEPT ![f] = 0]
  /\ Post(f, "remove")
  /\ UNCHANGED <<content, version, writing, watched, loopVars>>

\* fsnotify reads an event and sends it, unless it shows a change of a file that does not
\* exist (any more).
Offer ==
  /\ offered = None /\ queue # <<>>
  /\ LET e == Head(queue)
     IN  offered' = IF e.op # "remove" /\ disk[e.file] = 0 THEN None ELSE e
  /\ queue' = Tail(queue)
  /\ UNCHANGED <<editorVars, lost, pc, reading, ran>>

-----------------------------------------------------------------------------
\* Mutant: only writes count.
isWriteEvent(op) == op = "write"

isValidEvent(op) == op \in {"create", "write"}

\* The loop takes an event and opens the file that it names; every file of Files has the
\* suffix of a suite file or is an argument.
Take ==
  /\ pc = "idle" /\ offered # None
  /\ offered' = None
  /\ IF isValidEvent(offered.op) /\ disk[offered.file] # 0
     THEN LET f == offered.file
          IN  /\ pc' = "reading"
              /\ reading' = [file |-> f, inode |-> disk[f], first |-> content[f][disk[f]][1]]
     ELSE UNCHANGED <<pc, reading>>
  /\ UNCHANGED <<editorVars, eventVars, ran>>

Read == <<reading.first, content[reading.file][reading.inode][2]>>

\* Mutant: a file that cannot be loaded ends the loop.
LoadFailsForGood ==
  /\ pc = "reading" /\ (0 \in ToSet(Read) \/ Read[1] # Read[2])
  /\ pc' = "ended"
  /\ reading' = None
  /\ UNCHANGED <<editorVars, eventVars, offered, ran>>

\* A file of which a part is missing or is of another version cannot be loaded,
LoadFails ==
  /\ pc = "reading" /\ (0 \in ToSet(Read) \/ Read[1] # Read[2])
  /\ pc' = "idle"
  /\ reading' = None
  /\ UNCHANGED <<editorVars, eventVars, offered, ran>>

\* though halves of two versions may happen to make a suite.
RunSuite ==
  /\ pc = "reading" /\ 0 \notin ToSet(Read)
  /\ pc' = "running"
  /\ ran' = [ran EXCEPT ![reading.file] = Read]
  /\ reading' = None
  /\ UNCHANGED <<editorVars, eventVars, offered>>

RunEnds ==
  /\ pc = "running"
  /\ pc' = "idle"
  /\ UNCHANGED <<editorVars, eventVars, offered, reading, ran>>

\* The loop waits for events as long as the process lives.
Waits == pc = "idle" /\ offered = None /\ queue = <<>> /\ UNCHANGED vars

LoopStep == Take \/ LoadFails \/ RunSuite \/ RunEnds

Next ==
  \/ \E f \in Files : BeginSave(f) \/ WriteHalf(f) \/ Replace(f) \/ Delete(f)
  \/ Offer
  \/ LoopStep
  \/ Waits

Spec == Init /\ [][Next]_vars

\* The goroutines of fsnotify and of the loop go on, and runs end (SuiteRun, RunEnds);
\* an editor may stop at any point.
FairSpec == Spec /\ WF_vars(Offer) /\ WF_vars(LoopStep)

-----------------------------------------------------------------------------
\* Files whose last save is complete and has been seen.
Saved(f) ==
  /\ version[f] > 1 /\ writing[f] = 0 /\ disk[f] # 0
  /\ Seen(f) /\ f \notin lost

\* A save that is complete is never forgotten: it has been run, as it is on disk, or it is
\* being read from its start, or an event that will have it read is on its way.  So a run
\* of an earlier version, of a part of the file or of two versions mixed is not the last,
\* whatever was merged, dropped for a file that was away, or saved during a run
\* (watch.go:78-83).
NothingForgotten ==
  \A f \in Files : Saved(f) =>
    \/ ran[f] = Whole(f)
    \/ pc = "reading" /\ reading.file = f /\ reading.inode = disk[f]
       /\ reading.first = version[f]
    \/ \E e \in ToSet(queue) \cup {offered} :
         e # None /\ e.file = f /\ e.op \in {"create", "write"}

\* "Watch the test suites and execute them on create or save" (watch.go:19): the loop gets
\* to the last save of every file, if its event was not lost.
LastSaveRuns == \A f \in Files : <>[](Saved(f) => ran[f] = Whole(f))
=============================================================================
