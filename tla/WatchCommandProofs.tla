------------------------- MODULE WatchCommandProofs --------------------------
(***************************************************************************)
(* Theorems about WatchCommand, for any files, any number of saves and a   *)
(* queue of any length: no save that is complete is forgotten.  What the   *)
(* proof needs is said of one file at a time; a step disturbs one file,    *)
(* and the others keep what they have.                                     *)
(***************************************************************************)
EXTENDS WatchCommand, TLAPS

WatchTypeOK ==
  /\ content \in [Files -> Seq(Nat \X Nat)]
  /\ disk \in [Files -> Nat]
  /\ version \in [Files -> Nat \ {0}]
  /\ writing \in [Files -> 0 .. 2]
  /\ watched \in [ArgFiles -> Nat]
  /\ queue \in Seq(Events)
  /\ lost \subseteq Files
  /\ offered \in Events \cup {None}
  /\ pc \in {"idle", "reading", "running"}
  /\ pc = "reading" => reading \in [file : Files, inode : Nat, first : Nat]
  /\ ran \in [Files -> Nat \X Nat]

\* The inodes that are pointed to exist, and no half is newer than the last save.
Inodes(f) ==
  /\ disk[f] \in 0 .. Len(content[f])
  /\ f \in ArgFiles => watched[f] \in 1 .. Len(content[f])
  /\ pc = "reading" /\ reading.file = f => reading.inode \in 1 .. Len(content[f])
  /\ \A i \in 1 .. Len(content[f]) : content[f][i][2] <= version[f]
  /\ ran[f][2] <= version[f]

\* The file has what its save has written so far.
OnDisk(f) ==
  /\ writing[f] # 0 => disk[f] # 0
  /\ disk[f] # 0 /\ writing[f] = 0 => content[f][disk[f]] = Whole(f)
  /\ writing[f] = 1 => content[f][disk[f]] = <<0, 0>>
  /\ writing[f] = 2 => content[f][disk[f]] = <<version[f], 0>>

\* A second half of the last version is written last, and belongs to the file.
Newest(f) ==
  \A i \in 1 .. Len(content[f]) :
    content[f][i][2] = version[f] => writing[f] = 0 /\ disk[f] \in {0, i}

\* Once the last version was run, only that version is read again.
RanNewest(f) ==
  ran[f] = Whole(f) =>
    /\ writing[f] = 0
    /\ pc = "reading" /\ reading.file = f =>
         disk[f] \in {0, reading.inode} /\ reading.first = version[f]

\* An event on its way will have the file read, or the file is being read from its start.
Expected(f) ==
  \E e \in ToSet(queue) \cup {offered} :
    e # None /\ e.file = f /\ e.op \in {"create", "write"}
BeingRead(f) ==
  /\ pc = "reading" /\ reading.file = f
  /\ reading.inode = disk[f] /\ reading.first = version[f]
Known(f) == Saved(f) => ran[f] = Whole(f) \/ BeingRead(f) \/ Expected(f)

FileInv(f) == Inodes(f) /\ OnDisk(f) /\ Newest(f) /\ RanNewest(f) /\ Known(f)

WatchInv == WatchTypeOK /\ \A f \in Files : FileInv(f)

-----------------------------------------------------------------------------
\* What is queued stays queued, and the event of a file that is seen is queued or lost.
LEMMA Posted ==
  ASSUME queue \in Seq(Events), lost \subseteq Files,
         NEW f \in Files, NEW op \in {"create", "write", "remove"}, Post(f, op)
  PROVE  /\ queue' \in Seq(Events) /\ lost' \subseteq Files
         /\ ToSet(queue) \subseteq ToSet(queue')
         /\ lost' \ {f} = lost \ {f}
         /\ Seen(f) /\ f \notin lost' => [file |-> f, op |-> op] \in ToSet(queue')
<1> DEFINE e == [file |-> f, op |-> op]
<1>1. e \in Events
  BY DEF Events
<1>2. CASE ~Seen(f)
  BY <1>2 DEF Post, eventVars
<1>3. CASE Seen(f) /\ queue # <<>> /\ Last(queue) = e /\ lost' = lost \ {f} /\ queue' = queue
  <2>1. e \in ToSet(queue)
    BY <1>3 DEF ToSet, Last
  <2> QED
    BY <1>3, <2>1
<1>4. CASE Seen(f) /\ queue' = Append(queue, e) /\ lost' = lost \ {f}
  <2>1. /\ queue' \in Seq(Events) /\ Len(queue') = Len(queue) + 1
        /\ \A i \in 1 .. Len(queue) : queue'[i] = queue[i]
        /\ queue'[Len(queue) + 1] = e
    BY <1>1, <1>4
  <2>2. DOMAIN queue = 1 .. Len(queue) /\ DOMAIN queue' = 1 .. Len(queue')
        /\ Len(queue) \in Nat
    BY <2>1
  <2>3. ToSet(queue) \subseteq ToSet(queue') /\ e \in ToSet(queue')
    BY <2>1, <2>2 DEF ToSet
  <2> QED
    BY <1>4, <2>1, <2>3
<1>5. CASE Seen(f) /\ lost' = lost \cup {f} /\ queue' = queue
  BY <1>5
<1> QED
  BY <1>2, <1>3, <1>4, <1>5 DEF Post

\* A file that nothing happens to keeps what is said of it.
LEMMA Undisturbed ==
  ASSUME NEW f \in Files, FileInv(f), UNCHANGED loopVars, UNCHANGED watched,
         content'[f] = content[f], disk'[f] = disk[f], version'[f] = version[f],
         writing'[f] = writing[f], f \in lost' <=> f \in lost,
         ToSet(queue) \subseteq ToSet(queue')
  PROVE  FileInv(f)'
<1> USE DEF FileInv, loopVars
<1>1. Inodes(f)'
  BY DEF Inodes
<1>2. OnDisk(f)' /\ Newest(f)' /\ RanNewest(f)'
  BY DEF OnDisk, Newest, RanNewest, Whole
<1>3. Known(f)'
  BY DEF Known, Saved, Seen, Whole, BeingRead, Expected
<1> QED
  BY <1>1, <1>2, <1>3

-----------------------------------------------------------------------------
LEMMA WatchInitInv == Init => WatchInv
<1> SUFFICES ASSUME Init PROVE WatchInv
  OBVIOUS
<1>1. WatchTypeOK
  <2>1. watched \in [ArgFiles -> Nat] /\ disk \in [Files -> Nat]
    BY DEF Init, Files
  <2>2. <<1, 1>> \in Nat \X Nat /\ <<0, 0>> \in Nat \X Nat
    OBVIOUS
  <2>3. << <<1, 1>> >> \in Seq(Nat \X Nat)
    BY <2>2
  <2> QED
    BY <2>1, <2>2, <2>3 DEF Init, WatchTypeOK
<1>2. ASSUME NEW f \in Files PROVE FileInv(f)
  <2>1. /\ Len(content[f]) = 1 /\ content[f][1] = <<1, 1>>
        /\ version[f] = 1 /\ writing[f] = 0 /\ ran[f] = <<0, 0>>
        /\ disk[f] \in {0, 1} /\ pc = "idle"
    BY DEF Init
  <2>2. f \in ArgFiles => watched[f] = 1
    BY DEF Init
  <2>3. Inodes(f)
    BY <2>1, <2>2 DEF Inodes
  <2>4. OnDisk(f) /\ Newest(f)
    BY <2>1 DEF OnDisk, Newest, Whole
  <2>5. RanNewest(f) /\ Known(f)
    BY <2>1 DEF RanNewest, Known, Saved, Whole
  <2> QED
    BY <2>3, <2>4, <2>5 DEF FileInv
<1> QED
  BY <1>1, <1>2 DEF WatchInv

\* A file with a new inode has its new content there, and what is said of the old inodes
\* stays true.
LEMMA NewInodeOf ==
  ASSUME WatchTypeOK, NEW f \in Files, NEW c \in Nat \X Nat, NewInode(f, c)
  PROVE  /\ content' \in [Files -> Seq(Nat \X Nat)] /\ disk' \in [Files -> Nat]
         /\ \A g \in Files \ {f} : content'[g] = content[g] /\ disk'[g] = disk[g]
         /\ Len(content[f]) \in Nat /\ Len(content'[f]) = Len(content[f]) + 1
         /\ disk'[f] = Len(content[f]) + 1
         /\ content'[f][disk'[f]] = c
         /\ \A i \in 1 .. Len(content[f]) : content'[f][i] = content[f][i]
<1>1. content[f] \in Seq(Nat \X Nat)
  BY DEF WatchTypeOK
<1>2. /\ Append(content[f], c) \in Seq(Nat \X Nat)
      /\ Len(Append(content[f], c)) = Len(content[f]) + 1
      /\ Append(content[f], c)[Len(content[f]) + 1] = c
      /\ \A i \in 1 .. Len(content[f]) : Append(content[f], c)[i] = content[f][i]
      /\ Len(content[f]) \in Nat
  BY <1>1
<1>3. content' = [content EXCEPT ![f] = Append(content[f], c)]
      /\ disk' = [disk EXCEPT ![f] = Len(content[f]) + 1]
  BY DEF NewInode
<1> QED
  BY <1>2, <1>3 DEF WatchTypeOK

\* So has a file that is written in place.
LEMMA Overwritten ==
  ASSUME WatchTypeOK, NEW f \in Files, disk[f] \in 1 .. Len(content[f]),
         NEW c \in Nat \X Nat, content' = [content EXCEPT ![f] = [@ EXCEPT ![disk[f]] = c]]
  PROVE  /\ content' \in [Files -> Seq(Nat \X Nat)]
         /\ \A g \in Files \ {f} : content'[g] = content[g]
         /\ Len(content'[f]) = Len(content[f]) /\ Len(content[f]) \in Nat
         /\ content'[f][disk[f]] = c
         /\ \A i \in 1 .. Len(content[f]) : i # disk[f] => content'[f][i] = content[f][i]
<1> DEFINE s == [content[f] EXCEPT ![disk[f]] = c]
<1>1. content[f] \in Seq(Nat \X Nat)
  BY DEF WatchTypeOK
<1>2. /\ s \in Seq(Nat \X Nat) /\ Len(s) = Len(content[f]) /\ Len(s) \in Nat
      /\ s[disk[f]] = c
      /\ \A i \in 1 .. Len(content[f]) : i # disk[f] => s[i] = content[f][i]
  <2> DEFINE old == content[f]
             S == Nat \X Nat
             d == disk[f]
  <2> HIDE DEF old, S, d
  <2>1. old \in Seq(S) /\ c \in S /\ d \in 1 .. Len(old)
    BY <1>1 DEF old, S, d
  <2>2. s = [old EXCEPT ![d] = c]
    BY DEF old, d
  <2> HIDE DEF s
  <2>3. s \in Seq(S) /\ Len(s) = Len(old) /\ Len(s) \in Nat
    BY <2>1, <2>2
  <2>4. s[d] = c /\ \A i \in 1 .. Len(old) : i # d => s[i] = old[i]
    BY <2>1, <2>2
  <2> QED
    BY <2>3, <2>4 DEF old, S, d
<1>3. content' = [content EXCEPT ![f] = s]
  OBVIOUS
<1> HIDE DEF s
<1> QED
  BY <1>2, <1>3 DEF WatchTypeOK

-----------------------------------------------------------------------------
\* A save that has begun makes what was run, read or written before older than the file.
LEMMA BeginSaveInv ==
  ASSUME WatchInv, NEW f \in Files, BeginSave(f)
  PROVE  WatchInv'
<1>1. WatchTypeOK /\ FileInv(f)
  BY DEF WatchInv
<1>2. PICK op \in {"create", "write"} : Post(f, op)
  BY DEF BeginSave
<1>3. /\ queue' \in Seq(Events) /\ lost' \subseteq Files
      /\ ToSet(queue) \subseteq ToSet(queue') /\ lost' \ {f} = lost \ {f}
  BY <1>1, <1>2, Posted DEF WatchTypeOK
<1>4. /\ version' \in [Files -> Nat \ {0}] /\ version'[f] = version[f] + 1
      /\ writing' \in [Files -> 0 .. 2] /\ writing'[f] = 1
      /\ \A g \in Files \ {f} : version'[g] = version[g] /\ writing'[g] = writing[g]
      /\ UNCHANGED <<watched, loopVars>>
  BY <1>1 DEF BeginSave, WatchTypeOK
<1>5. /\ content' \in [Files -> Seq(Nat \X Nat)] /\ disk' \in [Files -> Nat]
      /\ \A g \in Files \ {f} : content'[g] = content[g] /\ disk'[g] = disk[g]
      /\ disk'[f] \in 1 .. Len(content'[f]) /\ content'[f][disk'[f]] = <<0, 0>>
      /\ Len(content'[f]) >= Len(content[f]) /\ Len(content[f]) \in Nat
      /\ Len(content'[f]) \in Nat
      /\ \A i \in 1 .. Len(content'[f]) :
           i # disk'[f] => i \in 1 .. Len(content[f]) /\ content'[f][i] = content[f][i]
  <2>1. <<0, 0>> \in Nat \X Nat
    OBVIOUS
  <2>2. CASE disk[f] = 0
    <3>1. NewInode(f, <<0, 0>>)
      BY <2>2 DEF BeginSave
    <3> QED
      BY <1>1, <2>1, <3>1, NewInodeOf
  <2>3. CASE disk[f] # 0
    <3>1. disk[f] \in 1 .. Len(content[f])
      BY <1>1, <2>3 DEF FileInv, Inodes, WatchTypeOK
    <3>2. disk' = disk /\ content' = [content EXCEPT ![f] = [@ EXCEPT ![disk[f]] = <<0, 0>>]]
      BY <2>3 DEF BeginSave
    <3>3. /\ content' \in [Files -> Seq(Nat \X Nat)]
          /\ \A g \in Files \ {f} : content'[g] = content[g]
          /\ Len(content'[f]) = Len(content[f]) /\ Len(content[f]) \in Nat
          /\ content'[f][disk[f]] = <<0, 0>>
          /\ \A i \in 1 .. Len(content[f]) : i # disk[f] => content'[f][i] = content[f][i]
      BY <1>1, <2>1, <3>1, <3>2, Overwritten
    <3> QED
      BY <1>1, <3>1, <3>2, <3>3 DEF WatchTypeOK
  <2> QED
    BY <2>2, <2>3
<1>6. WatchTypeOK'
  BY <1>1, <1>3, <1>4, <1>5 DEF WatchTypeOK, loopVars
<1>7. ASSUME NEW g \in Files, g # f PROVE FileInv(g)'
  BY <1>3, <1>4, <1>5, <1>7, Undisturbed DEF WatchInv
<1>8. FileInv(f)'
  <2>1. version[f] \in Nat \ {0} /\ ran[f] \in Nat \X Nat
    BY <1>1 DEF WatchTypeOK
  <2>2. \A i \in 1 .. Len(content'[f]) : content'[f][i][2] < version'[f]
    <3> SUFFICES ASSUME NEW i \in 1 .. Len(content'[f])
                 PROVE  content'[f][i][2] < version'[f]
      OBVIOUS
    <3>1. CASE i = disk'[f]
      BY <1>4, <1>5, <2>1, <3>1
    <3>2. CASE i # disk'[f]
      <4>1. content'[f][i] = content[f][i] /\ content[f][i] \in Nat \X Nat
        BY <1>1, <1>5, <3>2 DEF WatchTypeOK
      <4>2. content[f][i][2] <= version[f]
        BY <1>1, <1>5, <3>2 DEF FileInv, Inodes
      <4> QED
        BY <1>4, <2>1, <4>1, <4>2
    <3> QED
      BY <3>1, <3>2
  <2>3. ran'[f] = ran[f] /\ ran[f][2] < version'[f]
    BY <1>1, <1>4, <2>1 DEF FileInv, Inodes, loopVars
  <2>4. \A i \in 1 .. Len(content'[f]) : content'[f][i][2] \in Nat
    BY <1>5
  <2>5. Inodes(f)'
    <3>1. disk'[f] \in 0 .. Len(content'[f])
      BY <1>5
    <3>2. f \in ArgFiles => watched'[f] \in 1 .. Len(content'[f])
      BY <1>1, <1>4, <1>5 DEF FileInv, Inodes, WatchTypeOK
    <3>3. pc' = "reading" /\ reading'.file = f => reading'.inode \in 1 .. Len(content'[f])
      BY <1>1, <1>4, <1>5 DEF FileInv, Inodes, loopVars
    <3>4. version'[f] \in Nat /\ ran[f][2] \in Nat
      BY <1>4, <2>1
    <3>5. ran'[f][2] <= version'[f]
      BY <2>3, <3>4
    <3>6. \A i \in 1 .. Len(content'[f]) : content'[f][i][2] <= version'[f]
      BY <2>2, <2>4, <3>4
    <3> QED
      BY <3>1, <3>2, <3>3, <3>5, <3>6 DEF Inodes
  <2>6. OnDisk(f)'
    BY <1>4, <1>5 DEF OnDisk
  <2>7. Newest(f)'
    BY <2>1, <2>2, <2>4, <1>4 DEF Newest
  <2>8. RanNewest(f)' /\ Known(f)'
    BY <2>1, <2>3, <1>4 DEF RanNewest, Known, Saved, Whole
  <2> QED
    BY <2>5, <2>6, <2>7, <2>8 DEF FileInv
<1> QED
  BY <1>6, <1>7, <1>8 DEF WatchInv

\* The second half completes a save, of which an event tells.
LEMMA WriteHalfInv ==
  ASSUME WatchInv, NEW f \in Files, WriteHalf(f)
  PROVE  WatchInv'
<1>1. WatchTypeOK /\ FileInv(f)
  BY DEF WatchInv
<1>2. Post(f, "write")
  BY DEF WriteHalf
<1>3. /\ queue' \in Seq(Events) /\ lost' \subseteq Files
      /\ ToSet(queue) \subseteq ToSet(queue') /\ lost' \ {f} = lost \ {f}
      /\ Seen(f) /\ f \notin lost' => [file |-> f, op |-> "write"] \in ToSet(queue')
  BY <1>1, <1>2, Posted DEF WatchTypeOK
<1>4. /\ writing[f] \in {1, 2} /\ writing' \in [Files -> 0 .. 2]
      /\ writing'[f] = IF writing[f] = 1 THEN 2 ELSE 0
      /\ \A g \in Files \ {f} : writing'[g] = writing[g]
      /\ UNCHANGED <<disk, version, watched, loopVars>>
      /\ version[f] \in Nat \ {0}
  BY <1>1 DEF WriteHalf, WatchTypeOK
<1> DEFINE new == IF writing[f] = 1 THEN <<version[f], 0>> ELSE Whole(f)
<1>5. disk[f] \in 1 .. Len(content[f])
  BY <1>1, <1>4 DEF FileInv, Inodes, OnDisk, WatchTypeOK
<1>6. content' = [content EXCEPT ![f] = [@ EXCEPT ![disk[f]] = new]]
  <2>1. content[f][disk[f]] = IF writing[f] = 1 THEN <<0, 0>> ELSE <<version[f], 0>>
    BY <1>1, <1>4 DEF FileInv, OnDisk
  <2>2. [content[f][disk[f]] EXCEPT ![writing[f]] = version[f]] = new
    BY <1>4, <2>1 DEF Whole
  <2>3. content' = [content EXCEPT ![f] = [@ EXCEPT
                      ![disk[f]] = [content[f][disk[f]] EXCEPT ![writing[f]] = version[f]]]]
    BY DEF WriteHalf
  <2> HIDE DEF new
  <2> QED
    BY <2>2, <2>3
<1>7. /\ content' \in [Files -> Seq(Nat \X Nat)]
      /\ \A g \in Files \ {f} : content'[g] = content[g]
      /\ Len(content'[f]) = Len(content[f]) /\ Len(content[f]) \in Nat
      /\ content'[f][disk[f]] = new
      /\ \A i \in 1 .. Len(content[f]) : i # disk[f] => content'[f][i] = content[f][i]
  <2>1. new \in Nat \X Nat
    BY <1>4 DEF Whole
  <2> HIDE DEF new
  <2> QED
    BY <1>1, <1>5, <1>6, <2>1, Overwritten
<1>8. WatchTypeOK'
  BY <1>1, <1>3, <1>4, <1>7 DEF WatchTypeOK, loopVars
<1>9. ASSUME NEW g \in Files, g # f PROVE FileInv(g)'
  BY <1>3, <1>4, <1>7, <1>9, Undisturbed DEF WatchInv
<1>10. FileInv(f)'
  <2>1. Inodes(f)'
    <3>1. \A i \in 1 .. Len(content'[f]) : content'[f][i][2] <= version'[f]
      <4> SUFFICES ASSUME NEW i \in 1 .. Len(content[f])
                   PROVE  content'[f][i][2] <= version[f]
        BY <1>4, <1>7
      <4>1. CASE i = disk[f]
        BY <1>4, <1>7, <4>1 DEF Whole
      <4>2. CASE i # disk[f]
        BY <1>1, <1>7, <4>2 DEF FileInv, Inodes
      <4> QED
        BY <4>1, <4>2
    <3> QED
      BY <1>1, <1>4, <1>7, <3>1 DEF FileInv, Inodes, loopVars
  <2>2. OnDisk(f)'
    BY <1>1, <1>4, <1>5, <1>7 DEF OnDisk, Whole
  <2>3. Newest(f)'
    <3>1. \A i \in 1 .. Len(content[f]) : content[f][i][2] # version[f]
      BY <1>1, <1>4 DEF FileInv, Newest
    <3> SUFFICES ASSUME NEW i \in 1 .. Len(content[f]), content'[f][i][2] = version[f]
                 PROVE  writing'[f] = 0 /\ disk[f] = i
      BY <1>4, <1>7 DEF Newest
    <3>2. i = disk[f]
      BY <1>7, <3>1
    <3>3. new[2] = version[f]
      BY <1>7, <3>2
    <3>4. writing[f] # 1
      BY <1>4, <3>3
    <3> QED
      BY <1>4, <3>2, <3>4
  <2>4. RanNewest(f)'
    BY <1>1, <1>4 DEF FileInv, RanNewest, Whole, loopVars
  <2>5. Known(f)'
    <3> SUFFICES ASSUME Saved(f)' PROVE Expected(f)'
      BY DEF Known
    <3>1. Seen(f) /\ f \notin lost'
      BY <1>4 DEF Saved, Seen
    <3> DEFINE e == [file |-> f, op |-> "write"]
    <3>2. e \in ToSet(queue') /\ e # None
      BY <1>3, <3>1, WatchAssumption DEF Events
    <3> QED
      BY <3>2 DEF Expected
  <2> QED
    BY <2>1, <2>2, <2>3, <2>4, <2>5 DEF FileInv
<1> QED
  BY <1>8, <1>9, <1>10 DEF WatchInv

\* So does a new file in the place of the old one, unless it is an argument, which is not
\* seen any more.
LEMMA ReplaceInv ==
  ASSUME WatchInv, NEW f \in Files, Replace(f)
  PROVE  WatchInv'
<1> DEFINE op == IF f \in DirFiles THEN "create" ELSE "remove"
           new == <<version'[f], version'[f]>>
<1>1. WatchTypeOK /\ FileInv(f)
  BY DEF WatchInv
<1>2. Post(f, op)
  BY DEF Replace
<1>3. /\ queue' \in Seq(Events) /\ lost' \subseteq Files
      /\ ToSet(queue) \subseteq ToSet(queue') /\ lost' \ {f} = lost \ {f}
      /\ Seen(f) /\ f \notin lost' => [file |-> f, op |-> op] \in ToSet(queue')
  BY <1>1, <1>2, Posted DEF WatchTypeOK
<1>4. /\ version' \in [Files -> Nat \ {0}] /\ version'[f] = version[f] + 1
      /\ \A g \in Files \ {f} : version'[g] = version[g]
      /\ writing[f] = 0
      /\ UNCHANGED <<writing, watched, loopVars>>
  BY <1>1 DEF Replace, WatchTypeOK
<1>5. /\ content' \in [Files -> Seq(Nat \X Nat)] /\ disk' \in [Files -> Nat]
      /\ \A g \in Files \ {f} : content'[g] = content[g] /\ disk'[g] = disk[g]
      /\ Len(content[f]) \in Nat /\ Len(content'[f]) = Len(content[f]) + 1
      /\ disk'[f] = Len(content[f]) + 1
      /\ content'[f][disk'[f]] = new
      /\ \A i \in 1 .. Len(content[f]) : content'[f][i] = content[f][i]
  <2>1. new \in Nat \X Nat /\ NewInode(f, new)
    BY <1>4 DEF Replace
  <2> HIDE DEF new
  <2> QED
    BY <1>1, <2>1, NewInodeOf
<1>6. WatchTypeOK'
  BY <1>1, <1>3, <1>4, <1>5 DEF WatchTypeOK, loopVars
<1>7. ASSUME NEW g \in Files, g # f PROVE FileInv(g)'
  BY <1>3, <1>4, <1>5, <1>7, Undisturbed DEF WatchInv
<1>8. FileInv(f)'
  <2>1. version[f] \in Nat \ {0} /\ ran[f] \in Nat \X Nat
    BY <1>1 DEF WatchTypeOK
  <2>2. \A i \in 1 .. Len(content[f]) :
          content'[f][i][2] \in Nat /\ content'[f][i][2] < version'[f]
    <3> SUFFICES ASSUME NEW i \in 1 .. Len(content[f])
                 PROVE  content'[f][i][2] \in Nat /\ content'[f][i][2] < version'[f]
      OBVIOUS
    <3>1. content'[f][i] = content[f][i] /\ content[f][i] \in Nat \X Nat
      BY <1>1, <1>5 DEF WatchTypeOK
    <3>2. content[f][i][2] <= version[f]
      BY <1>1 DEF FileInv, Inodes
    <3> QED
      BY <1>4, <2>1, <3>1, <3>2
  <2>3. ran'[f] = ran[f] /\ ran[f][2] < version'[f] /\ ran[f][2] \in Nat
    BY <1>1, <1>4, <2>1 DEF FileInv, Inodes, loopVars
  <2>4. \A i \in 1 .. Len(content'[f]) : i \in 1 .. Len(content[f]) \/ i = disk'[f]
    BY <1>5
  <2>5. Inodes(f)'
    <3>1. disk'[f] \in 0 .. Len(content'[f])
      BY <1>5
    <3>2. f \in ArgFiles => watched'[f] \in 1 .. Len(content'[f])
      BY <1>1, <1>4, <1>5 DEF FileInv, Inodes, WatchTypeOK
    <3>3. pc' = "reading" /\ reading'.file = f => reading'.inode \in 1 .. Len(content'[f])
      BY <1>1, <1>4, <1>5 DEF FileInv, Inodes, loopVars
    <3>4. version'[f] \in Nat
      BY <1>4, <2>1
    <3>5. ran'[f][2] <= version'[f]
      BY <2>3, <3>4
    <3>6. \A i \in 1 .. Len(content'[f]) : content'[f][i][2] <= version'[f]
      <4> SUFFICES ASSUME NEW i \in 1 .. Len(content'[f])
                   PROVE  content'[f][i][2] <= version'[f]
        OBVIOUS
      <4>1. CASE i \in 1 .. Len(content[f])
        BY <2>2, <3>4, <4>1
      <4>2. CASE i = disk'[f]
        BY <1>5, <3>4, <4>2
      <4> QED
        BY <2>4, <4>1, <4>2
    <3> QED
      BY <3>1, <3>2, <3>3, <3>5, <3>6 DEF Inodes
  <2>6. OnDisk(f)'
    BY <1>4, <1>5 DEF OnDisk, Whole
  <2>7. Newest(f)'
    BY <2>2, <2>4, <1>4 DEF Newest
  <2>8. RanNewest(f)'
    BY <2>3 DEF RanNewest, Whole
  <2>9. Known(f)'
    <3> SUFFICES ASSUME Saved(f)' PROVE Expected(f)'
      BY DEF Known
    <3>1. f \in DirFiles
      <4>1. Seen(f)' /\ watched' = watched
        BY <1>4 DEF Saved
      <4>2. CASE f \in ArgFiles
        <5>1. watched[f] \in 1 .. Len(content[f])
          BY <1>1, <4>2 DEF FileInv, Inodes
        <5>2. watched'[f] # disk'[f]
          BY <1>5, <4>1, <5>1
        <5> QED
          BY <4>1, <5>2 DEF Seen
      <4> QED
        BY <4>2 DEF Files
    <3> DEFINE e == [file |-> f, op |-> "create"]
    <3>2. e \in ToSet(queue') /\ e # None
      BY <1>3, <3>1, WatchAssumption DEF Events, Saved, Seen
    <3> QED
      BY <3>2 DEF Expected
  <2> QED
    BY <2>5, <2>6, <2>7, <2>8, <2>9 DEF FileInv
<1> QED
  BY <1>6, <1>7, <1>8 DEF WatchInv

\* Of a file that is deleted there is nothing to run.
LEMMA DeleteInv ==
  ASSUME WatchInv, NEW f \in Files, Delete(f)
  PROVE  WatchInv'
<1>1. WatchTypeOK /\ FileInv(f)
  BY DEF WatchInv
<1>2. Post(f, "remove")
  BY DEF Delete
<1>3. /\ queue' \in Seq(Events) /\ lost' \subseteq Files
      /\ ToSet(queue) \subseteq ToSet(queue') /\ lost' \ {f} = lost \ {f}
  BY <1>1, <1>2, Posted DEF WatchTypeOK
<1>4. /\ disk' \in [Files -> Nat] /\ disk'[f] = 0 /\ writing[f] = 0
      /\ \A g \in Files \ {f} : disk'[g] = disk[g]
      /\ UNCHANGED <<content, version, writing, watched, loopVars>>
  BY <1>1 DEF Delete, WatchTypeOK
<1>5. WatchTypeOK'
  BY <1>1, <1>3, <1>4 DEF WatchTypeOK, loopVars
<1>6. ASSUME NEW g \in Files, g # f PROVE FileInv(g)'
  BY <1>3, <1>4, <1>6, Undisturbed DEF WatchInv
<1>7. FileInv(f)'
  <2>1. Inodes(f)'
    BY <1>1, <1>4 DEF FileInv, Inodes, WatchTypeOK, loopVars
  <2>2. OnDisk(f)' /\ Newest(f)' /\ RanNewest(f)'
    BY <1>1, <1>4 DEF FileInv, OnDisk, Newest, RanNewest, Whole, loopVars
  <2>3. Known(f)'
    BY <1>4 DEF Known, Saved
  <2> QED
    BY <2>1, <2>2, <2>3 DEF FileInv
<1> QED
  BY <1>5, <1>6, <1>7 DEF WatchInv

-----------------------------------------------------------------------------
\* An event that fsnotify takes from the queue is offered, if its file exists.
LEMMA OfferInv ==
  ASSUME WatchInv, Offer
  PROVE  WatchInv'
<1> DEFINE e == Head(queue)
<1>1. WatchTypeOK
  BY DEF WatchInv
<1>2. /\ offered = None /\ e \in Events /\ queue' \in Seq(Events)
      /\ offered' = IF e.op # "remove" /\ disk[e.file] = 0 THEN None ELSE e
      /\ UNCHANGED <<editorVars, lost, pc, reading, ran>>
  BY <1>1 DEF Offer, WatchTypeOK
<1>3. \A x \in ToSet(queue) : x = e \/ x \in ToSet(queue')
  <2> SUFFICES ASSUME NEW i \in 1 .. Len(queue)
               PROVE  queue[i] = e \/ queue[i] \in ToSet(queue')
    <3>1. DOMAIN queue = 1 .. Len(queue)
      BY <1>1 DEF WatchTypeOK
    <3> HIDE DEF e
    <3> QED
      BY <3>1 DEF ToSet
  <2>1. CASE i = 1
    BY <1>1, <2>1 DEF WatchTypeOK
  <2>2. CASE i # 1
    <3>1. /\ Len(queue') = Len(queue) - 1 /\ DOMAIN queue' = 1 .. Len(queue')
          /\ \A j \in 1 .. Len(queue) - 1 : queue'[j] = queue[j + 1]
      BY <1>1 DEF Offer, WatchTypeOK
    <3>2. i - 1 \in 1 .. Len(queue) - 1 /\ (i - 1) + 1 = i
      BY <1>1, <2>2 DEF WatchTypeOK
    <3>3. queue'[i - 1] = queue[i] /\ i - 1 \in DOMAIN queue'
      BY <3>1, <3>2
    <3> QED
      BY <3>3 DEF ToSet
  <2> QED
    BY <2>1, <2>2
<1>4. WatchTypeOK'
  BY <1>1, <1>2 DEF WatchTypeOK, editorVars
<1>5. ASSUME NEW f \in Files PROVE FileInv(f)'
  <2>1. FileInv(f)
    BY DEF WatchInv
  <2>2. Inodes(f)' /\ OnDisk(f)' /\ Newest(f)' /\ RanNewest(f)'
    BY <1>2, <2>1 DEF FileInv, Inodes, OnDisk, Newest, RanNewest, Whole, editorVars
  <2>3. Known(f)'
    <3> SUFFICES ASSUME Saved(f)', Expected(f) PROVE Expected(f)'
      BY <1>2, <2>1 DEF FileInv, Known, Saved, Seen, Whole, BeingRead, editorVars
    <3>1. PICK x \in ToSet(queue) :
                 x # None /\ x.file = f /\ x.op \in {"create", "write"}
      BY <1>2 DEF Expected
    <3>2. CASE x = e
      <4>1. offered' = x
        BY <1>2, <3>1, <3>2 DEF Saved, editorVars
      <4> QED
        BY <3>1, <4>1 DEF Expected
    <3>3. CASE x \in ToSet(queue')
      BY <3>1, <3>3 DEF Expected
    <3> QED
      BY <1>3, <3>2, <3>3
  <2> QED
    BY <2>1, <2>2, <2>3 DEF FileInv
<1> QED
  BY <1>4, <1>5 DEF WatchInv

\* The event that the loop takes has its file read from the start.
LEMMA TakeInv ==
  ASSUME WatchInv, Take
  PROVE  WatchInv'
<1> DEFINE r == [file |-> offered.file, inode |-> disk[offered.file],
                 first |-> content[offered.file][disk[offered.file]][1]]
           reads == offered.op \in {"create", "write"} /\ disk[offered.file] # 0
<1>1. WatchTypeOK /\ pc = "idle" /\ offered \in Events /\ offered.file \in Files
  BY DEF WatchInv, WatchTypeOK, Take, Events
<1>2. /\ offered' = None
      /\ reads => pc' = "reading" /\ reading' = r
      /\ ~reads => UNCHANGED <<pc, reading>>
      /\ UNCHANGED <<editorVars, eventVars, ran>>
  BY DEF Take, isValidEvent
<1>3. reads => disk[offered.file] \in 1 .. Len(content[offered.file])
  BY <1>1 DEF WatchInv, FileInv, Inodes, WatchTypeOK
<1>4. reads => r \in [file : Files, inode : Nat, first : Nat]
  <2>1. reads => content[offered.file][disk[offered.file]] \in Nat \X Nat
    BY <1>1, <1>3 DEF WatchTypeOK
  <2> QED
    BY <1>1, <2>1 DEF WatchTypeOK
<1>5. WatchTypeOK'
  BY <1>1, <1>2, <1>4 DEF WatchTypeOK, editorVars, eventVars
<1>6. ASSUME NEW f \in Files PROVE FileInv(f)'
  <2>1. FileInv(f) /\ version[f] \in Nat \ {0}
    BY <1>1 DEF WatchInv, WatchTypeOK
  <2>2. Inodes(f)'
    BY <1>1, <1>2, <1>3, <2>1 DEF FileInv, Inodes, editorVars
  <2>3. OnDisk(f)' /\ Newest(f)'
    BY <1>2, <2>1 DEF FileInv, OnDisk, Newest, Whole, editorVars
  <2>4. pc' = "reading" /\ reading'.file = f /\ writing[f] = 0 =>
          reading'.inode = disk[f] /\ reading'.first = version[f]
    BY <1>1, <1>2, <2>1 DEF FileInv, OnDisk, Whole
  <2>5. RanNewest(f)'
    BY <1>1, <1>2, <2>1, <2>4 DEF FileInv, RanNewest, Whole, editorVars
  <2>6. Known(f)'
    <3> SUFFICES ASSUME Saved(f)', Expected(f) PROVE Expected(f)' \/ BeingRead(f)'
      BY <1>1, <1>2, <2>1
      DEF FileInv, Known, Saved, Seen, Whole, BeingRead, editorVars, eventVars
    <3>1. PICK x \in ToSet(queue) \cup {offered} :
                 x # None /\ x.file = f /\ x.op \in {"create", "write"}
      BY DEF Expected
    <3>2. CASE x = offered
      <4>1. reads /\ writing[f] = 0
        BY <1>2, <3>1, <3>2 DEF Saved, editorVars
      <4> QED
        BY <1>2, <2>4, <3>1, <3>2, <4>1 DEF BeingRead, editorVars
    <3>3. CASE x \in ToSet(queue)
      BY <1>2, <3>1, <3>3 DEF Expected, eventVars
    <3> QED
      BY <3>1, <3>2, <3>3
  <2> QED
    BY <2>2, <2>3, <2>5, <2>6 DEF FileInv
<1> QED
  BY <1>5, <1>6 DEF WatchInv

\* What is read of a file that is saved, from its start, is the last version.
LEMMA ReadsWhole ==
  ASSUME WatchInv, NEW f \in Files, Saved(f), BeingRead(f)
  PROVE  Read = Whole(f) /\ version[f] \in Nat \ {0}
<1>1. content[f][disk[f]] = Whole(f) /\ version[f] \in Nat \ {0}
  BY DEF WatchInv, WatchTypeOK, FileInv, OnDisk, Saved
<1> QED
  BY <1>1 DEF Read, BeingRead, Whole

\* So a file that is known to the loop in this way alone can be loaded.
LEMMA LoadFailsInv ==
  ASSUME WatchInv, LoadFails
  PROVE  WatchInv'
<1>1. WatchTypeOK /\ pc = "reading" /\ pc' = "idle"
      /\ UNCHANGED <<editorVars, eventVars, offered, ran>>
  BY DEF WatchInv, LoadFails
<1>2. WatchTypeOK'
  BY <1>1 DEF WatchTypeOK, editorVars, eventVars
<1>3. ASSUME NEW f \in Files PROVE FileInv(f)'
  <2>1. FileInv(f)
    BY DEF WatchInv
  <2>2. Inodes(f)' /\ OnDisk(f)' /\ Newest(f)' /\ RanNewest(f)'
    BY <1>1, <2>1 DEF FileInv, Inodes, OnDisk, Newest, RanNewest, Whole, editorVars
  <2>3. Known(f)'
    <3>1. ~(Saved(f) /\ BeingRead(f))
      <4> SUFFICES ASSUME Saved(f), BeingRead(f) PROVE FALSE
        OBVIOUS
      <4>1. Read = <<version[f], version[f]>> /\ version[f] \in Nat \ {0}
        BY ReadsWhole DEF Whole
      <4>2. ToSet(Read) = {version[f]} /\ Read[1] = Read[2]
        BY <4>1 DEF ToSet
      <4> QED
        BY <4>1, <4>2 DEF LoadFails
    <3> QED
      BY <1>1, <2>1, <3>1
      DEF FileInv, Known, Saved, Seen, Whole, Expected, editorVars, eventVars
  <2> QED
    BY <2>2, <2>3 DEF FileInv
<1> QED
  BY <1>2, <1>3 DEF WatchInv

\* The run is of what was read, which takes no newer version away.
LEMMA RunSuiteInv ==
  ASSUME WatchInv, RunSuite
  PROVE  WatchInv'
<1> DEFINE h == reading.file
<1>1. /\ WatchTypeOK /\ pc = "reading" /\ pc' = "running"
      /\ h \in Files /\ reading.inode \in 1 .. Len(content[h])
      /\ ran' = [ran EXCEPT ![h] = Read]
      /\ UNCHANGED <<editorVars, eventVars, offered>>
  BY DEF WatchInv, RunSuite, WatchTypeOK, FileInv, Inodes
<1>2. Read \in Nat \X Nat /\ Read[2] = content[h][reading.inode][2]
  <2>1. content[h][reading.inode] \in Nat \X Nat /\ reading.first \in Nat
    BY <1>1 DEF WatchTypeOK
  <2> QED
    BY <2>1 DEF Read
<1>3. WatchTypeOK'
  BY <1>1, <1>2 DEF WatchTypeOK, editorVars, eventVars
<1>4. ASSUME NEW f \in Files PROVE FileInv(f)'
  <2>1. FileInv(f) /\ version[f] \in Nat \ {0}
    BY <1>1 DEF WatchInv, WatchTypeOK
  <2>2. ran'[f] = IF f = h THEN Read ELSE ran[f]
    BY <1>1 DEF WatchTypeOK
  <2>3. Inodes(f)'
    <3>1. ran'[f][2] <= version[f]
      BY <1>1, <1>2, <2>1, <2>2 DEF FileInv, Inodes
    <3> QED
      BY <1>1, <2>1, <3>1 DEF FileInv, Inodes, editorVars
  <2>4. OnDisk(f)' /\ Newest(f)'
    BY <1>1, <2>1 DEF FileInv, OnDisk, Newest, Whole, editorVars
  <2>5. RanNewest(f)'
    <3>1. ran'[f] = Whole(f) => writing[f] = 0
      BY <1>1, <1>2, <2>1, <2>2 DEF FileInv, Newest, RanNewest, Whole
    <3> QED
      BY <1>1, <3>1 DEF RanNewest, Whole, editorVars
  <2>6. Known(f)'
    <3> SUFFICES ASSUME Saved(f), ~Expected(f) PROVE ran'[f] = Whole(f)
      BY <1>1 DEF Known, Saved, Seen, Whole, Expected, editorVars, eventVars
    <3>1. ran[f] = Whole(f) \/ BeingRead(f)
      BY <2>1 DEF FileInv, Known
    <3>2. CASE f # h
      BY <1>1, <2>2, <3>1, <3>2 DEF BeingRead
    <3>3. CASE f = h
      <4>1. BeingRead(f)
        BY <1>1, <2>1, <3>1, <3>3 DEF FileInv, RanNewest, Saved, BeingRead
      <4> QED
        BY <2>2, <3>3, <4>1, ReadsWhole
    <3> QED
      BY <3>2, <3>3
  <2> QED
    BY <2>3, <2>4, <2>5, <2>6 DEF FileInv
<1> QED
  BY <1>3, <1>4 DEF WatchInv

\* The end of a run, and waiting, change nothing that matters.
LEMMA RestInv ==
  ASSUME WatchInv, RunEnds \/ UNCHANGED vars
  PROVE  WatchInv'
<1>1. /\ UNCHANGED <<editorVars, eventVars, offered, reading, ran>>
      /\ pc' = pc \/ (pc = "running" /\ pc' = "idle")
  BY DEF RunEnds, vars, loopVars
<1>2. WatchTypeOK'
  BY <1>1 DEF WatchInv, WatchTypeOK, editorVars, eventVars
<1>3. ASSUME NEW f \in Files PROVE FileInv(f)'
  <2>1. FileInv(f)
    BY DEF WatchInv
  <2>2. Inodes(f)' /\ OnDisk(f)' /\ Newest(f)' /\ RanNewest(f)'
    BY <1>1, <2>1 DEF FileInv, Inodes, OnDisk, Newest, RanNewest, Whole, editorVars
  <2>3. Known(f)'
    BY <1>1, <2>1
    DEF FileInv, Known, Saved, Seen, Whole, BeingRead, Expected, editorVars, eventVars
  <2> QED
    BY <2>2, <2>3 DEF FileInv
<1> QED
  BY <1>2, <1>3 DEF WatchInv

-----------------------------------------------------------------------------
\* What is said of every file is an inductive invariant.
THEOREM WatchInvariance == Spec => []WatchInv
<1>1. WatchInv /\ [Next]_vars => WatchInv'
  BY BeginSaveInv, WriteHalfInv, ReplaceInv, DeleteInv, OfferInv, TakeInv, LoadFailsInv,
     RunSuiteInv, RestInv
  DEF Next, LoopStep, Waits
<1> QED
  BY WatchInitInv, <1>1, PTL DEF Spec

\* A save that is complete and was seen has been run as it is on disk, or is about to be
\* (watch.go:78-83).
THEOREM ForgetsNothing == Spec => []NothingForgotten
<1>1. WatchInv => NothingForgotten
  BY DEF WatchInv, FileInv, Known, BeingRead, Expected, NothingForgotten
<1> QED
  BY <1>1, WatchInvariance, PTL
=============================================================================
