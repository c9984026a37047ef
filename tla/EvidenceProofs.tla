--------------------------- MODULE EvidenceProofs ---------------------------
(***************************************************************************)
(* For any number of captures, ids, commands, edits and commits: what a    *)
(* capture has written stays, what its header says of its command and of   *)
(* the tree the command ran in is true, verify accepts nothing but a whole *)
(* capture, and the exit code tells whether there is one.                  *)
(*                                                                         *)
(* The invariant follows a capture from its command to its file: what is   *)
(* known of the tree and the label while it runs, that they are in the     *)
(* text it is to write, and that its file is a beginning of that text.  A  *)
(* second one, on top of it, follows the digest that closes the text, the  *)
(* exit code that stands for the label, and what was printed.              *)
(***************************************************************************)
EXTENDS Evidence, SequenceTheorems, TLAPS

Stages == {"check", "run", "rev_parse", "status", "open", "write"} \union Ended
Running == {"run", "rev_parse", "status"}
Written == {"write"} \union Ended

Record(q) ==
  q \in [ pc : Stages, id : {q.id}, ran : {q.ran}, ended : {q.ended}, out : {q.out},
          label : {q.label}, code : {q.code}, sha : {q.sha}, whole : {q.whole}, exit : {q.exit} ]

\* Processes, files and the tree keep their fields.
Shape ==
  /\ proc = [ p \in Captures |-> proc[p] ]
  /\ \A p \in Captures : Record(proc[p])
  /\ files = [ id \in ValidIds |-> files[id] ]
  /\ tree = [ commit |-> tree.commit, changed |-> tree.changed ]
  /\ tree.changed \subseteq {"code", "capture"}

\* In the following q is a process, t the tree, and quiet says that nothing was edited
\* or committed while its command ran.
SameTree(q, t) == t.commit = q.ran.commit /\ ("code" \in t.changed <=> "code" \in q.ran.changed)
TrueLabel(q, label) == label \in {Timeout, CouldNotStart, q.ended}

\* What a header may say
TrueHeader(q, quiet, header) ==
  /\ TrueLabel(q, header.label)
  /\ quiet /\ header.commit # Claimed =>
       header.commit = q.ran.commit /\ (header.dirty = "no" <=> "code" \notin q.ran.changed)

IsText(s) == \E Part : s \in Seq(Part)

\* The text that q is to write begins with a true header.
TrueText(q, quiet) == IsText(q.whole) /\ q.whole # << >> /\ TrueHeader(q, quiet, q.whole[1])

\* What holds of a process on its way, by stages
OnItsWay(q, t, quiet) ==
  /\ IsText(q.out)
  /\ q.pc \in Running \union {"open", "write"} => q.id \in ValidIds
  /\ q.pc \in Running /\ quiet => SameTree(q, t)
  /\ q.pc \in {"rev_parse", "status"} => TrueLabel(q, q.label)
  /\ q.pc = "status" /\ quiet => q.sha \in {Claimed, q.ran.commit}
  /\ q.pc \in {"open", "write"} => TrueText(q, quiet)

\* What is in a file f of id: a beginning of its process's text
Beginning(f, q) == Len(f.text) \in 0..Len(q.whole) /\ f.text = SubSeq(q.whole, 1, Len(f.text))
FileOf(id, f, q, quiet) ==
  /\ f = [ by |-> f.by, text |-> f.text ]
  /\ q.id = id /\ q.pc \in Written
  /\ TrueText(q, quiet) /\ Beginning(f, q)
  /\ q.pc = "write" => Len(f.text) < Len(q.whole)

Quiet(p) == p \notin disturbed
Way == \A p \in Captures : OnItsWay(proc[p], tree, Quiet(p))
Disk ==
  /\ \A id \in ValidIds : files[id] # NoFile =>
       files[id].by \in Captures /\ FileOf(id, files[id], proc[files[id].by], Quiet(files[id].by))
  /\ \A p \in Captures : proc[p].pc = "write" =>
       files[proc[p].id] # NoFile /\ files[proc[p].id].by = p

IInv == Shape /\ Way /\ Disk

-----------------------------------------------------------------------------
\* A step of one process that leaves the disk alone keeps the invariant, if the process
\* is on its way, and still stands by its file if it has one.
LEMMA BecomesKeeps ==
  ASSUME IInv, NEW p \in Captures, NEW q, Becomes(p, q), Record(q), OnItsWay(q, tree, Quiet(p)),
         q.id = proc[p].id,
         proc[p].pc \in Written =>
           q.pc \in Ended /\ q.whole = proc[p].whole /\ q.ran = proc[p].ran /\ q.ended = proc[p].ended,
         q.pc # "write"
  PROVE  IInv'
<1>1. proc' = [ proc EXCEPT ![p] = q ] /\ UNCHANGED << tree, edits, disturbed, files >>
  BY DEF Becomes
<1>2. proc'[p] = q /\ \A o \in Captures \ {p} : proc'[o] = proc[o]
  BY <1>1 DEF IInv, Shape
<1>3. Shape'
  BY <1>1, <1>2 DEF IInv, Shape, Record
<1>4. Way'
  BY <1>1, <1>2 DEF IInv, Way, Quiet
<1>5. ASSUME NEW id \in ValidIds, files'[id] # NoFile
      PROVE  (files[id].by \in Captures /\ FileOf(id, files[id], proc[files[id].by], Quiet(files[id].by)))'
  <2>1. files[id].by \in Captures /\ FileOf(id, files[id], proc[files[id].by], Quiet(files[id].by))
    BY <1>1, <1>5 DEF IInv, Disk
  <2>2. CASE files[id].by # p
    BY <1>1, <1>2, <2>1, <2>2 DEF Quiet
  <2>3. CASE files[id].by = p
    <3>1. proc[p].pc \in Written
      BY <2>1, <2>3 DEF FileOf
    <3> QED
      BY <1>1, <1>2, <2>1, <2>3, <3>1
      DEF FileOf, TrueText, TrueHeader, TrueLabel, Beginning, Written, Ended, Quiet
  <2> QED
    BY <2>2, <2>3
<1>6. Disk'
  BY <1>1, <1>2, <1>5 DEF IInv, Disk, Written, Ended
<1> QED
  BY <1>3, <1>4, <1>6 DEF IInv

\* So does a step that writes: the file was not there, or is its own.
LEMMA WritesKeeps ==
  ASSUME IInv, NEW p \in Captures, NEW q, NEW f, Writes(p, q, f), Record(q), OnItsWay(q, tree, Quiet(p)),
         q.id = proc[p].id, proc[p].id \in ValidIds, q.pc \in Written,
         files[q.id] = NoFile \/ files[q.id].by = p,
         f # NoFile, f.by = p, FileOf(q.id, f, q, Quiet(p))
  PROVE  IInv'
<1> DEFINE id0 == proc[p].id
<1>1. /\ proc' = [ proc EXCEPT ![p] = q ] /\ files' = [ files EXCEPT ![id0] = f ]
      /\ tree' = [ tree EXCEPT !.changed = @ \union {"capture"} ]
      /\ UNCHANGED << edits, disturbed >>
  BY DEF Writes
<1>2. /\ proc'[p] = q /\ \A o \in Captures \ {p} : proc'[o] = proc[o]
      /\ files'[id0] = f /\ \A id \in ValidIds \ {id0} : files'[id] = files[id]
      /\ tree'.commit = tree.commit /\ ("code" \in tree'.changed <=> "code" \in tree.changed)
  BY <1>1 DEF IInv, Shape
<1>3. Shape'
  BY <1>1, <1>2 DEF IInv, Shape, Record
<1>4. Way'
  <2>1. ASSUME NEW x, NEW quiet, OnItsWay(x, tree, quiet) PROVE OnItsWay(x, tree', quiet)
    BY <1>2, <2>1 DEF OnItsWay, SameTree
  <2>2. \A o \in Captures : OnItsWay(proc'[o], tree, Quiet(o))
    BY <1>2 DEF IInv, Way
  <2> QED
    BY <1>1, <2>1, <2>2 DEF Way, Quiet
<1>5. ASSUME NEW id \in ValidIds, files'[id] # NoFile
      PROVE  (files[id].by \in Captures /\ FileOf(id, files[id], proc[files[id].by], Quiet(files[id].by)))'
  <2>1. CASE id = id0
    BY <1>1, <1>2, <2>1 DEF Quiet
  <2>2. CASE id # id0
    <3>1. files[id].by \in Captures /\ FileOf(id, files[id], proc[files[id].by], Quiet(files[id].by))
      BY <1>2, <1>5, <2>2 DEF IInv, Disk
    <3>2. files[id].by # p
      BY <2>2, <3>1 DEF FileOf
    <3> QED
      BY <1>1, <1>2, <2>2, <3>1, <3>2 DEF Quiet
  <2> QED
    BY <2>1, <2>2
<1>6. ASSUME NEW o \in Captures, proc'[o].pc = "write"
      PROVE  files'[proc'[o].id] # NoFile /\ files'[proc'[o].id].by = o
  <2>1. CASE o = p
    BY <1>2, <2>1
  <2>2. CASE o # p
    <3>1. files[proc[o].id] # NoFile /\ files[proc[o].id].by = o /\ proc[o].id \in ValidIds
      BY <1>2, <1>6, <2>2 DEF IInv, Disk, Way, OnItsWay
    <3>2. proc[o].id # id0
      BY <2>2, <3>1
    <3> QED
      BY <1>2, <2>2, <3>1, <3>2
  <2> QED
    BY <2>1, <2>2
<1> QED
  BY <1>3, <1>4, <1>5, <1>6 DEF IInv, Disk

\* A process that goes on keeps all but what the step is about.
LEMMA GotoFacts ==
  ASSUME IInv, NEW p \in Captures, NEW stage \in Stages
  PROVE  LET q == Goto(p, stage) IN
         /\ Record(q) /\ q.pc = stage
         /\ q.id = proc[p].id /\ q.ran = proc[p].ran /\ q.ended = proc[p].ended
         /\ q.out = proc[p].out /\ q.label = proc[p].label /\ q.code = proc[p].code
         /\ q.sha = proc[p].sha /\ q.whole = proc[p].whole
BY DEF IInv, Shape, Record, Goto

LEMMA EmptyText == IsText(<< >>)
<1>1. << >> \in Seq({})
  OBVIOUS
<1> QED
  BY <1>1 DEF IsText

\* A process that ends keeps its id, and its text if it has a file.
LEMMA EndsKeeps ==
  ASSUME IInv, NEW p \in Captures, proc[p].pc \notin Ended, NEW stage \in Ended, NEW exit,
         Becomes(p, Ends(p, stage, exit))
  PROVE  IInv'
<1> DEFINE q == Ends(p, stage, exit)
<1>1. CASE proc[p].pc = "write"
  <2>1. q = [ Goto(p, stage) EXCEPT !.exit = exit ]
    BY <1>1 DEF Ends
  <2>2. stage \in Stages
    BY DEF Stages
  <2>3. /\ Record(q) /\ q.pc = stage /\ q.id = proc[p].id /\ q.ran = proc[p].ran
        /\ q.ended = proc[p].ended /\ q.out = proc[p].out /\ q.whole = proc[p].whole
    BY <2>1, <2>2, GotoFacts DEF Record
  <2>4. OnItsWay(q, tree, Quiet(p))
    BY <2>3 DEF IInv, Way, OnItsWay, Ended, Running
  <2> HIDE DEF q
  <2> QED
    BY <2>3, <2>4, BecomesKeeps DEF q, Ended
<1>2. CASE proc[p].pc # "write"
  <2>1. q = [ Start(proc[p].id) EXCEPT !.pc = stage, !.exit = exit ]
    BY <1>2 DEF Ends
  <2>2. Record(q) /\ q.pc = stage /\ q.id = proc[p].id /\ q.out = << >>
    BY <2>1 DEF Record, Start, Stages
  <2>3. OnItsWay(q, tree, Quiet(p))
    BY <2>2, EmptyText DEF OnItsWay, Ended, Running
  <2>4. proc[p].pc \notin Written
    BY <1>2 DEF Written
  <2> HIDE DEF q
  <2> QED
    BY <2>2, <2>3, <2>4, BecomesKeeps DEF q, Ended
<1> QED
  BY <1>1, <1>2

\* The steps before there is a text
LEMMA EarlyStepsKeep ==
  ASSUME IInv, NEW p \in Captures,
         \/ Check(p) \/ CommandPrints(p) \/ CommandEnds(p)
         \/ Returns(p) \/ TimesOut(p) \/ Fails(p) \/ RevParse(p)
  PROVE  IInv'
<1> DEFINE me == proc[p]
<1>1. OnItsWay(me, tree, Quiet(p)) /\ Record(me)
  BY DEF IInv, Way, Shape
<1>2. CASE Check(p)
  <2>1. CASE me.id \in ValidIds /\ files[me.id] = NoFile
    <3> DEFINE q == [ Goto(p, "run") EXCEPT !.ran = tree ]
    <3>1. Becomes(p, q) /\ me.pc = "check"
      BY <1>2, <2>1 DEF Check, At
    <3>2. Record(q) /\ q.pc = "run" /\ q.id = me.id /\ q.ran = tree /\ q.out = me.out
      BY GotoFacts DEF Record, Stages
    <3> HIDE DEF q
    <3>3. OnItsWay(q, tree, Quiet(p))
      BY <1>1, <2>1, <3>2 DEF OnItsWay, SameTree, Running
    <3> QED
      BY <3>1, <3>2, <3>3, BecomesKeeps DEF Written, Ended
  <2>2. CASE ~(me.id \in ValidIds /\ files[me.id] = NoFile)
    <3>1. me.pc = "check" /\ Becomes(p, Ends(p, "exited", 2 % 256))
      BY <1>2, <2>2 DEF Check, At, Exits
    <3> QED
      BY <3>1, EndsKeeps DEF Ended
  <2> QED
    BY <2>1, <2>2
<1>3. CASE CommandPrints(p)
  <2>1. PICK lines \in Printable : Becomes(p, [ me EXCEPT !.out = lines ])
    BY <1>3 DEF CommandPrints
  <2> DEFINE q == [ me EXCEPT !.out = lines ]
  <2>2. IsText(lines)
    BY EvidenceAssumption DEF IsSequence, IsText
  <2>3. me.pc = "run" /\ Record(q) /\ q.pc = "run" /\ q.id = me.id /\ q.ran = me.ran /\ q.out = lines
    BY <1>1, <1>3 DEF CommandPrints, At, Record
  <2> HIDE DEF q
  <2>4. OnItsWay(q, tree, Quiet(p))
    BY <1>1, <2>2, <2>3 DEF OnItsWay, SameTree, Running
  <2> QED
    BY <2>1, <2>3, <2>4, BecomesKeeps DEF q, Written, Ended
<1>4. CASE CommandEnds(p)
  <2>1. PICK c \in Codes : Becomes(p, [ me EXCEPT !.ended = [ code |-> c ] ])
    BY <1>4 DEF CommandEnds
  <2> DEFINE q == [ me EXCEPT !.ended = [ code |-> c ] ]
  <2>2. me.pc = "run" /\ Record(q) /\ q.pc = "run" /\ q.id = me.id /\ q.ran = me.ran /\ q.out = me.out
    BY <1>1, <1>4 DEF CommandEnds, At, Record
  <2> HIDE DEF q
  <2>3. OnItsWay(q, tree, Quiet(p))
    BY <1>1, <2>2 DEF OnItsWay, SameTree, Running
  <2> QED
    BY <2>1, <2>2, <2>3, BecomesKeeps DEF q, Written, Ended
<1>5. CASE Returns(p) \/ TimesOut(p) \/ Fails(p)
  <2>1. PICK label \in {Timeout, CouldNotStart, me.ended}, code \in {me.ended.code, 124, 127} :
          Becomes(p, Labelled(p, label, code))
    BY <1>5 DEF Returns, TimesOut, Fails
  <2> DEFINE q == Labelled(p, label, code)
  <2>2. me.pc = "run"
    BY <1>5 DEF Returns, TimesOut, Fails, At
  <2>3. /\ Record(q) /\ q.pc = "rev_parse" /\ q.id = me.id /\ q.ran = me.ran /\ q.ended = me.ended
        /\ q.out = me.out /\ q.label = label
    <3> DEFINE g == Goto(p, "rev_parse")
    <3>1. q = [ g EXCEPT !.label = label, !.code = code ]
      BY DEF Labelled
    <3>2. /\ Record(g) /\ g.pc = "rev_parse" /\ g.id = me.id /\ g.ran = me.ran
          /\ g.ended = me.ended /\ g.out = me.out
      BY GotoFacts DEF Stages
    <3> HIDE DEF g, q
    <3> QED
      BY <3>1, <3>2 DEF Record
  <2> HIDE DEF q
  <2>4. OnItsWay(q, tree, Quiet(p))
    BY <1>1, <2>2, <2>3 DEF OnItsWay, SameTree, Running, TrueLabel
  <2> QED
    BY <2>1, <2>2, <2>3, <2>4, BecomesKeeps DEF q, Written, Ended
<1>6. CASE RevParse(p)
  <2>1. PICK sha \in {tree.commit, Claimed} : Becomes(p, [ Goto(p, "status") EXCEPT !.sha = sha ])
    BY <1>6 DEF RevParse
  <2> DEFINE q == [ Goto(p, "status") EXCEPT !.sha = sha ]
  <2>2. me.pc = "rev_parse"
    BY <1>6 DEF RevParse, At
  <2>3. /\ Record(q) /\ q.pc = "status" /\ q.id = me.id /\ q.ran = me.ran /\ q.ended = me.ended
        /\ q.out = me.out /\ q.label = me.label /\ q.sha = sha
    BY GotoFacts DEF Record, Stages
  <2> HIDE DEF q
  <2>4. OnItsWay(q, tree, Quiet(p))
    BY <1>1, <2>2, <2>3 DEF OnItsWay, SameTree, Running, TrueLabel
  <2> QED
    BY <2>1, <2>2, <2>3, <2>4, BecomesKeeps DEF q, Written, Ended
<1> QED
  BY <1>2, <1>3, <1>4, <1>5, <1>6

\* The text is put together from a true header and what the command printed.
LEMMA StatusKeeps == ASSUME IInv, NEW p \in Captures, Status(p) PROVE IInv'
<1> DEFINE me == proc[p]
<1>1. me.pc = "status" /\ OnItsWay(me, tree, Quiet(p)) /\ Record(me)
  BY DEF IInv, Way, Shape, Status, At
<1>2. PICK sha, dirty : /\ Becomes(p, Assembled(p, sha, dirty))
                        /\ sha = Claimed \/ (sha = me.sha /\ dirty = Dirty(tree.changed))
  BY DEF Status
<1> DEFINE header == Header(p, sha, dirty)
           body == << header >> \o me.out
           end == << HASH_PREFIX, Sha256(body), Newline >>
           q == Assembled(p, sha, dirty)
<1>3. TrueHeader(me, Quiet(p), header)
  <2>1. header.commit = sha /\ header.dirty = dirty /\ header.label = me.label
    BY DEF Header
  <2>2. TrueLabel(me, me.label)
    BY <1>1 DEF OnItsWay
  <2>3. ASSUME Quiet(p), sha # Claimed
        PROVE  sha = me.ran.commit /\ (dirty = "no" <=> "code" \notin me.ran.changed)
    <3>1. sha = me.ran.commit /\ SameTree(me, tree)
      BY <1>1, <1>2, <2>3 DEF OnItsWay, Running
    <3>2. dirty = "no" <=> "code" \notin tree.changed
      BY <1>2, <2>3 DEF Dirty, code_changes, IInv, Shape
    <3> QED
      BY <3>1, <3>2 DEF SameTree
  <2> HIDE DEF header
  <2> QED
    BY <2>1, <2>2, <2>3 DEF TrueHeader
<1>4. IsText(body \o end) /\ body \o end # << >> /\ (body \o end)[1] = header
  <2>1. PICK Part : me.out \in Seq(Part)
    BY <1>1 DEF OnItsWay, IsText
  <2> DEFINE All == Part \union {header, HASH_PREFIX, Sha256(body), Newline}
  <2>2. me.out \in Seq(All) /\ << header >> \in Seq(All) /\ end \in Seq(All)
    <3> HIDE DEF header, body
    <3> QED
      BY <2>1
  <2> HIDE DEF All, header, end
  <2>3. body \in Seq(All) /\ Len(body) >= 1 /\ body[1] = header
    BY <2>2
  <2> HIDE DEF body
  <2>4. body \o end \in Seq(All) /\ Len(body \o end) >= 1 /\ (body \o end)[1] = header
    BY <2>2, <2>3
  <2> QED
    BY <2>4 DEF IsText
<1>5. /\ Record(q) /\ q.pc = "open" /\ q.id = me.id /\ q.ran = me.ran /\ q.ended = me.ended
      /\ q.out = << >> /\ q.whole = body \o end
  <2>1. q = [ Goto(p, "open") EXCEPT !.whole = body \o end, !.out = << >>, !.label = NoLabel, !.sha = 0 ]
    BY DEF Assembled
  <2> DEFINE g == Goto(p, "open")
             w == body \o end
  <2>2. Record(g) /\ g.pc = "open" /\ g.id = me.id /\ g.ran = me.ran /\ g.ended = me.ended
    BY GotoFacts DEF Stages
  <2> HIDE DEF q, g, w
  <2>3. q = [ g EXCEPT !.whole = w, !.out = << >>, !.label = NoLabel, !.sha = 0 ]
    BY <2>1 DEF g, w
  <2>4. /\ Record(q) /\ q.pc = g.pc /\ q.id = g.id /\ q.ran = g.ran /\ q.ended = g.ended
        /\ q.out = << >> /\ q.whole = w
    BY <2>2, <2>3 DEF Record
  <2> QED
    BY <2>2, <2>4 DEF w
<1> HIDE DEF q, body, end, header
<1>6. TrueText(q, Quiet(p))
  BY <1>3, <1>4, <1>5 DEF TrueText, TrueHeader, TrueLabel
<1>7. OnItsWay(q, tree, Quiet(p))
  BY <1>1, <1>5, <1>6, EmptyText DEF OnItsWay, Running
<1> QED
  BY <1>1, <1>2, <1>5, <1>7, BecomesKeeps DEF q, Written, Ended

\* open(path, "xb") and the writes: what is in the file grows towards the whole text.
LEMMA OpenKeeps == ASSUME IInv, NEW p \in Captures, Open(p) PROVE IInv'
<1> DEFINE me == proc[p]
<1>1. me.pc = "open" /\ OnItsWay(me, tree, Quiet(p)) /\ TrueText(me, Quiet(p)) /\ me.id \in ValidIds
  BY DEF IInv, Way, Open, At, OnItsWay
<1>2. CASE files[me.id] = NoFile
  <2> DEFINE q == Goto(p, "write")
             f == [ by |-> p, text |-> << >> ]
  <2>1. Writes(p, q, f)
    BY <1>2 DEF Open
  <2>2. Record(q) /\ q.pc = "write" /\ q.id = me.id /\ q.ran = me.ran /\ q.ended = me.ended
        /\ q.out = me.out /\ q.whole = me.whole
    BY GotoFacts DEF Stages
  <2> HIDE DEF q
  <2>3. OnItsWay(q, tree, Quiet(p)) /\ TrueText(q, Quiet(p))
    BY <1>1, <2>2 DEF OnItsWay, TrueText, TrueHeader, TrueLabel, Running
  <2>4. PICK Part : q.whole \in Seq(Part) /\ q.whole # << >>
    BY <2>3 DEF TrueText, IsText
  <2>5. Len(q.whole) \in Nat /\ Len(q.whole) > 0 /\ SubSeq(q.whole, 1, 0) = << >>
    BY <2>4
  <2>6. FileOf(q.id, f, q, Quiet(p)) /\ f.by = p /\ f # NoFile
    BY <2>2, <2>3, <2>5, EvidenceAssumption DEF FileOf, Beginning, Written, NoFile
  <2> QED
    BY <1>1, <1>2, <2>1, <2>2, <2>3, <2>6, WritesKeeps DEF Written
<1>3. CASE files[me.id] # NoFile
  BY <1>1, <1>3, EndsKeeps DEF Open, Exits, Ended
<1> QED
  BY <1>2, <1>3

LEMMA WriteKeeps == ASSUME IInv, NEW p \in Captures, Write(p) PROVE IInv'
<1> DEFINE me == proc[p]
           old == files[me.id]
           n == Len(old.text)
           f == [ by |-> p, text |-> SubSeq(me.whole, 1, n + 1) ]
           q == IF n + 1 = Len(me.whole) THEN Exits(p, me.code) ELSE me
<1>1. me.pc = "write" /\ Writes(p, q, f)
  BY DEF Write, At
<1>2. me.id \in ValidIds /\ OnItsWay(me, tree, Quiet(p)) /\ Record(me)
  BY <1>1 DEF IInv, Way, OnItsWay, Shape
<1>3. old # NoFile /\ old.by = p /\ FileOf(me.id, old, me, Quiet(p))
  BY <1>1, <1>2 DEF IInv, Disk
<1>4. TrueText(me, Quiet(p)) /\ n < Len(me.whole)
  BY <1>1, <1>3 DEF FileOf
<1>5. PICK Part : me.whole \in Seq(Part)
  BY <1>4 DEF TrueText, IsText
<1>6. n \in 0..Len(me.whole) /\ Len(me.whole) \in Nat
  BY <1>3, <1>5 DEF FileOf, Beginning
<1>7. Len(f.text) = n + 1 /\ n + 1 <= Len(me.whole)
  BY SMTT(30), <1>4, <1>5, <1>6
<1>8. /\ Record(q) /\ q.id = me.id /\ q.pc \in Written /\ q.whole = me.whole /\ q.ran = me.ran
      /\ q.ended = me.ended /\ q.out = me.out
      /\ q.pc = "write" => q = me /\ n + 1 # Len(me.whole)
  <2>1. CASE n + 1 # Len(me.whole)
    BY <1>1, <1>2, <2>1 DEF Written
  <2>2. CASE n + 1 = Len(me.whole)
    <3> DEFINE g == Goto(p, "exited")
    <3>1. q = [ g EXCEPT !.exit = me.code % 256 ]
      BY <1>1, <2>2 DEF Exits, Ends
    <3>2. /\ Record(g) /\ g.pc = "exited" /\ g.id = me.id /\ g.ran = me.ran /\ g.ended = me.ended
          /\ g.out = me.out /\ g.whole = me.whole
      BY GotoFacts DEF Stages, Ended
    <3> HIDE DEF g, q
    <3> QED
      BY <3>1, <3>2 DEF Record, Written, Ended
  <2> QED
    BY <2>1, <2>2
<1> HIDE DEF q
<1>9. OnItsWay(q, tree, Quiet(p)) /\ TrueText(q, Quiet(p))
  BY <1>2, <1>4, <1>8 DEF OnItsWay, TrueText, TrueHeader, TrueLabel, Written, Ended, Running
<1>10. FileOf(q.id, f, q, Quiet(p))
  BY <1>6, <1>7, <1>8, <1>9 DEF FileOf, Beginning
<1>11. f.by = p /\ f # NoFile
  BY EvidenceAssumption DEF NoFile
<1> HIDE DEF f
<1> QED
  BY <1>1, <1>2, <1>3, <1>8, <1>9, <1>10, <1>11, WritesKeeps

\* An edit or a commit: whatever is running is not quiet any more.
LEMMA EditKeeps == ASSUME IInv, EditCode \/ Commit PROVE IInv'
<1>1. PICK t : Edit(t) /\ t = [ commit |-> t.commit, changed |-> t.changed ]
                       /\ t.changed \subseteq {"code", "capture"}
  BY DEF EditCode, Commit, IInv, Shape
<1>2. tree' = t /\ UNCHANGED << proc, files >> /\ disturbed' = disturbed \union UnderWay
  BY <1>1 DEF Edit
<1>3. ASSUME NEW p \in Captures PROVE OnItsWay(proc[p], t, p \notin disturbed')
  <2>1. OnItsWay(proc[p], tree, Quiet(p))
    BY DEF IInv, Way
  <2>2. proc[p].pc \in Running => p \in disturbed'
    BY <1>2 DEF UnderWay, Running
  <2> QED
    BY <1>2, <2>1, <2>2 DEF OnItsWay, TrueText, TrueHeader, Quiet, Running
<1>4. Way'
  BY <1>2, <1>3 DEF Way, Quiet
<1>5. Disk'
  BY <1>2 DEF IInv, Disk, FileOf, TrueText, TrueHeader, Quiet
<1> QED
  BY <1>1, <1>2, <1>4, <1>5 DEF IInv, Shape

-----------------------------------------------------------------------------
LEMMA InitIInv == Init => IInv
<1> SUFFICES ASSUME Init PROVE IInv
  OBVIOUS
<1>1. ASSUME NEW p \in Captures PROVE \E id \in Ids : proc[p] = Start(id)
  BY DEF Init
<1>2. Shape
  BY <1>1 DEF Init, Shape, Record, Start, Stages, Clean
<1>3. Way
  <2> SUFFICES ASSUME NEW p \in Captures PROVE OnItsWay(proc[p], tree, Quiet(p))
    BY DEF Way
  <2>1. proc[p].pc = "check" /\ proc[p].out = << >>
    <3>1. PICK id \in Ids : proc[p] = Start(id)
      BY <1>1
    <3> QED
      BY <3>1 DEF Start
  <2> QED
    BY <2>1, EmptyText DEF OnItsWay, Running
<1>4. Disk
  BY <1>1 DEF Init, Disk, Start
<1> QED
  BY <1>2, <1>3, <1>4 DEF IInv

LEMMA StepIInv == IInv /\ [Next]_vars => IInv'
<1> SUFFICES ASSUME IInv, [Next]_vars PROVE IInv'
  OBVIOUS
<1>1. ASSUME NEW p \in Captures, Step(p) \/ CommandPrints(p) \/ CommandEnds(p) \/ Crash(p)
      PROVE  IInv'
  <2>1. CASE EncodeFails(p) \/ OpenFails(p) \/ WriteFails(p) \/ Crash(p)
    BY <2>1, EndsKeeps DEF EncodeFails, OpenFails, WriteFails, Crash, Exits, At, Ended
  <2> QED
    BY <1>1, <2>1, EarlyStepsKeep, StatusKeeps, OpenKeeps, WriteKeeps DEF Step
<1>2. CASE UNCHANGED vars
  <2>1. /\ proc' = proc /\ files' = files /\ tree' = tree /\ disturbed' = disturbed
    BY <1>2 DEF vars
  <2>2. Shape' /\ Way' /\ Disk'
    BY <2>1 DEF IInv, Shape, Way, Disk, Quiet
  <2> QED
    BY <2>2 DEF IInv
<1> QED
  BY <1>1, <1>2, EditKeeps DEF Next, Done

-----------------------------------------------------------------------------
\* One step changes no file but by adding to it.
LEMMA FilesGrow ==
  ASSUME IInv, [Next]_vars, NEW id \in ValidIds, files[id] # NoFile
  PROVE  files'[id].by = files[id].by /\ IsPrefix(files[id].text, files'[id].text)
<1> DEFINE old == files[id]
           p == old.by
           w == proc[p].whole
<1>1. p \in Captures /\ FileOf(id, old, proc[p], Quiet(p))
  BY DEF IInv, Disk
<1>2. PICK Part : w \in Seq(Part)
  BY <1>1 DEF FileOf, TrueText, IsText
<1>3. Len(old.text) \in 0..Len(w) /\ old.text = SubSeq(w, 1, Len(old.text))
  BY <1>1 DEF FileOf, Beginning
<1>4. old.text \in Seq(Part) /\ IsPrefix(old.text, old.text)
  <2> DEFINE t == old.text
  <2> HIDE DEF w, t
  <2>1. t \in Seq(Part)
    BY <1>2, <1>3 DEF t
  <2>2. Len(t) <= Len(t)
    BY <2>1
  <2> QED
    BY <2>1, <2>2 DEF IsPrefix, t
<1>5. files = [ i \in ValidIds |-> files[i] ]
  BY DEF IInv, Shape
<1>6. CASE files' = files
  BY <1>4, <1>6
<1>7. ASSUME NEW r \in Captures, Open(r) \/ Write(r), files' # files
      PROVE  files'[id].by = p /\ IsPrefix(old.text, files'[id].text)
  <2>1. CASE proc[r].id # id
    <3>1. files'[id] = old
      BY <1>5, <1>7, <2>1 DEF Open, Write, Writes, Becomes
    <3> QED
      BY <1>4, <3>1
  <2>2. CASE proc[r].id = id
    <3>1. Write(r) /\ proc[r].pc = "write"
      BY <1>7, <2>2 DEF Open, Becomes, Write, At
    <3>2. r = p
      BY <2>2, <3>1 DEF IInv, Disk
    <3>3. files'[id] = [ by |-> p, text |-> SubSeq(w, 1, Len(old.text) + 1) ]
      BY <1>5, <2>2, <3>1, <3>2 DEF Write, Writes
    <3>4. Len(old.text) < Len(w)
      BY <1>1, <3>1, <3>2 DEF FileOf
    <3>5. Len(old.text) \in Nat /\ Len(old.text) + 1 <= Len(w) /\ Len(w) \in Nat
      BY SMTT(30), <1>2, <1>3, <3>4
    <3> HIDE DEF w
    <3> DEFINE n == Len(old.text)
               new == SubSeq(w, 1, n + 1)
    <3> HIDE DEF n
    <3>6. n \in Nat /\ n + 1 <= Len(w) /\ Len(w) \in Nat /\ old.text = SubSeq(w, 1, n)
      BY <1>3, <3>5 DEF n
    <3>7. Len(new) = n + 1 /\ SubSeq(new, 1, n) = SubSeq(w, 1, n)
      BY <1>2, <3>6
    <3>8. IsPrefix(old.text, new)
      BY <1>2, <1>3, <3>6, <3>7 DEF IsPrefix, n
    <3> QED
      BY <3>3, <3>8 DEF n
  <2> QED
    BY <2>1, <2>2
<1>8. files' = files \/ \E r \in Captures : Open(r) \/ Write(r)
  BY DEF Next, Step, Check, Returns, TimesOut, Fails, RevParse, Status, EncodeFails, OpenFails, WriteFails,
         CommandPrints, CommandEnds, Crash, EditCode, Commit, Edit, Done, Becomes, vars
<1> QED
  BY <1>6, <1>7, <1>8

\* No capture is overwritten or shortened (tools/capture_evidence.py: open(path, "xb")),
\* whichever processes were given the same id, are killed or run out of disk.
THEOREM CapturesKept == Spec => CapturesAreKept
<1>1. IInv /\ [Next]_vars =>
        [ \A id \in ValidIds : files[id] # NoFile =>
            files'[id].by = files[id].by /\ IsPrefix(files[id].text, files'[id].text) ]_files
  BY FilesGrow
<1> QED
  BY InitIInv, StepIInv, <1>1, PTL DEF Spec, CapturesAreKept

\* What is in a file begins with the header its process put together.
LEMMA FirstPart ==
  ASSUME IInv, NEW id \in ValidIds, files[id].text # << >>
  PROVE  LET q == proc[files[id].by] IN TrueHeader(q, Quiet(files[id].by), files[id].text[1])
<1> DEFINE f == files[id]
           q == proc[f.by]
<1>1. FileOf(id, f, q, Quiet(f.by))
  BY DEF IInv, Disk, NoFile
<1>2. PICK Part : q.whole \in Seq(Part)
  BY <1>1 DEF FileOf, TrueText, IsText
<1>3. Len(f.text) \in 0..Len(q.whole) /\ f.text = SubSeq(q.whole, 1, Len(f.text)) /\ f.text # << >>
  BY <1>1 DEF FileOf, Beginning
<1>4. f.text[1] = q.whole[1]
  <2> DEFINE w == q.whole
             t == f.text
  <2> HIDE DEF w, t
  <2>1. Len(t) \in 0..Len(w) /\ t = SubSeq(w, 1, Len(t)) /\ t # << >> /\ w \in Seq(Part)
    BY <1>2, <1>3 DEF w, t
  <2>2. t[1] = w[1]
    BY <2>1
  <2> QED
    BY <2>2 DEF w, t
<1> QED
  BY <1>1, <1>4 DEF FileOf, TrueText

\* The exit line of a capture (tools/capture_evidence.capture) never has a number that is
\* not the code the command itself ended with; the commit and the state of the tree in its
\* header (git_state) are those the command ran in, unless somebody edited or committed
\* before both were read.
THEOREM HeaderTrue == Spec => []HeaderIsTrue
<1>1. IInv => LabelIsOfTheCommand
  BY FirstPart DEF LabelIsOfTheCommand, TrueHeader, TrueLabel
<1>2. IInv => TreeIsOfTheCommand
  BY FirstPart DEF TreeIsOfTheCommand, TrueHeader, Quiet
<1>3. IInv => HeaderIsTrue
  BY <1>1, <1>2 DEF HeaderIsTrue
<1> QED
  BY InitIInv, StepIInv, <1>3, PTL DEF Spec

-----------------------------------------------------------------------------
(***************************************************************************)
(* Texts and verify                                                        *)
(***************************************************************************)

\* A part of a text that is not the digest of what begins with a header
Unforeseen(part) == part.part = "digest" => part.of = << >> \/ part.of[1].part # "header"

\* What a header stands above, and the text that its digest closes
Body(b) ==
  /\ IsText(b) /\ b # << >> /\ b[1].part = "header"
  /\ \A k \in 2..Len(b) : Unforeseen(b[k])
Closed(b) == b \o << HASH_PREFIX, Sha256(b), Newline >>
Sealed(w) == \E b : Body(b) /\ w = Closed(b)

\* The parts that Alterations puts in
Other == Whitespace \union {Line}

\* The kinds of parts are apart, and a digest has one text.
LEMMA PartsDiffer ==
  /\ HASH_PREFIX \notin Other /\ Newline \in Whitespace
  /\ \A text : Sha256(text) \notin Other /\ Sha256(text) # HASH_PREFIX
               /\ Sha256(text).part = "digest" /\ Sha256(text).of = text
  /\ \A part : part.part = "header" => part # HASH_PREFIX
  /\ \A a, b : Sha256(a) = Sha256(b) => a = b
<1>1. ASSUME NEW text PROVE Sha256(text).part = "digest" /\ Sha256(text).of = text
  BY DEF Sha256
<1>2. /\ HASH_PREFIX.part = "prefix" /\ Newline.part = "newline" /\ Line.part = "line"
      /\ Blank.part = "blank"
  BY DEF HASH_PREFIX, Newline, Line, Blank
<1>3. \A text : Sha256(text) \notin Other /\ Sha256(text) # HASH_PREFIX
  BY <1>1, <1>2 DEF Other, Whitespace
<1>4. \A a, b : Sha256(a) = Sha256(b) => a = b
  BY <1>1
<1>5. HASH_PREFIX \notin Other /\ Newline \in Whitespace
  BY <1>2 DEF Other, Whitespace
<1> QED
  BY <1>1, <1>2, <1>3, <1>4, <1>5

\* What SubSeq, RemoveAt and InsertAt (SequencesExt) make of a sequence, part by part
LEMMA Beginnings ==
  ASSUME NEW Part, NEW s \in Seq(Part), NEW c \in 0..Len(s)
  PROVE  /\ SubSeq(s, 1, c) \in Seq(Part) /\ Len(SubSeq(s, 1, c)) = c
         /\ \A i \in 1..c : SubSeq(s, 1, c)[i] = s[i]
<1>1. c \in Nat /\ Len(s) \in Nat
  OBVIOUS
<1>2. \A i \in 1..c : s[i] \in Part
  BY <1>1, ElementOfSeq
<1>3. /\ SubSeq(s, 1, c) \in Seq(Part) /\ Len(SubSeq(s, 1, c)) = IF 1 <= c THEN c - 1 + 1 ELSE 0
      /\ \A i \in 1..(c - 1 + 1) : SubSeq(s, 1, c)[i] = s[1 + i - 1]
  BY <1>1, <1>2, SubSeqProperties
<1>4. \A i \in 1..c : SubSeq(s, 1, c)[i] = s[i]
  BY <1>1, <1>3
<1> QED
  BY <1>1, <1>3, <1>4

\* The parts of a text that its digest closes
LEMMA ClosedParts ==
  ASSUME NEW b, IsText(b), b # << >>
  PROVE  LET n == Len(b)
             w == Closed(b)
         IN /\ n \in Nat /\ n > 0 /\ IsText(w) /\ Len(w) = n + 3
            /\ \A k \in 1..n : w[k] = b[k]
            /\ w[n + 1] = HASH_PREFIX /\ w[n + 2] = Sha256(b) /\ w[n + 3] = Newline
            /\ SubSeq(w, 1, n) = b
<1>1. PICK Part : b \in Seq(Part)
  BY DEF IsText
<1> DEFINE All == Part \union {HASH_PREFIX, Sha256(b), Newline}
           end == << HASH_PREFIX, Sha256(b), Newline >>
           w == b \o end
<1>2. b \in Seq(All) /\ end \in Seq(All) /\ Len(end) = 3 /\ Len(b) \in Nat /\ Len(b) > 0
  BY <1>1
<1>3. end[1] = HASH_PREFIX /\ end[2] = Sha256(b) /\ end[3] = Newline
  OBVIOUS
<1> HIDE DEF All, end
<1>4. /\ w \in Seq(All) /\ Len(w) = Len(b) + 3
      /\ \A k \in 1..(Len(b) + 3) : w[k] = IF k <= Len(b) THEN b[k] ELSE end[k - Len(b)]
  <2>1. /\ w \in Seq(All) /\ Len(w) = Len(b) + Len(end)
        /\ \A k \in 1..(Len(b) + Len(end)) : w[k] = IF k <= Len(b) THEN b[k] ELSE end[k - Len(b)]
    BY <1>2, ConcatProperties
  <2> HIDE DEF w
  <2> QED
    BY <1>2, <2>1
<1> HIDE DEF w
<1> DEFINE n == Len(b)
<1> HIDE DEF n
<1>5. n \in Nat /\ n > 0
  BY <1>2 DEF n
<1>6. \A k \in 1..(n + 3) : w[k] = IF k <= n THEN b[k] ELSE end[k - n]
  BY <1>4 DEF n
<1>7. \A k \in 1..n : w[k] = b[k]
  BY <1>5, <1>6
<1>8. w[n + 1] = end[1] /\ w[n + 2] = end[2] /\ w[n + 3] = end[3]
  <2>1. w[n + 1] = end[(n + 1) - n] /\ w[n + 2] = end[(n + 2) - n] /\ w[n + 3] = end[(n + 3) - n]
    BY <1>5, <1>6
  <2> QED
    BY <1>5, <2>1
<1>9. SubSeq(w, 1, n) = b
  <2>1. n \in 0..Len(w)
    BY <1>4, <1>5 DEF n
  <2>2. /\ SubSeq(w, 1, n) \in Seq(All) /\ Len(SubSeq(w, 1, n)) = n
        /\ \A k \in 1..n : SubSeq(w, 1, n)[k] = w[k]
    BY <1>4, <2>1, Beginnings
  <2> QED
    BY <1>2, <1>7, <2>2, SeqEqual DEF n
<1> QED
  BY <1>2, <1>3, <1>4, <1>7, <1>8, <1>9 DEF Closed, w, n, end, IsText

\* verify finds what is not whitespace below c, below which no hash line begins, to be the
\* digest of what is above a hash line, and nothing else there.
LEMMA BelowTheCut ==
  ASSUME NEW t, IsText(t), verify(t), NEW c \in Nat, NEW d \in (c + 1)..Len(t), t[d] \notin Whitespace,
         \A k \in (c + 1)..Len(t) : t[k] # HASH_PREFIX
  PROVE  \E cut \in 1..c :
           /\ t[cut] = HASH_PREFIX /\ \A k \in (cut + 1)..Len(t) : t[k] # HASH_PREFIX
           /\ t[d] = Sha256(SubSeq(t, 1, cut - 1))
           /\ \A k \in (cut + 1)..Len(t) : k # d => t[k] \in Whitespace
<1>1. Len(t) \in Nat /\ DOMAIN t = 1..Len(t)
  BY DEF IsText
<1>2. PICK cut \in HashLines(t) : (\A k \in HashLines(t) : k <= cut) /\ VerifyAt(t, cut)
  BY DEF verify
<1>3. cut \in 1..c /\ t[cut] = HASH_PREFIX
  BY <1>1, <1>2 DEF HashLines
<1>4. \A k \in (cut + 1)..Len(t) : t[k] # HASH_PREFIX
  BY <1>1, <1>2, <1>3 DEF HashLines
<1>5. PICK k \in (cut + 1)..Len(t) : /\ t[k] = Sha256(SubSeq(t, 1, cut - 1))
                                     /\ \A j \in (cut + 1)..Len(t) : j # k => t[j] \in Whitespace
  BY <1>2 DEF VerifyAt
<1>6. k = d
  BY <1>1, <1>3, <1>5
<1> QED
  BY <1>3, <1>4, <1>5, <1>6

\* If the digest of b is below the last hash line of a text that verifies, then the text
\* is that which the digest closes, but for whitespace.
LEMMA DigestTells ==
  ASSUME NEW b, IsText(b), b # << >>, NEW t, IsText(t), verify(t), NEW c \in Nat,
         NEW d \in (c + 1)..Len(t), t[d] = Sha256(b),
         \A k \in (c + 1)..Len(t) : t[k] # HASH_PREFIX
  PROVE  SameButWhitespace(t, Closed(b))
<1> DEFINE n == Len(b)
           w == Closed(b)
<1>1. /\ n \in Nat /\ n > 0 /\ Len(w) = n + 3 /\ \A k \in 1..n : w[k] = b[k]
      /\ w[n + 1] = HASH_PREFIX /\ w[n + 2] = Sha256(b) /\ w[n + 3] = Newline
  BY ClosedParts
<1> HIDE DEF n, w
<1>2. PICK Part : t \in Seq(Part)
  BY DEF IsText
<1>3. Sha256(b) \notin Whitespace /\ Newline \in Whitespace
  BY PartsDiffer DEF Other
<1>4. PICK cut \in 1..c :
        /\ t[cut] = HASH_PREFIX /\ t[d] = Sha256(SubSeq(t, 1, cut - 1))
        /\ \A k \in (cut + 1)..Len(t) : k # d => t[k] \in Whitespace
  <2>1. t[d] \notin Whitespace
    BY <1>3
  <2> QED
    BY <2>1, BelowTheCut
<1>5. b = SubSeq(t, 1, cut - 1)
  BY <1>4, PartsDiffer
<1> DEFINE m == cut - 1
<1>6. m \in 0..Len(t) /\ m + 1 = cut
  BY <1>2
<1> HIDE DEF m
<1>7. Len(b) = m /\ \A k \in 1..m : b[k] = t[k]
  BY <1>2, <1>5, <1>6, Beginnings DEF m
<1>8. cut = n + 1 /\ \A k \in 1..n : b[k] = t[k]
  BY <1>6, <1>7 DEF n
<1>9. /\ n + 1 \in 1..(Len(w) - 1) /\ w[n + 1] = HASH_PREFIX
      /\ \A j \in ((n + 1) + 2)..Len(w) : w[j] \in Whitespace
      /\ \A j \in 1..(n + 1) : t[j] = w[j]
  BY <1>1, <1>3, <1>4, <1>8
<1>10. /\ d \in ((n + 1) + 1)..Len(t) /\ t[d] = w[(n + 1) + 1]
       /\ \A j \in ((n + 1) + 1)..Len(t) : j # d => t[j] \in Whitespace
  <2>1. (n + 1) + 1 = n + 2 /\ Len(t) \in Nat
    BY <1>1, <1>2
  <2>2. d \in ((n + 1) + 1)..Len(t)
    BY <1>1, <1>8, <2>1
  <2> QED
    BY <1>1, <1>4, <1>8, <2>1, <2>2
<1> QED
  BY <1>9, <1>10 DEF SameButWhitespace, w

\* A text without a digest below its last hash line does not verify.
LEMMA NoDigestFails ==
  ASSUME NEW t, IsText(t), NEW c \in 1..Len(t), t[c] = HASH_PREFIX,
         \A k \in (c + 1)..Len(t) : t[k] \in Other
  PROVE  ~verify(t)
<1>1. Len(t) \in Nat /\ DOMAIN t = 1..Len(t)
  BY DEF IsText
<1> SUFFICES ASSUME NEW cut \in HashLines(t), \A k \in HashLines(t) : k <= cut, VerifyAt(t, cut)
             PROVE  FALSE
  BY DEF verify
<1>2. cut \in c..Len(t)
  BY <1>1 DEF HashLines
<1>3. PICK k \in (cut + 1)..Len(t) : t[k] = Sha256(SubSeq(t, 1, cut - 1))
  BY DEF VerifyAt
<1>4. t[k] \in Other
  BY <1>1, <1>2, <1>3
<1> QED
  BY <1>3, <1>4, PartsDiffer

\* What is cut off before its digest is complete does not verify: a hash line further up
\* is one that the command printed, and its digest not of a text with this header.
LEMMA CutOffFails ==
  ASSUME NEW b, Body(b), NEW m \in 0..Len(Closed(b)), verify(SubSeq(Closed(b), 1, m))
  PROVE  SameButWhitespace(SubSeq(Closed(b), 1, m), Closed(b))
<1> DEFINE n == Len(b)
           w == Closed(b)
           t == SubSeq(w, 1, m)
<1>1. /\ n \in Nat /\ n > 0 /\ Len(w) = n + 3 /\ \A k \in 1..n : w[k] = b[k]
      /\ w[n + 1] = HASH_PREFIX /\ w[n + 2] = Sha256(b) /\ w[n + 3] = Newline
  BY ClosedParts DEF Body
<1>2. PICK Part : w \in Seq(Part)
  BY ClosedParts DEF Body, IsText
<1> HIDE DEF n, w
<1>3. /\ m \in 0..(n + 3) /\ t \in Seq(Part) /\ Len(t) = m /\ \A k \in 1..m : t[k] = w[k]
  <2>1. m \in 0..(n + 3) /\ m \in 0..Len(w)
    BY <1>1 DEF w
  <2> QED
    BY <1>2, <2>1, Beginnings
<1>4. verify(t)
  BY DEF w
<1> HIDE DEF t
<1>5. CASE m >= n + 2
  <2>1. n + 1 \in Nat /\ n + 2 \in ((n + 1) + 1)..Len(t) /\ t[n + 2] = Sha256(b)
        /\ \A k \in ((n + 1) + 1)..Len(t) : t[k] # HASH_PREFIX
    BY <1>1, <1>3, <1>5, PartsDiffer DEF Other
  <2>2. IsText(t) /\ IsText(b) /\ b # << >>
    BY <1>3 DEF IsText, Body
  <2>3. SameButWhitespace(t, Closed(b))
    BY <1>4, <2>1, <2>2, DigestTells
  <2> QED
    BY <2>3 DEF t, w
<1>6. CASE m < n + 2
  <2>1. PICK cut \in HashLines(t) : VerifyAt(t, cut)
    BY <1>4 DEF verify
  <2>2. cut \in 1..m /\ t[cut] = HASH_PREFIX
    BY <1>3, <2>1 DEF HashLines
  <2>3. PICK k \in (cut + 1)..m : t[k] = Sha256(SubSeq(t, 1, cut - 1))
    BY <1>3, <2>1 DEF VerifyAt
  <2>4. k \in 2..n /\ t[k] = b[k]
    BY <1>1, <1>3, <1>6, <2>2, <2>3, PartsDiffer
  <2>5. b[1].part = "header" /\ t[1] = b[1] /\ Unforeseen(b[k])
    BY <1>1, <1>3, <2>2, <2>4 DEF Body, n
  <2>6. cut # 1
    BY <2>2, <2>5, PartsDiffer
  <2>7. SubSeq(t, 1, cut - 1) # << >> /\ SubSeq(t, 1, cut - 1)[1] = t[1]
    <3> DEFINE c == cut - 1
    <3>1. c \in 0..Len(t) /\ c > 0
      BY <1>3, <2>2, <2>6
    <3> HIDE DEF c
    <3>2. Len(SubSeq(t, 1, c)) = c /\ SubSeq(t, 1, c)[1] = t[1]
      BY <1>3, <3>1, Beginnings
    <3>3. SubSeq(t, 1, c) # << >>
      BY <3>1, <3>2
    <3> QED
      BY <3>2, <3>3 DEF c
  <2>8. b[k].part = "digest" /\ b[k].of = SubSeq(t, 1, cut - 1)
    BY <2>3, <2>4, PartsDiffer
  <2>9. FALSE
    BY <2>5, <2>7, <2>8 DEF Unforeseen
  <2> QED
    BY <2>9
<1> QED
  BY <1>1, <1>3, <1>5, <1>6

LEMMA RemovedParts ==
  ASSUME NEW Part, NEW s \in Seq(Part), NEW j \in 1..Len(s)
  PROVE  LET t == RemoveAt(s, j) IN
         /\ t \in Seq(Part) /\ Len(t) = Len(s) - 1
         /\ \A i \in 1..(Len(s) - 1) : t[i] = IF i < j THEN s[i] ELSE s[i + 1]
<1> DEFINE n == Len(s)
           above == SubSeq(s, 1, j - 1)
           below == SubSeq(s, j + 1, n)
<1>1. n \in Nat /\ j \in 1..n /\ j - 1 \in 0..n
  OBVIOUS
<1>2. above \in Seq(Part) /\ Len(above) = j - 1 /\ \A i \in 1..(j - 1) : above[i] = s[i]
  BY <1>1, Beginnings
<1>3. \A i \in (j + 1)..n : s[i] \in Part
  BY <1>1, ElementOfSeq
<1> HIDE DEF n
<1>4. /\ below \in Seq(Part) /\ Len(below) = IF j + 1 <= n THEN n - (j + 1) + 1 ELSE 0
      /\ \A i \in 1..(n - (j + 1) + 1) : below[i] = s[(j + 1) + i - 1]
  BY SMTT(30), <1>1, <1>3, SubSeqProperties
<1>5. Len(below) = n - j /\ \A i \in 1..(n - j) : below[i] = s[i + j]
  BY <1>1, <1>4
<1> HIDE DEF above, below
<1> DEFINE t == above \o below
<1>6. /\ t \in Seq(Part) /\ Len(t) = Len(above) + Len(below)
      /\ \A i \in 1..(Len(above) + Len(below)) :
           t[i] = IF i <= Len(above) THEN above[i] ELSE below[i - Len(above)]
  BY <1>2, <1>4, ConcatProperties
<1> HIDE DEF t
<1>7. Len(t) = n - 1 /\ \A i \in 1..(n - 1) : t[i] = IF i < j THEN s[i] ELSE s[i + 1]
  <2>1. Len(t) = n - 1
    BY <1>1, <1>2, <1>5, <1>6
  <2>2. ASSUME NEW i \in 1..(n - 1), i < j PROVE t[i] = s[i]
    BY <1>1, <1>2, <1>5, <1>6, <2>2
  <2>3. ASSUME NEW i \in 1..(n - 1), ~(i < j) PROVE t[i] = s[i + 1]
    <3>1. t[i] = below[i - (j - 1)]
      BY <1>1, <1>2, <1>5, <1>6, <2>3
    <3>2. i - (j - 1) \in 1..(n - j) /\ (i - (j - 1)) + j = i + 1
      BY <1>1, <2>3
    <3> QED
      BY <1>5, <3>1, <3>2
  <2> QED
    BY <2>1, <2>2, <2>3
<1> QED
  BY <1>6, <1>7 DEF RemoveAt, t, n, above, below

LEMMA InsertedParts ==
  ASSUME NEW Part, NEW s \in Seq(Part), NEW j \in 1..(Len(s) + 1), NEW e \in Part
  PROVE  LET t == InsertAt(s, j, e) IN
         /\ t \in Seq(Part) /\ Len(t) = Len(s) + 1
         /\ \A i \in 1..(Len(s) + 1) : t[i] = IF i < j THEN s[i] ELSE IF i = j THEN e ELSE s[i - 1]
<1> DEFINE n == Len(s)
           above == SubSeq(s, 1, j - 1)
           below == SubSeq(s, j, n)
<1>1. n \in Nat /\ j \in 1..(n + 1) /\ j - 1 \in 0..n
  OBVIOUS
<1>2. above \in Seq(Part) /\ Len(above) = j - 1 /\ \A i \in 1..(j - 1) : above[i] = s[i]
  BY <1>1, Beginnings
<1>3. \A i \in j..n : s[i] \in Part
  BY <1>1, ElementOfSeq
<1> HIDE DEF n
<1>4. /\ below \in Seq(Part) /\ Len(below) = IF j <= n THEN n - j + 1 ELSE 0
      /\ \A i \in 1..(n - j + 1) : below[i] = s[j + i - 1]
  BY <1>1, <1>3, SubSeqProperties
<1>5. Len(below) = n - j + 1
  BY <1>1, <1>4
<1> HIDE DEF above, below
<1> DEFINE mid == << e >>
           a == above \o mid
           t == a \o below
<1>6. mid \in Seq(Part) /\ Len(mid) = 1 /\ mid[1] = e
  OBVIOUS
<1> HIDE DEF mid
<1>7. /\ a \in Seq(Part) /\ Len(a) = Len(above) + Len(mid)
      /\ \A i \in 1..(Len(above) + Len(mid)) : a[i] = IF i <= Len(above) THEN above[i] ELSE mid[i - Len(above)]
  BY <1>2, <1>6, ConcatProperties
<1> HIDE DEF a
<1>8. /\ t \in Seq(Part) /\ Len(t) = Len(a) + Len(below)
      /\ \A i \in 1..(Len(a) + Len(below)) : t[i] = IF i <= Len(a) THEN a[i] ELSE below[i - Len(a)]
  <2>1. a \in Seq(Part) /\ below \in Seq(Part)
    BY <1>4, <1>7
  <2> QED
    BY <2>1, ConcatProperties
<1> HIDE DEF t
<1>9. Len(a) = j /\ \A i \in 1..j : a[i] = IF i < j THEN s[i] ELSE e
  <2>1. Len(a) = j
    BY <1>1, <1>2, <1>6, <1>7
  <2>2. ASSUME NEW i \in 1..j, i < j PROVE a[i] = s[i]
    BY <1>1, <1>2, <1>6, <1>7, <2>2
  <2>3. a[j] = e
    <3>1. a[j] = mid[j - (j - 1)]
      BY <1>1, <1>2, <1>6, <1>7
    <3> QED
      BY <1>1, <1>6, <3>1
  <2> QED
    BY <1>1, <2>1, <2>2, <2>3
<1>10. Len(t) = n + 1
  BY <1>1, <1>5, <1>8, <1>9
<1>11. ASSUME NEW i \in 1..(n + 1) PROVE t[i] = IF i < j THEN s[i] ELSE IF i = j THEN e ELSE s[i - 1]
  <2>1. CASE i <= j
    BY <1>1, <1>5, <1>8, <1>9, <2>1
  <2>2. CASE i > j
    <3>1. t[i] = below[i - j]
      BY <1>1, <1>5, <1>8, <1>9, <2>2
    <3>2. i - j \in 1..(n - j + 1) /\ j + (i - j) - 1 = i - 1
      BY <1>1, <2>2
    <3> QED
      BY <1>1, <1>4, <2>2, <3>1, <3>2
  <2> QED
    BY <1>1, <2>1, <2>2
<1> QED
  <2>1. InsertAt(s, j, e) = t
    BY DEF InsertAt, t, a, mid, n, above, below
  <2> QED
    BY <1>8, <1>10, <1>11, <2>1 DEF n


\* A whole text with one part changed, gone or added that verifies has its digest still,
\* below its last hash line.
LEMMA AlteredFails ==
  ASSUME NEW b, Body(b), NEW t \in Alterations(Closed(b)), verify(t)
  PROVE  SameButWhitespace(t, Closed(b))
<1> DEFINE n == Len(b)
           w == Closed(b)
<1>1. /\ n \in Nat /\ n > 0 /\ Len(w) = n + 3
      /\ w[n + 1] = HASH_PREFIX /\ w[n + 2] = Sha256(b) /\ w[n + 3] = Newline
  BY ClosedParts DEF Body
<1>2. PICK Some : w \in Seq(Some)
  BY ClosedParts DEF Body, IsText
<1> DEFINE Part == Some \union Other
<1>3. w \in Seq(Part) /\ Other \subseteq Part /\ IsText(b) /\ b # << >>
  BY <1>2, SeqMonotonic DEF Body
<1>4. HASH_PREFIX \notin Other /\ Newline \in Other /\ Sha256(b) # HASH_PREFIX
  BY PartsDiffer DEF Other
<1> HIDE DEF w, n, Part
<1>5. ASSUME t \in Seq(Part), NEW d \in 1..Len(t), t[d] = Sha256(b),
             \A k \in (d + 1)..Len(t) : t[k] \in Other
      PROVE  SameButWhitespace(t, w)
  <2> DEFINE c == d - 1
  <2>1. c \in Nat /\ d \in (c + 1)..Len(t) /\ Len(t) \in Nat /\ IsText(t)
    BY <1>5 DEF IsText
  <2>2. \A k \in (c + 1)..Len(t) : k = d \/ k \in (d + 1)..Len(t)
    BY <2>1
  <2> HIDE DEF c
  <2>3. \A k \in (c + 1)..Len(t) : t[k] # HASH_PREFIX
    BY <1>4, <1>5, <2>2
  <2>4. IsText(b) /\ b # << >> /\ verify(t) /\ t[d] = Sha256(b)
    BY <1>3, <1>5
  <2>5. SameButWhitespace(t, Closed(b))
    BY <2>1, <2>3, <2>4, DigestTells
  <2> QED
    BY <2>5 DEF w
<1>6. ASSUME NEW j \in 1..(n + 3), NEW e \in Other, t = [ w EXCEPT ![j] = e ]
      PROVE  SameButWhitespace(t, w)
  <2>1. t \in Seq(Part) /\ Len(t) = n + 3 /\ \A k \in 1..(n + 3) : t[k] = IF k = j THEN e ELSE w[k]
    BY <1>1, <1>3, <1>6, ExceptSeq
  <2>2. CASE j = n + 2
    <3>1. n + 1 \in 1..Len(t) /\ t[n + 1] = HASH_PREFIX
      BY <1>1, <2>1, <2>2
    <3>2. \A k \in ((n + 1) + 1)..Len(t) : t[k] \in Other
      BY <1>1, <1>4, <2>1, <2>2
    <3>3. IsText(t)
      BY <2>1 DEF IsText
    <3> QED
      BY <3>1, <3>2, <3>3, NoDigestFails
  <2>3. CASE j # n + 2
    <3>1. n + 2 \in 1..Len(t) /\ t[n + 2] = Sha256(b)
          /\ \A k \in ((n + 2) + 1)..Len(t) : t[k] \in Other
      BY <1>1, <1>4, <2>1, <2>3
    <3> QED
      BY <1>5, <2>1, <3>1
  <2> QED
    BY <2>2, <2>3
<1>7. ASSUME NEW j \in 1..(n + 3), t = RemoveAt(w, j)
      PROVE  SameButWhitespace(t, w)
  <2>1. t \in Seq(Part) /\ Len(t) = n + 2 /\ \A k \in 1..(n + 2) : t[k] = IF k < j THEN w[k] ELSE w[k + 1]
    <3>1. Len(w) - 1 = n + 2 /\ j \in 1..Len(w)
      BY <1>1
    <3> QED
      BY ZenonT(30), <1>1, <1>3, <1>7, <3>1, RemovedParts
  <2>2. CASE j <= n + 1
    <3>1. n + 1 \in 1..Len(t) /\ t[n + 1] = Sha256(b)
          /\ \A k \in ((n + 1) + 1)..Len(t) : t[k] \in Other
      BY <1>1, <1>4, <2>1, <2>2
    <3> QED
      BY <1>5, <2>1, <3>1
  <2>3. CASE j = n + 2
    <3>1. n + 1 \in 1..Len(t) /\ t[n + 1] = HASH_PREFIX
      BY <1>1, <2>1, <2>3
    <3>2. \A k \in ((n + 1) + 1)..Len(t) : t[k] \in Other
      BY <1>1, <1>4, <2>1, <2>3
    <3>3. IsText(t)
      BY <2>1 DEF IsText
    <3> QED
      BY <3>1, <3>2, <3>3, NoDigestFails
  <2>4. CASE j = n + 3
    <3>1. n + 2 \in 1..Len(t) /\ t[n + 2] = Sha256(b)
          /\ \A k \in ((n + 2) + 1)..Len(t) : t[k] \in Other
      BY <1>1, <2>1, <2>4
    <3> QED
      BY <1>5, <2>1, <3>1
  <2> QED
    BY <1>1, <2>2, <2>3, <2>4
<1>8. ASSUME NEW j \in 1..(n + 4), NEW e \in Other, t = InsertAt(w, j, e)
      PROVE  SameButWhitespace(t, w)
  <2>1. /\ t \in Seq(Part) /\ Len(t) = n + 4
        /\ \A k \in 1..(n + 4) : t[k] = IF k < j THEN w[k] ELSE IF k = j THEN e ELSE w[k - 1]
    <3>1. Len(w) + 1 = n + 4 /\ j \in 1..(Len(w) + 1) /\ e \in Part
      BY <1>1, <1>3
    <3>2. /\ t \in Seq(Part) /\ Len(t) = Len(w) + 1
          /\ \A k \in 1..(Len(w) + 1) : t[k] = IF k < j THEN w[k] ELSE IF k = j THEN e ELSE w[k - 1]
      BY SMTT(30), <1>3, <1>8, <3>1, InsertedParts
    <3> QED
      BY <3>1, <3>2
  <2>2. CASE j <= n + 2
    <3>1. n + 3 \in 1..Len(t) /\ t[n + 3] = Sha256(b)
          /\ \A k \in ((n + 3) + 1)..Len(t) : t[k] \in Other
      BY <1>1, <1>4, <2>1, <2>2
    <3> QED
      BY <1>5, <2>1, <3>1
  <2>3. CASE j > n + 2
    <3>1. n + 2 \in 1..Len(t) /\ t[n + 2] = Sha256(b)
          /\ \A k \in ((n + 2) + 1)..Len(t) : t[k] \in Other
      BY <1>1, <1>4, <2>1, <2>3
    <3> QED
      BY <1>5, <2>1, <3>1
  <2> QED
    BY <1>1, <2>2, <2>3
<1>9. DOMAIN w = 1..(n + 3) /\ 1..(Len(w) + 1) = 1..(n + 4)
  <2>1. Len(w) + 1 = n + 4
    BY <1>1
  <2> QED
    BY <1>1, <1>3, <2>1
<1>10. \/ \E j \in DOMAIN w, e \in Other : t = [ w EXCEPT ![j] = e ]
       \/ \E j \in DOMAIN w : t = RemoveAt(w, j)
       \/ \E j \in 1..(Len(w) + 1), e \in Other : t = InsertAt(w, j, e)
  BY DEF Alterations, Other, w
<1> QED
  BY <1>6, <1>7, <1>8, <1>9, <1>10 DEF w

-----------------------------------------------------------------------------
(***************************************************************************)
(* What a whole text, its label and the exit code say                      *)
(***************************************************************************)

\* The exit code that stands for a label
Says(label, code) ==
  \/ label = Timeout /\ code = 124
  \/ label = CouldNotStart /\ code = 127
  \/ \E c \in Codes : label = [ code |-> c ] /\ code = c

\* The text that q is to write is closed by its digest, and its label says the code.
Closes(q) == Sealed(q.whole) /\ Says(q.whole[1].label, q.code)

Telling(q) ==
  /\ \A k \in DOMAIN q.out : Unforeseen(q.out[k])
  /\ q.ended # NoLabel => \E c \in Codes : q.ended = [ code |-> c ]
  /\ q.pc \in {"rev_parse", "status"} => Says(q.label, q.code)
  /\ q.pc \in {"open", "write"} => Closes(q)

\* A process that has exited has all of its text in its file, or could not write it.
FileTells(f, q) ==
  /\ Closes(q)
  /\ q.pc = "exited" => q.exit = 1 \/ (f.text = q.whole /\ q.exit = q.code % 256)

Own(p) == proc[p].id \in ValidIds /\ files[proc[p].id].by = p

Told ==
  /\ \A p \in Captures : Telling(proc[p])
  /\ \A p \in Captures : At(p, "exited") => proc[p].exit \in {1, 2} \/ Own(p)
  /\ \A id \in ValidIds : files[id] # NoFile => FileTells(files[id], proc[files[id].by])

\* Steps that leave the disk alone
LEMMA BecomesTells ==
  ASSUME IInv, Told, NEW p \in Captures, proc[p].pc \notin Ended, NEW q, Becomes(p, q), Telling(q),
         q.id = proc[p].id,
         proc[p].pc = "write" =>
           q.whole = proc[p].whole /\ q.code = proc[p].code /\ (q.pc = "exited" => q.exit = 1),
         proc[p].pc # "write" /\ q.pc = "exited" => q.exit \in {1, 2}
  PROVE  Told'
<1>1. proc' = [ proc EXCEPT ![p] = q ] /\ UNCHANGED files
  BY DEF Becomes
<1>2. proc'[p] = q /\ \A o \in Captures \ {p} : proc'[o] = proc[o]
  BY <1>1 DEF IInv, Shape
<1>3. \A o \in Captures : Telling(proc'[o])
  BY <1>2 DEF Told
<1>4. ASSUME NEW o \in Captures, At(o, "exited")' PROVE proc'[o].exit \in {1, 2} \/ Own(o)'
  <2>1. CASE o = p /\ proc[p].pc # "write"
    BY <1>2, <1>4, <2>1 DEF At
  <2>2. CASE o = p /\ proc[p].pc = "write"
    <3>1. proc[p].id \in ValidIds /\ files[proc[p].id].by = p
      BY <2>2 DEF IInv, Way, OnItsWay, Disk
    <3> QED
      BY <1>1, <1>2, <2>2, <3>1 DEF Own
  <2>3. CASE o # p
    BY <1>1, <1>2, <1>4, <2>3 DEF Told, Own, At
  <2> QED
    BY <2>1, <2>2, <2>3
<1>5. ASSUME NEW id \in ValidIds, files'[id] # NoFile PROVE FileTells(files[id], proc[files[id].by])'
  <2> DEFINE o == files[id].by
  <2>1. o \in Captures /\ FileOf(id, files[id], proc[o], Quiet(o)) /\ FileTells(files[id], proc[o])
    BY <1>1, <1>5 DEF IInv, Disk, Told
  <2>2. CASE o # p
    BY <1>1, <1>2, <2>1, <2>2
  <2>3. CASE o = p
    <3>1. proc[p].pc = "write"
      BY <2>1, <2>3 DEF FileOf, Written
    <3>2. FileTells(files[id], q)
      BY <2>1, <2>3, <3>1 DEF FileTells, Closes
    <3> QED
      BY <1>1, <1>2, <2>3, <3>2
  <2> QED
    BY <2>2, <2>3
<1> QED
  BY <1>3, <1>4, <1>5 DEF Told

\* Steps that write
LEMMA WritesTells ==
  ASSUME IInv, Told, NEW p \in Captures, NEW q, NEW f, Writes(p, q, f), Telling(q),
         q.id = proc[p].id, proc[p].id \in ValidIds, f.by = p, FileTells(f, q),
         files[q.id] = NoFile \/ files[q.id].by = p
  PROVE  Told'
<1> DEFINE id0 == proc[p].id
<1>1. proc' = [ proc EXCEPT ![p] = q ] /\ files' = [ files EXCEPT ![id0] = f ]
  BY DEF Writes
<1>2. /\ proc'[p] = q /\ \A o \in Captures \ {p} : proc'[o] = proc[o]
      /\ files'[id0] = f /\ \A id \in ValidIds \ {id0} : files'[id] = files[id]
  BY <1>1 DEF IInv, Shape
<1>3. \A o \in Captures : Telling(proc'[o])
  BY <1>2 DEF Told
<1>4. ASSUME NEW o \in Captures, At(o, "exited")' PROVE proc'[o].exit \in {1, 2} \/ Own(o)'
  <2>1. CASE o = p
    BY <1>2, <2>1 DEF Own
  <2>2. CASE o # p
    <3>1. proc[o].exit \in {1, 2} \/ Own(o)
      BY <1>2, <1>4, <2>2 DEF Told, At
    <3>2. Own(o) => proc[o].id # id0
      BY <2>2, EvidenceAssumption DEF Own, NoFile
    <3> QED
      BY <1>2, <2>2, <3>1, <3>2 DEF Own
  <2> QED
    BY <2>1, <2>2
<1>5. ASSUME NEW id \in ValidIds, files'[id] # NoFile PROVE FileTells(files[id], proc[files[id].by])'
  <2>1. CASE id = id0
    BY <1>2, <2>1
  <2>2. CASE id # id0
    <3> DEFINE o == files[id].by
    <3>1. o \in Captures /\ FileOf(id, files[id], proc[o], Quiet(o)) /\ FileTells(files[id], proc[o])
      BY <1>2, <1>5, <2>2 DEF IInv, Disk, Told
    <3>2. o # p
      BY <2>2, <3>1 DEF FileOf
    <3> QED
      BY <1>2, <2>2, <3>1, <3>2
  <2> QED
    BY <2>1, <2>2
<1> QED
  BY <1>3, <1>4, <1>5 DEF Told


\* A process that ends without a file has exited with 1 or 2, one with a file with 1.
LEMMA EndsTells ==
  ASSUME IInv, Told, NEW p \in Captures, proc[p].pc \notin Ended, NEW stage \in Ended, NEW exit,
         Becomes(p, Ends(p, stage, exit)),
         stage = "exited" => exit \in {1, 2} /\ (proc[p].pc = "write" => exit = 1)
  PROVE  Told'
<1> DEFINE q == Ends(p, stage, exit)
<1>1. CASE proc[p].pc = "write"
  <2> DEFINE g == Goto(p, stage)
  <2>1. q = [ g EXCEPT !.exit = exit ]
    BY <1>1 DEF Ends
  <2>2. /\ Record(g) /\ g.pc = stage /\ g.id = proc[p].id /\ g.ended = proc[p].ended
        /\ g.out = proc[p].out /\ g.code = proc[p].code /\ g.whole = proc[p].whole
    BY ZenonT(30), GotoFacts DEF Stages
  <2> HIDE DEF g, q
  <2>3. /\ q.pc = stage /\ q.id = proc[p].id /\ q.ended = proc[p].ended /\ q.exit = exit
        /\ q.out = proc[p].out /\ q.code = proc[p].code /\ q.whole = proc[p].whole
    BY <2>1, <2>2 DEF Record
  <2>4. Telling(q)
    BY <2>3 DEF Told, Telling, Ended
  <2> QED
    BY <1>1, <2>3, <2>4, BecomesTells DEF q
<1>2. CASE proc[p].pc # "write"
  <2>1. q = [ Start(proc[p].id) EXCEPT !.pc = stage, !.exit = exit ]
    BY <1>2 DEF Ends
  <2>2. q.pc = stage /\ q.id = proc[p].id /\ q.out = << >> /\ q.ended = NoLabel /\ q.exit = exit
    BY <2>1 DEF Start
  <2>3. Telling(q)
    BY <2>2 DEF Telling, Ended
  <2> HIDE DEF q
  <2> QED
    BY <1>2, <2>2, <2>3, BecomesTells DEF q
<1> QED
  BY <1>1, <1>2

\* The steps before there is a text: the label that is chosen has its exit code.
LEMMA EarlyStepsTell ==
  ASSUME IInv, Told, NEW p \in Captures,
         \/ Check(p) \/ CommandPrints(p) \/ CommandEnds(p)
         \/ Returns(p) \/ TimesOut(p) \/ Fails(p) \/ RevParse(p)
  PROVE  Told'
<1> DEFINE me == proc[p]
<1>1. Telling(me) /\ Record(me)
  BY DEF Told, IInv, Shape
<1>2. CASE Check(p)
  <2>1. CASE me.id \in ValidIds /\ files[me.id] = NoFile
    <3> DEFINE g == Goto(p, "run")
               q == [ g EXCEPT !.ran = tree ]
    <3>1. Becomes(p, q) /\ me.pc = "check"
      BY <1>2, <2>1 DEF Check, At
    <3>2. Record(g) /\ g.pc = "run" /\ g.id = me.id /\ g.ended = me.ended /\ g.out = me.out
      BY GotoFacts DEF Stages
    <3> HIDE DEF g
    <3>3. q.pc = "run" /\ q.id = me.id /\ q.ended = me.ended /\ q.out = me.out
      BY <3>2 DEF Record
    <3> HIDE DEF q
    <3>4. Telling(q)
      BY <1>1, <3>3 DEF Telling
    <3> QED
      BY <3>1, <3>3, <3>4, BecomesTells DEF Ended
  <2>2. CASE ~(me.id \in ValidIds /\ files[me.id] = NoFile)
    <3>1. me.pc = "check" /\ Becomes(p, Ends(p, "exited", 2 % 256)) /\ 2 % 256 = 2
      BY <1>2, <2>2 DEF Check, At, Exits
    <3> QED
      BY <3>1, EndsTells DEF Ended
  <2> QED
    BY <2>1, <2>2
<1>3. CASE CommandPrints(p)
  <2>1. PICK lines \in Printable : Becomes(p, [ me EXCEPT !.out = lines ])
    BY <1>3 DEF CommandPrints
  <2> DEFINE q == [ me EXCEPT !.out = lines ]
  <2>2. \A k \in DOMAIN lines : Unforeseen(lines[k])
    BY NothingForeseen DEF Unforeseen
  <2>3. me.pc = "run" /\ q.pc = "run" /\ q.id = me.id /\ q.ended = me.ended /\ q.out = lines
    BY <1>1, <1>3 DEF CommandPrints, At, Record
  <2> HIDE DEF q
  <2>4. Telling(q)
    BY <1>1, <2>2, <2>3 DEF Telling
  <2> QED
    BY <2>1, <2>3, <2>4, BecomesTells DEF q, Ended
<1>4. CASE CommandEnds(p)
  <2>1. PICK c \in Codes : Becomes(p, [ me EXCEPT !.ended = [ code |-> c ] ])
    BY <1>4 DEF CommandEnds
  <2> DEFINE q == [ me EXCEPT !.ended = [ code |-> c ] ]
  <2>2. me.pc = "run" /\ q.pc = "run" /\ q.id = me.id /\ q.ended = [ code |-> c ] /\ q.out = me.out
    BY <1>1, <1>4 DEF CommandEnds, At, Record
  <2> HIDE DEF q
  <2>3. Telling(q)
    BY <1>1, <2>2 DEF Telling
  <2> QED
    BY <2>1, <2>2, <2>3, BecomesTells DEF q, Ended
<1>5. CASE Returns(p) \/ TimesOut(p) \/ Fails(p)
  <2>1. PICK label, code : Becomes(p, Labelled(p, label, code)) /\ Says(label, code)
    <3>1. CASE Returns(p)
      <4>1. PICK c \in Codes : me.ended = [ code |-> c ]
        BY <1>1, <3>1 DEF Returns, Telling
      <4>2. Becomes(p, Labelled(p, me.ended, c)) /\ Says(me.ended, c)
        BY <3>1, <4>1 DEF Returns, Says
      <4> QED
        BY <4>2
    <3>2. CASE TimesOut(p)
      BY <3>2 DEF TimesOut, Says
    <3>3. CASE Fails(p)
      BY <3>3 DEF Fails, Says
    <3> QED
      BY <1>5, <3>1, <3>2, <3>3
  <2> DEFINE g == Goto(p, "rev_parse")
             q == Labelled(p, label, code)
  <2>2. me.pc = "run"
    BY <1>5 DEF Returns, TimesOut, Fails, At
  <2>3. Record(g) /\ g.pc = "rev_parse" /\ g.id = me.id /\ g.ended = me.ended /\ g.out = me.out
    BY GotoFacts DEF Stages
  <2>4. q = [ g EXCEPT !.label = label, !.code = code ]
    BY DEF Labelled
  <2> HIDE DEF g, q
  <2>5. /\ q.pc = "rev_parse" /\ q.id = me.id /\ q.ended = me.ended /\ q.out = me.out
        /\ q.label = label /\ q.code = code
    BY <2>3, <2>4 DEF Record
  <2>6. Telling(q)
    BY <1>1, <2>1, <2>5 DEF Telling
  <2> QED
    BY <2>1, <2>2, <2>5, <2>6, BecomesTells DEF q, Ended
<1>6. CASE RevParse(p)
  <2>1. PICK sha : Becomes(p, [ Goto(p, "status") EXCEPT !.sha = sha ])
    BY <1>6 DEF RevParse
  <2> DEFINE g == Goto(p, "status")
             q == [ g EXCEPT !.sha = sha ]
  <2>2. me.pc = "rev_parse"
    BY <1>6 DEF RevParse, At
  <2>3. /\ Record(g) /\ g.pc = "status" /\ g.id = me.id /\ g.ended = me.ended /\ g.out = me.out
        /\ g.label = me.label /\ g.code = me.code
    BY GotoFacts DEF Stages
  <2> HIDE DEF g
  <2>4. /\ q.pc = "status" /\ q.id = me.id /\ q.ended = me.ended /\ q.out = me.out
        /\ q.label = me.label /\ q.code = me.code
    BY <2>3 DEF Record
  <2>5. Becomes(p, q)
    BY <2>1 DEF g
  <2> HIDE DEF q
  <2>6. Telling(q)
    BY <1>1, <2>2, <2>4 DEF Telling
  <2> QED
    BY <2>2, <2>4, <2>5, <2>6, BecomesTells DEF Ended
<1> QED
  BY <1>2, <1>3, <1>4, <1>5, <1>6

\* The digest closes a header and what the command printed.
LEMMA StatusTells == ASSUME IInv, Told, NEW p \in Captures, Status(p) PROVE Told'
<1> DEFINE me == proc[p]
<1>1. me.pc = "status" /\ IsText(me.out) /\ Telling(me)
  BY DEF IInv, Way, OnItsWay, Told, Status, At
<1>2. PICK sha, dirty : Becomes(p, Assembled(p, sha, dirty))
  BY DEF Status
<1> DEFINE header == Header(p, sha, dirty)
           body == << header >> \o me.out
           w == Closed(body)
           g == Goto(p, "open")
           q == Assembled(p, sha, dirty)
<1>3. q = [ g EXCEPT !.whole = w, !.out = << >>, !.label = NoLabel, !.sha = 0 ]
  BY DEF Assembled, Closed
<1>4. header.part = "header" /\ header.label = me.label
  BY DEF Header
<1> HIDE DEF header
<1>5. Body(body) /\ body[1] = header
  <2>1. PICK Some : me.out \in Seq(Some)
    BY <1>1 DEF IsText
  <2> DEFINE Part == Some \union {header}
             top == << header >>
  <2>2. me.out \in Seq(Part) /\ top \in Seq(Part) /\ Len(top) = 1 /\ top[1] = header
    BY <2>1, SeqMonotonic
  <2> HIDE DEF Part, top
  <2> DEFINE s == top \o me.out
  <2>3. /\ s \in Seq(Part) /\ Len(s) = Len(top) + Len(me.out)
        /\ \A k \in 1..(Len(top) + Len(me.out)) :
             s[k] = IF k <= Len(top) THEN top[k] ELSE me.out[k - Len(top)]
    BY <2>2, ConcatProperties
  <2> HIDE DEF s
  <2>4. Len(me.out) \in Nat /\ DOMAIN me.out = 1..Len(me.out)
    BY <2>1
  <2>5. Len(s) = 1 + Len(me.out) /\ s[1] = header /\ s # << >>
    <3>1. s[1] = top[1]
      BY <2>2, <2>3, <2>4
    <3>2. Len(s) = 1 + Len(me.out)
      BY <2>2, <2>3, <2>4
    <3> QED
      BY <2>2, <2>3, <2>4, <3>1, <3>2
  <2>6. ASSUME NEW k \in 2..Len(s) PROVE Unforeseen(s[k])
    <3>1. k - 1 \in DOMAIN me.out /\ s[k] = me.out[k - 1]
      BY SMTT(30), <2>2, <2>3, <2>4, <2>5
    <3> QED
      BY <1>1, <3>1 DEF Telling
  <2> QED
    BY <1>4, <2>3, <2>5, <2>6 DEF Body, IsText, s, top
<1>6. Sealed(w) /\ w[1] = header
  <2>1. Sealed(w)
    BY <1>5 DEF Sealed
  <2> HIDE DEF body
  <2>2. IsText(body) /\ body # << >>
    BY <1>5 DEF Body
  <2>3. Len(body) \in Nat /\ Len(body) > 0 /\ \A k \in 1..Len(body) : w[k] = body[k]
    BY <2>2, ClosedParts
  <2>4. w[1] = body[1]
    BY <2>3
  <2> QED
    BY <1>5, <2>1, <2>4
<1>7. Record(g) /\ g.pc = "open" /\ g.id = me.id /\ g.ended = me.ended /\ g.code = me.code
  BY GotoFacts DEF Stages
<1> HIDE DEF g, q, w
<1>8. /\ q.pc = "open" /\ q.id = me.id /\ q.ended = me.ended /\ q.code = me.code
      /\ q.out = << >> /\ q.whole = w
  BY <1>3, <1>7 DEF Record
<1>9. Says(me.label, me.code)
  BY <1>1 DEF Telling
<1>10. Telling(q)
  BY <1>1, <1>4, <1>6, <1>8, <1>9 DEF Telling, Closes
<1> QED
  BY <1>1, <1>2, <1>8, <1>10, BecomesTells DEF q, Ended

\* The file is opened, and filled: with the last part the code is that of the label.
LEMMA OpenTells == ASSUME IInv, Told, NEW p \in Captures, Open(p) PROVE Told'
<1> DEFINE me == proc[p]
<1>1. me.pc = "open" /\ me.id \in ValidIds /\ Telling(me)
  BY DEF IInv, Way, OnItsWay, Told, Open, At
<1>2. CASE files[me.id] = NoFile
  <2> DEFINE q == Goto(p, "write")
             f == [ by |-> p, text |-> << >> ]
  <2>1. Writes(p, q, f)
    BY <1>2 DEF Open
  <2>2. /\ q.pc = "write" /\ q.id = me.id /\ q.ended = me.ended /\ q.out = me.out
        /\ q.code = me.code /\ q.whole = me.whole
    BY GotoFacts DEF Stages
  <2> HIDE DEF q
  <2>3. Closes(q)
    BY <1>1, <2>2 DEF Telling, Closes
  <2>4. Telling(q) /\ FileTells(f, q)
    BY <1>1, <2>2, <2>3 DEF Telling, FileTells
  <2> QED
    BY <1>1, <1>2, <2>1, <2>2, <2>4, WritesTells
<1>3. CASE files[me.id] # NoFile
  <2>1. Becomes(p, Ends(p, "exited", 2 % 256)) /\ 2 % 256 = 2
    BY <1>3 DEF Open, Exits
  <2> QED
    BY <1>1, <2>1, EndsTells DEF Ended
<1> QED
  BY <1>2, <1>3

LEMMA WriteTells == ASSUME IInv, Told, NEW p \in Captures, Write(p) PROVE Told'
<1> DEFINE me == proc[p]
           old == files[me.id]
           n == Len(old.text)
           f == [ by |-> p, text |-> SubSeq(me.whole, 1, n + 1) ]
           q == IF n + 1 = Len(me.whole) THEN Exits(p, me.code) ELSE me
<1>1. me.pc = "write" /\ Writes(p, q, f)
  BY DEF Write, At
<1>2. me.id \in ValidIds /\ Telling(me) /\ Record(me) /\ old.by = p /\ old # NoFile
  BY <1>1 DEF IInv, Way, OnItsWay, Shape, Disk, Told
<1>3. Closes(me)
  BY <1>1, <1>2 DEF Telling
<1>4. CASE n + 1 # Len(me.whole)
  <2>1. q = me
    BY <1>4
  <2>2. FileTells(f, me)
    BY <1>1, <1>3 DEF FileTells
  <2> HIDE DEF q, f
  <2> QED
    BY <1>1, <1>2, <2>1, <2>2, WritesTells DEF f
<1>5. CASE n + 1 = Len(me.whole)
  <2> DEFINE g == Goto(p, "exited")
  <2>1. q = [ g EXCEPT !.exit = me.code % 256 ]
    BY <1>1, <1>5 DEF Exits, Ends
  <2>2. /\ Record(g) /\ g.pc = "exited" /\ g.id = me.id /\ g.ended = me.ended /\ g.out = me.out
        /\ g.code = me.code /\ g.whole = me.whole
    BY GotoFacts DEF Stages, Ended
  <2> HIDE DEF g, q
  <2>3. /\ q.pc = "exited" /\ q.id = me.id /\ q.ended = me.ended /\ q.out = me.out
        /\ q.code = me.code /\ q.whole = me.whole /\ q.exit = me.code % 256
    BY <2>1, <2>2 DEF Record
  <2>4. Telling(q)
    BY <1>2, <2>3 DEF Telling
  <2>5. f.text = me.whole
    <3>1. PICK Part : me.whole \in Seq(Part)
      BY <1>1 DEF IInv, Way, OnItsWay, TrueText, IsText
    <3> QED
      BY <1>5, <3>1, SubSeqFull
  <2>6. FileTells(f, q)
    BY <1>3, <2>3, <2>5 DEF FileTells, Closes
  <2> QED
    BY <1>1, <1>2, <2>3, <2>4, <2>6, WritesTells
<1> QED
  BY <1>4, <1>5

LEMMA InitTold == Init => Told
<1> SUFFICES ASSUME Init PROVE Told
  OBVIOUS
<1>1. ASSUME NEW p \in Captures PROVE Telling(proc[p]) /\ ~At(p, "exited")
  <2>1. PICK id \in Ids : proc[p] = Start(id)
    BY DEF Init
  <2>2. proc[p].pc = "check" /\ proc[p].out = << >> /\ proc[p].ended = NoLabel
    BY <2>1 DEF Start
  <2> QED
    BY <2>2 DEF Telling, At
<1> QED
  BY <1>1 DEF Init, Told

LEMMA StepTold == IInv /\ Told /\ [Next]_vars => Told'
<1> SUFFICES ASSUME IInv, Told, [Next]_vars PROVE Told'
  OBVIOUS
<1>1. ASSUME NEW p \in Captures, Step(p) \/ CommandPrints(p) \/ CommandEnds(p) \/ Crash(p)
      PROVE  Told'
  <2>1. CASE EncodeFails(p)
    <3>1. proc[p].pc = "open" /\ Becomes(p, Ends(p, "exited", 2 % 256)) /\ 2 % 256 = 2
      BY <2>1 DEF EncodeFails, Exits, At
    <3> QED
      BY <3>1, EndsTells DEF Ended
  <2>2. CASE WriteFails(p)
    <3>1. proc[p].pc = "write" /\ Becomes(p, Ends(p, "exited", 1 % 256)) /\ 1 % 256 = 1
      BY <2>2 DEF WriteFails, Exits, At
    <3> QED
      BY <3>1, EndsTells DEF Ended
  <2>3. CASE Crash(p)
    BY <2>3, EndsTells DEF Crash, Ended
  <2>4. CASE OpenFails(p)
    <3>1. proc[p].pc \in {"check", "open"} /\ Becomes(p, Ends(p, "exited", 1 % 256)) /\ 1 % 256 = 1
      BY <2>4 DEF OpenFails, Exits
    <3> QED
      BY <3>1, EndsTells DEF Ended
  <2> QED
    BY <1>1, <2>1, <2>2, <2>3, <2>4, EarlyStepsTell, StatusTells, OpenTells, WriteTells DEF Step
<1>2. CASE EditCode \/ Commit \/ UNCHANGED vars
  <2>1. proc' = proc /\ files' = files
    BY <1>2 DEF EditCode, Commit, Edit, vars
  <2> QED
    BY <2>1 DEF Told, Own, At
<1> QED
  BY <1>1, <1>2 DEF Next, Done

-----------------------------------------------------------------------------
\* verify (tools/capture_evidence.py) accepts nothing but the whole capture of one process,
\* with no more than other whitespace around its digest: not one that is cut off before the
\* end of the digest or still being written, nor a whole one in which another line is
\* changed, gone or added, whatever hash lines its command printed.
THEOREM WholeVerified == Spec => []VerifiedIsWhole
<1>1. ASSUME IInv, Told PROVE VerifiedIsWhole
  <2>1. SUFFICES ASSUME NEW id \in ValidIds, files[id] # NoFile, NEW text, verify(text),
                        LET f == files[id] whole == proc[f.by].whole
                        IN text \in {f.text} \union (IF f.text = whole THEN Alterations(whole) ELSE {})
                 PROVE  SameButWhitespace(text, proc[files[id].by].whole)
    BY DEF VerifiedIsWhole
  <2> DEFINE f == files[id]
             w == proc[f.by].whole
  <2>2. FileOf(id, f, proc[f.by], Quiet(f.by)) /\ FileTells(f, proc[f.by])
    BY <1>1, <2>1 DEF IInv, Disk, Told
  <2>3. PICK b : Body(b) /\ w = Closed(b)
    BY <2>2 DEF FileTells, Closes, Sealed
  <2>4. CASE text = f.text
    <3>1. f.text = SubSeq(w, 1, Len(f.text)) /\ Len(f.text) \in 0..Len(w)
      BY <2>2 DEF FileOf, Beginning
    <3> DEFINE m == Len(f.text)
    <3> HIDE DEF m
    <3>2. m \in 0..Len(Closed(b)) /\ f.text = SubSeq(Closed(b), 1, m)
      BY <2>3, <3>1 DEF m
    <3> QED
      BY <2>1, <2>3, <2>4, <3>2, CutOffFails
  <2>5. CASE text \in Alterations(w)
    BY <2>1, <2>3, <2>5, AlteredFails
  <2> QED
    BY <2>1, <2>4, <2>5
<1>2. Init => IInv /\ Told
  BY InitIInv, InitTold
<1>3. IInv /\ Told /\ [Next]_vars => IInv' /\ Told'
  BY StepIInv, StepTold
<1> QED
  BY <1>1, <1>2, <1>3, PTL DEF Spec

\* A whole text verifies.
LEMMA WholeVerifies == ASSUME NEW b, Body(b) PROVE verify(Closed(b))
<1> DEFINE n == Len(b)
           w == Closed(b)
<1>1. /\ n \in Nat /\ n > 0 /\ Len(w) = n + 3 /\ IsText(w)
      /\ w[n + 1] = HASH_PREFIX /\ w[n + 2] = Sha256(b) /\ w[n + 3] = Newline /\ SubSeq(w, 1, n) = b
  BY ClosedParts DEF Body
<1>2. DOMAIN w = 1..(n + 3)
  BY <1>1 DEF IsText
<1> HIDE DEF n, w
<1>3. n + 1 \in HashLines(w) /\ \A k \in HashLines(w) : k <= n + 1
  BY <1>1, <1>2, PartsDiffer DEF HashLines, Other
<1>4. VerifyAt(w, n + 1)
  <2>1. n + 2 \in ((n + 1) + 1)..Len(w) /\ (n + 1) - 1 = n
    BY <1>1
  <2>2. \A j \in ((n + 1) + 1)..Len(w) : j # n + 2 => w[j] \in Whitespace
    BY <1>1, PartsDiffer
  <2>3. w[n + 2] = Sha256(SubSeq(w, 1, (n + 1) - 1))
    BY <1>1, <2>1
  <2> QED
    BY <2>1, <2>2, <2>3 DEF VerifyAt
<1> QED
  BY <1>3, <1>4 DEF verify, w

\* The exit code of capture_evidence other than 1 and 2 is that of a whole capture, which
\* verifies and whose label stands for the code; 1 and 2 without one say what went wrong.
THEOREM ExitTold == Spec => []ExitCodeTells
<1>1. ASSUME IInv, Told PROVE ExitCodeTells
  <2>1. SUFFICES ASSUME NEW p \in Captures, At(p, "exited")
                 PROVE  LET f == IF proc[p].id \in ValidIds THEN files[proc[p].id] ELSE NoFile IN
                        \/ /\ f.by = p /\ verify(f.text)
                           /\ \/ f.text[1].label = Timeout /\ proc[p].exit = 124
                              \/ f.text[1].label = CouldNotStart /\ proc[p].exit = 127
                              \/ \E c \in Codes : f.text[1].label = [ code |-> c ] /\ proc[p].exit = c % 256
                        \/ proc[p].exit = 1
                        \/ proc[p].exit = 2 /\ f.by # p
    BY DEF ExitCodeTells
  <2> DEFINE q == proc[p]
  <2>2. CASE Own(p)
    <3> DEFINE f == files[q.id]
    <3>1. q.id \in ValidIds /\ f.by = p /\ f # NoFile
      BY <2>2, EvidenceAssumption DEF Own, NoFile
    <3>2. FileTells(f, q) /\ q.pc = "exited"
      BY <1>1, <2>1, <3>1 DEF Told, At
    <3>3. PICK b : Body(b) /\ q.whole = Closed(b)
      BY <3>2 DEF FileTells, Closes, Sealed
    <3>4. verify(q.whole)
      BY <3>3, WholeVerifies
    <3>5. CASE q.exit = 1
      BY <3>1, <3>5
    <3>6. CASE f.text = q.whole /\ q.exit = q.code % 256
      <4>1. Says(f.text[1].label, q.code)
        BY <3>2, <3>6 DEF FileTells, Closes
      <4>2. \/ f.text[1].label = Timeout /\ q.exit = 124
            \/ f.text[1].label = CouldNotStart /\ q.exit = 127
            \/ \E c \in Codes : f.text[1].label = [ code |-> c ] /\ q.exit = c % 256
        <5>1. 124 % 256 = 124 /\ 127 % 256 = 127
          OBVIOUS
        <5>2. CASE f.text[1].label = Timeout /\ q.code = 124
          BY <3>6, <5>1, <5>2
        <5>3. CASE f.text[1].label = CouldNotStart /\ q.code = 127
          BY <3>6, <5>1, <5>3
        <5>4. CASE \E c \in Codes : f.text[1].label = [ code |-> c ] /\ q.code = c
          BY <3>6, <5>4
        <5> QED
          BY <4>1, <5>2, <5>3, <5>4 DEF Says
      <4> QED
        BY <3>1, <3>4, <3>6, <4>2
    <3> QED
      BY <3>2, <3>5, <3>6 DEF FileTells
  <2>3. CASE ~Own(p)
    <3>1. q.exit \in {1, 2}
      BY <1>1, <2>1, <2>3 DEF Told
    <3>2. NoFile.by # p
      BY EvidenceAssumption DEF NoFile
    <3> QED
      BY <2>3, <3>1, <3>2 DEF Own
  <2> QED
    BY <2>2, <2>3
<1>2. Init => IInv /\ Told
  BY InitIInv, InitTold
<1>3. IInv /\ Told /\ [Next]_vars => IInv' /\ Told'
  BY StepIInv, StepTold
<1> QED
  BY <1>1, <1>2, <1>3, PTL DEF Spec

=============================================================================
