------------------------------ MODULE Evidence ------------------------------
(***************************************************************************)
(* tools/capture_evidence: several processes run a command each and store  *)
(* its output, with what it ran in, under an evidence id of which they may *)
(* have chosen the same.  The tree is edited and committed meanwhile, git  *)
(* may not answer, and a process can be killed at any step.                *)
(*                                                                         *)
(* A file is the sequence of the parts its bytes fall into: the header, the *)
(* lines of the output, the hash line as its prefix and its digest.        *)
(***************************************************************************)
EXTENDS Integers, SequencesExt

CONSTANTS
  Captures,         \* the processes
  Ids,              \* the ids they may be given
  ValidIds,         \* those that ID_RE matches
  Codes,            \* the exit codes of a command
  Claim,            \* what VTB_GIT_DIRTY says: "no", "yes" or "unknown"
  Printable,        \* what a command may print
  MaxEdits          \* bound: edits and commits while processes run

Nobody == "nobody"
IsSequence(s) == s \in Seq({ s[k] : k \in DOMAIN s })

ASSUME EvidenceAssumption ==
  /\ Nobody \notin Captures /\ ValidIds \subseteq Ids
  /\ Codes \subseteq Int /\ MaxEdits \in Nat
  /\ \A lines \in Printable : IsSequence(lines)

VARIABLES
  tree,             \* the commit that is checked out and what git status lists
  edits,            \* how many edits and commits there have been
  disturbed,        \* history: processes under which there was one
  proc,             \* the processes, see Start
  files             \* docs/evidence/raw, by id

vars == << tree, edits, disturbed, proc, files >>

NoFile == [ by |-> Nobody, text |-> << >> ]

\* Parts of a file
HASH_PREFIX == [ part |-> "prefix" ]
Newline == [ part |-> "newline" ]
Line == [ part |-> "line" ]
\* a line of blanks, tabs or the like, or such beside the digest
Blank == [ part |-> "blank" ]
Sha256(text) == [ part |-> "digest", of |-> text ]

\* A header names the second in which it was made, when the output was complete: no
\* command prints the digest of a text that begins with the header of its own capture.
\* What begins with another part may be printed, and be another's capture as a whole.
ASSUME NothingForeseen ==
  \A lines \in Printable : \A k \in DOMAIN lines :
    lines[k].part = "digest" => lines[k].of = << >> \/ lines[k].of[1].part # "header"

NoLabel == [ text |-> "none" ]
Timeout == [ text |-> "timeout" ]
CouldNotStart == [ text |-> "could not start" ]

Clean == [ commit |-> 1, changed |-> {} ]

\* Where a process is, its id, the tree its command ran in (history) and how that
\* ended by itself (history), the output and the label of its exit, the answer of
\* git rev-parse, the whole file it is to write, and the exit code.
Start(id) ==
  [ pc |-> "check", id |-> id, ran |-> Clean, ended |-> NoLabel, out |-> << >>,
    label |-> NoLabel, code |-> 0, sha |-> 0, whole |-> << >>, exit |-> 0 ]

Ended == {"exited", "crashed"}
At(p, stage) == proc[p].pc = stage

Init ==
  /\ tree = Clean
  /\ edits = 0 /\ disturbed = {}
  /\ proc \in [ Captures -> { Start(id) : id \in Ids } ]
  /\ files = [ id \in ValidIds |-> NoFile ]

\* A step of process p that makes it q, and of the disk nothing.
Becomes(p, q) == proc' = [ proc EXCEPT ![p] = q ] /\ UNCHANGED << tree, edits, disturbed, files >>
Goto(p, stage) == [ proc[p] EXCEPT !.pc = stage ]

\* A process that ends: only of one that has a file the history is kept.
Ends(p, stage, exit) ==
  LET q == proc[p] IN
  IF q.pc = "write" THEN [ Goto(p, stage) EXCEPT !.exit = exit ]
                    ELSE [ Start(q.id) EXCEPT !.pc = stage, !.exit = exit ]
Exits(p, code) == Ends(p, "exited", code % 256)

(***************************************************************************)
(* capture.                                                                *)
(***************************************************************************)

\* A bad id, or one that is taken, is exit code 2 and no command.
Check(p) ==
  LET id == proc[p].id IN
  /\ At(p, "check")
  /\ Becomes(p, IF id \in ValidIds /\ files[id] = NoFile
                THEN [ Goto(p, "run") EXCEPT !.ran = tree ] ELSE Exits(p, 2))

\* The command prints, and ends; what it left in the background may print on.
CommandPrints(p) ==
  /\ At(p, "run") /\ proc[p].out = << >>
  /\ \E lines \in Printable : Becomes(p, [ proc[p] EXCEPT !.out = lines ])

CommandEnds(p) ==
  /\ At(p, "run") /\ proc[p].ended = NoLabel
  /\ \E c \in Codes : Becomes(p, [ proc[p] EXCEPT !.ended = [ code |-> c ] ])

Labelled(p, label, code) == [ Goto(p, "rev_parse") EXCEPT !.label = label, !.code = code ]

\* subprocess.run returns: the command has ended and nobody holds its output.
Returns(p) ==
  /\ At(p, "run") /\ proc[p].ended # NoLabel
  /\ Becomes(p, Labelled(p, proc[p].ended, proc[p].ended.code))

\* TimeoutExpired, for a command that runs or one whose output is still held
TimesOut(p) == At(p, "run") /\ Becomes(p, Labelled(p, Timeout, 124))

\* OSError: no such program
Fails(p) ==
  /\ At(p, "run") /\ proc[p].ended = NoLabel /\ proc[p].out = << >>
  /\ Becomes(p, Labelled(p, CouldNotStart, 127))

\* git rev-parse HEAD; a git that does not answer is Claimed.
Claimed == -1
RevParse(p) ==
  /\ At(p, "rev_parse")
  /\ \E sha \in {tree.commit, Claimed} : Becomes(p, [ Goto(p, "status") EXCEPT !.sha = sha ])

\* code_changes: other captures do not make the tree dirty.
code_changes(changed) == changed \ {"capture"}

Header(p, sha, dirty) ==
  [ part |-> "header", id |-> proc[p].id, commit |-> sha, dirty |-> dirty, label |-> proc[p].label ]

\* The header, the output, and the hash of both
Assembled(p, sha, dirty) ==
  LET body == << Header(p, sha, dirty) >> \o proc[p].out
  IN [ Goto(p, "open") EXCEPT !.whole = body \o << HASH_PREFIX, Sha256(body), Newline >>,
                              !.out = << >>, !.label = NoLabel, !.sha = 0 ]

Dirty(changed) == IF code_changes(changed) = {} THEN "no" ELSE "yes"

\* git status that did not answer taken for one that listed nothing
StatusOrNothing(p) ==
  /\ At(p, "status")
  /\ \E changed \in {tree.changed, {}} : Becomes(p, Assembled(p, proc[p].sha, Dirty(changed)))

\* git status --porcelain: without both answers VTB_GIT_SHA and VTB_GIT_DIRTY count.
Status(p) ==
  /\ At(p, "status")
  /\ \/ proc[p].sha # Claimed /\ Becomes(p, Assembled(p, proc[p].sha, Dirty(tree.changed)))
     \/ Becomes(p, Assembled(p, Claimed, Claim))

\* A command whose words UTF-8 cannot encode is a ValueError, too, and a file in the place
\* of the directory a FileExistsError.
EncodeFails(p) == At(p, "open") /\ Becomes(p, Exits(p, 2))

\* Whether there is a file cannot be told, or the directory or the file not be made: a
\* traceback.
OpenFails(p) ==
  /\ proc[p].id \in ValidIds /\ proc[p].pc \in {"check", "open"}
  /\ Becomes(p, Exits(p, 1))

\* A step in which p becomes q and the file of its id f
Writes(p, q, f) ==
  /\ proc' = [ proc EXCEPT ![p] = q ]
  /\ files' = [ files EXCEPT ![proc[p].id] = f ]
  /\ tree' = [ tree EXCEPT !.changed = @ \union {"capture"} ]
  /\ UNCHANGED << edits, disturbed >>

\* open(path, "wb")
OpenAnyway(p) == At(p, "open") /\ Writes(p, Goto(p, "write"), [ by |-> p, text |-> << >> ])

\* open(path, "xb"): somebody else's capture is not overwritten, this one is lost.
Open(p) ==
  /\ At(p, "open")
  /\ IF files[proc[p].id] = NoFile
     THEN Writes(p, Goto(p, "write"), [ by |-> p, text |-> << >> ])
     ELSE Becomes(p, Exits(p, 2))

\* The bytes reach the disk in pieces.
Write(p) ==
  LET text == files[proc[p].id].text
      whole == proc[p].whole
  IN
  /\ At(p, "write")
  /\ Writes(p, IF Len(text) + 1 = Len(whole) THEN Exits(p, proc[p].code) ELSE proc[p],
            [ by |-> p, text |-> SubSeq(whole, 1, Len(text) + 1) ])

\* A full disk is a traceback.
WriteFails(p) == At(p, "write") /\ Becomes(p, Exits(p, 1))

Crash(p) == proc[p].pc \notin Ended /\ Becomes(p, Ends(p, "crashed", 0))

(***************************************************************************)
(* verify, of what is in a file at some moment.                            *)
(***************************************************************************)
HashLines(text) == { k \in DOMAIN text : text[k] = HASH_PREFIX }

\* What strip() takes away
Whitespace == {Newline, Blank}

\* Whitespace aside, the digest of what is above the cut is all there is below it.
VerifyAt(text, cut) ==
  \E k \in (cut + 1)..Len(text) :
    /\ text[k] = Sha256(SubSeq(text, 1, cut - 1))
    /\ \A j \in (cut + 1)..Len(text) : j # k => text[j] \in Whitespace

\* the first hash line for the last
VerifyFirst(text) ==
  \E cut \in HashLines(text) : (\A k \in HashLines(text) : cut <= k) /\ VerifyAt(text, cut)

\* a digest that begins like the one recorded
VerifyBeginning(text) ==
  \E cut \in HashLines(text) :
    /\ \A k \in HashLines(text) : k <= cut
    /\ VerifyAt(text, cut) \/ cut = Len(text)

\* The last hash line holds the digest of all that is above it.
verify(text) ==
  \E cut \in HashLines(text) : (\A k \in HashLines(text) : k <= cut) /\ VerifyAt(text, cut)

(***************************************************************************)
(* Around the processes: the command itself or somebody edits or commits.  *)
(***************************************************************************)
UnderWay == { p \in Captures : proc[p].pc \in {"run", "rev_parse", "status"} }

Edit(t) ==
  /\ edits < MaxEdits /\ t # tree
  /\ tree' = t
  /\ edits' = edits + 1
  /\ disturbed' = disturbed \union UnderWay
  /\ UNCHANGED << proc, files >>

EditCode == Edit([ tree EXCEPT !.changed = @ \union {"code"} ])
Commit == Edit([ commit |-> tree.commit + 1, changed |-> {} ])

Step(p) ==
  \/ Check(p) \/ Returns(p) \/ TimesOut(p) \/ Fails(p) \/ RevParse(p) \/ Status(p)
  \/ EncodeFails(p) \/ OpenFails(p) \/ Open(p) \/ Write(p) \/ WriteFails(p)

Done == (\A p \in Captures : proc[p].pc \in Ended) /\ UNCHANGED vars

Next ==
  \/ \E p \in Captures : Step(p) \/ CommandPrints(p) \/ CommandEnds(p) \/ Crash(p)
  \/ EditCode \/ Commit \/ Done

Spec == Init /\ [][Next]_vars

-----------------------------------------------------------------------------
(***************************************************************************)
(* Properties.                                                             *)
(***************************************************************************)

\* No capture is ever overwritten or shortened, by its own process or another that was
\* given the same id while neither had written.
CapturesAreKept ==
  [][ \A id \in ValidIds : files[id] # NoFile =>
        files'[id].by = files[id].by /\ IsPrefix(files[id].text, files'[id].text) ]_files

\* The texts that differ from this one in one part: changed, gone, or one added
Alterations(text) ==
  LET Other == Whitespace \union {Line} IN
  { [ text EXCEPT ![k] = part ] : k \in DOMAIN text, part \in Other }
    \union { RemoveAt(text, k) : k \in DOMAIN text }
    \union { InsertAt(text, k, part) : k \in 1..(Len(text) + 1), part \in Other }

\* All up to the last hash prefix of the whole is as there, and below it the same digest
\* with nothing but whitespace around it.
SameButWhitespace(text, whole) ==
  \E cut \in 1..(Len(whole) - 1) :
    /\ whole[cut] = HASH_PREFIX
    /\ \A j \in (cut + 2)..Len(whole) : whole[j] \in Whitespace
    /\ \A j \in 1..cut : text[j] = whole[j]
    /\ \E k \in (cut + 1)..Len(text) :
         /\ text[k] = whole[cut + 1]
         /\ \A j \in (cut + 1)..Len(text) : j # k => text[j] \in Whitespace

\* verify accepts nothing but the whole capture of one process, of which no more than the
\* whitespace around its digest may be other: not one that is cut off before the end of
\* the digest or still being written, nor a whole one in which another line is changed,
\* gone or added, whatever hash lines its output itself holds.
VerifiedIsWhole ==
  \A id \in ValidIds :
    LET f == files[id]
        whole == proc[f.by].whole
    IN f # NoFile =>
         \A text \in {f.text} \union (IF f.text = whole THEN Alterations(whole) ELSE {}) :
           verify(text) => SameButWhitespace(text, whole)

\* An exit code other than 1 and 2 is that of a whole capture of this process, which
\* verifies and names the end that the code stands for; 1 and 2 can be that too.
\* Else 2 is a process whose id was bad or taken, whose words cannot be encoded or whose
\* directory is a file, and has written nothing; 1 is one that the disk has failed.
ExitCodeTells ==
  \A p \in Captures : At(p, "exited") =>
    LET f == IF proc[p].id \in ValidIds THEN files[proc[p].id] ELSE NoFile IN
    \/ /\ f.by = p /\ verify(f.text)
       /\ \/ f.text[1].label = Timeout /\ proc[p].exit = 124
          \/ f.text[1].label = CouldNotStart /\ proc[p].exit = 127
          \/ \E c \in Codes : f.text[1].label = [ code |-> c ] /\ proc[p].exit = c % 256
    \/ proc[p].exit = 1
    \/ proc[p].exit = 2 /\ f.by # p

\* A number in the exit line is the code the command itself ended with.
LabelIsOfTheCommand ==
  \A id \in ValidIds : files[id].text # << >> =>
    LET label == files[id].text[1].label IN
    label \notin {Timeout, CouldNotStart} => label = proc[files[id].by].ended

\* If nothing was edited or committed while it ran, a capture that git answered for
\* names the commit its command ran at, and calls the tree clean only if it was.
TreeIsOfTheCommand ==
  \A id \in ValidIds : files[id].text # << >> /\ files[id].by \notin disturbed =>
    LET header == files[id].text[1]
        ran == proc[files[id].by].ran
    IN header.commit # Claimed =>
         header.commit = ran.commit /\ (header.dirty = "no" <=> "code" \notin ran.changed)

\* What a capture says of its command is what happened, although it is read after the
\* command has ended, in several steps, while other captures write into the tree.
HeaderIsTrue == LabelIsOfTheCommand /\ TreeIsOfTheCommand

=============================================================================
