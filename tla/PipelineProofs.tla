--------------------------- MODULE PipelineProofs ---------------------------
(***************************************************************************)
(* For any payload sets, any number of commands, killed at any step, and   *)
(* of edits and removals between them: what a command leaves on the disk,  *)
(* and what the next one makes of it.                                      *)
(***************************************************************************)
EXTENDS Pipeline, AlgorithmProofs

\* Where a command can be, and what it is made of
Working == \/ cmd.what = "generate" /\ cmd.at \in {"render", "crop"}
           \/ cmd.what = "replay" /\ cmd.at \in {"decode", "write"}
Shape ==
  /\ config \in [ set : DOMAIN Sets, seed : Seeds ]
  /\ images = [ i \in Ids |-> images[i] ] /\ \A i \in Ids : images[i].damaged \in BOOLEAN
  /\ manifest \in [ by : Nat, whole : BOOLEAN, env : {manifest.env}, entries : {manifest.entries} ]
  /\ records \in [ by : {records.by}, lines : {records.lines}, torn : {records.torn}, all : {records.all} ]
  /\ Idle \/ Working
  /\ ~Idle => cmd \in [ what : {cmd.what}, at : {cmd.at}, code : {cmd.code}, mode : {cmd.mode},
                        todo : {cmd.todo}, collected : {cmd.collected} ]
  /\ generated \in Nat /\ commands \in Nat /\ (~Idle => commands # 0)

\* Lines of a records file: an image was decoded or not as it was damaged or not, and
\* none was torn; no payload is there twice.
IsRecords(lines) ==
  /\ lines \in Seq(ToSet(lines))
  /\ \A k \in DOMAIN lines :
       /\ lines[k].delivered = ~lines[k].image.damaged /\ lines[k].image.damaged \in BOOLEAN
       /\ lines[k].image # Torn
  /\ \A j, k \in DOMAIN lines : lines[j].id = lines[k].id => j = k

FromRun(lines, run) == \A k \in DOMAIN lines : lines[k].run = run

\* A replay collects records of images that it will not decode again.
Collecting ==
  Does("replay", "decode") =>
    /\ cmd.todo \in Seq(Ids) /\ Injective(cmd.todo)
    /\ IsRecords(cmd.collected) /\ FromRun(cmd.collected, commands)
    /\ \A k \in DOMAIN cmd.collected, j \in DOMAIN cmd.todo : cmd.collected[k].id # cmd.todo[j]
Recording ==
  Does("replay", "write") => records.by = commands /\ records.all = cmd.collected

\* The records file is a beginning of what its replay collected.
Filed ==
  /\ IsRecords(records.all) /\ FromRun(records.all, records.by)
  /\ Len(records.lines) \in 0..Len(records.all)
  /\ records.lines = SubSeq(records.all, 1, Len(records.lines))

\* What a run went through with
Passed ==
  cmd.what = "run" =>
    /\ IsRecords(cmd.lines)
    /\ cmd.code \in {0, 3} => Accepts(cmd.lines, cmd.specs, Config)
    /\ cmd.code = 0 /\ ~cmd.allow => Mismatches(cmd.lines, cmd.specs) = {}
    /\ \E v \in DOMAIN Sets, seed \in Seeds : cmd.specs = Specs(v, seed)

\* A generate lists images it will not draw again, and no manifest is of it before it
\* ends; the manifest of the last one lists the images as they are.
Drawn(entries) == \A k \in DOMAIN entries : images[entries[k].id] = entries[k].pixels
Drawing ==
  cmd.what = "generate" /\ ~Idle =>
    /\ generated = commands /\ manifest.by < generated
    /\ cmd.todo \in Seq(ToSet(cmd.todo)) /\ (cmd.at = "crop" => cmd.todo # << >>)
    /\ \A j \in DOMAIN cmd.todo : cmd.todo[j].id \in Ids
    /\ \A j, k \in DOMAIN cmd.todo : cmd.todo[j].id = cmd.todo[k].id => j = k
    /\ cmd.collected \in Seq(ToSet(cmd.collected)) /\ Drawn(cmd.collected)
    /\ \A k \in DOMAIN cmd.collected : cmd.collected[k].id \in Ids
    /\ \A k \in DOMAIN cmd.collected, j \in DOMAIN cmd.todo : cmd.collected[k].id # cmd.todo[j].id
Listed ==
  /\ manifest.by <= generated /\ generated <= commands
  /\ manifest.whole /\ manifest.by = generated => Drawn(manifest.entries)
Compared ==
  cmd.what = "check" => (cmd.code = 0 <=> manifest.whole /\ ToSet(manifest.entries) = ToSet(cmd.collected))

IInv ==
  /\ Shape
  /\ Collecting /\ Recording /\ Filed /\ Passed
  /\ Drawing /\ Listed /\ Compared

-----------------------------------------------------------------------------
\* A sequence is one of its own elements.
LEMMA OfItself ==
  ASSUME NEW S, NEW s \in Seq(S)
  PROVE  s \in Seq(ToSet(s))
<1> DEFINE n == Len(s)
<1>1. n \in Nat /\ DOMAIN s = 1..n /\ s = [ k \in 1..n |-> s[k] ]
  OBVIOUS
<1>2. \A k \in 1..n : s[k] \in ToSet(s)
  BY <1>1 DEF ToSet
<1> HIDE DEF n
<1>3. s \in [ 1..n -> ToSet(s) ]
  BY <1>1, <1>2
<1> QED
  BY <1>1, <1>3

\* What is left of a sequence, and one with an element more
LEMMA TailFacts ==
  ASSUME NEW S, NEW s \in Seq(S), s # << >>
  PROVE  /\ Tail(s) \in Seq(S) /\ Head(s) = s[1] /\ 1 \in DOMAIN s
         /\ \A k \in DOMAIN Tail(s) : Tail(s)[k] = s[k + 1] /\ k + 1 \in DOMAIN s /\ k \in Nat /\ k # 0
<1>1. Len(s) \in Nat /\ Len(s) # 0 /\ DOMAIN s = 1..Len(s)
  OBVIOUS
<1>2. Tail(s) \in Seq(S) /\ Len(Tail(s)) = Len(s) - 1 /\ DOMAIN Tail(s) = 1..(Len(s) - 1)
  OBVIOUS
<1>3. \A k \in 1..(Len(s) - 1) : Tail(s)[k] = s[k + 1]
  OBVIOUS
<1>4. Head(s) = s[1]
  OBVIOUS
<1> QED
  BY <1>1, <1>2, <1>3, <1>4

LEMMA AppendFacts ==
  ASSUME NEW S, NEW s \in Seq(S), NEW e
  PROVE  /\ Append(s, e) \in Seq(ToSet(Append(s, e)))
         /\ \A k \in DOMAIN Append(s, e) :
              (k \in DOMAIN s /\ Append(s, e)[k] = s[k]) \/ Append(s, e)[k] = e
<1> DEFINE more == Append(s, e)
<1>1. Len(s) \in Nat /\ DOMAIN s = 1..Len(s)
  OBVIOUS
<1>2. DOMAIN more = 1..(Len(s) + 1)
      /\ \A k \in 1..(Len(s) + 1) : more[k] = IF k = Len(s) + 1 THEN e ELSE s[k]
  BY <1>1
<1>3. more \in Seq(S \union {e})
  <2>1. s \in Seq(S \union {e})
    BY <1>1
  <2> QED
    BY <2>1, AppendProperties
<1> HIDE DEF more
<1>4. more \in Seq(ToSet(more))
  BY <1>3, OfItself
<1>5. \A k \in 1..(Len(s) + 1) : k # Len(s) + 1 => k \in DOMAIN s
  BY <1>1
<1> QED
  BY <1>2, <1>4, <1>5 DEF more

\* The specs of a payload set, whatever the seed
LEMMA SpecsFacts ==
  ASSUME NEW v \in DOMAIN Sets, NEW seed
  PROVE  /\ Specs(v, seed) \in Seq(ToSet(Specs(v, seed)))
         /\ \A k \in DOMAIN Specs(v, seed) :
              /\ Specs(v, seed)[k].id \in Ids /\ Specs(v, seed)[k].damage \in BOOLEAN
              /\ Specs(v, seed)[k].expect = ~Specs(v, seed)[k].damage
         /\ \A j, k \in DOMAIN Specs(v, seed) : Specs(v, seed)[j].id = Specs(v, seed)[k].id => j = k
<1> DEFINE set == Sets[v]
           list == Specs(v, seed)
<1>1. set \in Seq(ToSet(set)) /\ Len(set) \in Nat /\ DOMAIN set = 1..Len(set)
  BY SetsAssumption
<1>2. list = [ k \in 1..Len(set) |-> list[k] ] /\ DOMAIN list = 1..Len(set)
  BY <1>1 DEF Specs
<1>3. ASSUME NEW k \in 1..Len(set)
      PROVE  /\ list[k].id = set[k].id /\ list[k].expect = set[k].expect
             /\ list[k].damage = set[k].damage /\ list[k].damage \in BOOLEAN
             /\ set[k] \in ToSet(set)
  <2>1. set[k] \in ToSet(set)
    BY <1>1 DEF ToSet
  <2> DEFINE s == set[k]
  <2>2. s \in [ id : Nat, tier1 : BOOLEAN, decoders : {s.decoders}, derived : BOOLEAN,
                damage : BOOLEAN, expect : BOOLEAN, text : {s.text} ]
    BY <2>1, SetsAssumption
  <2>3. list[k] = [ s EXCEPT !.text = IF s.derived THEN seed ELSE s.text ]
    BY <1>1 DEF Specs
  <2> HIDE DEF s, list
  <2>4. list[k].id = s.id /\ list[k].expect = s.expect /\ list[k].damage = s.damage
    BY <2>2, <2>3
  <2>5. s.damage \in BOOLEAN
    BY <2>2
  <2>6. list[k].damage \in BOOLEAN
    BY <2>4, <2>5
  <2> QED
    BY <2>1, <2>4, <2>6 DEF s
<1>4. list \in Seq(ToSet(list))
  <2> HIDE DEF list
  <2>1. \A k \in 1..Len(set) : list[k] \in ToSet(list)
    BY <1>2 DEF ToSet
  <2>2. list \in [ 1..Len(set) -> ToSet(list) ]
    BY <1>2, <2>1
  <2> QED
    BY <1>1, <2>2
<1>5. \A k \in 1..Len(set) :
        list[k].id \in Ids /\ list[k].damage \in BOOLEAN /\ list[k].expect = ~list[k].damage
  BY <1>3, DamageAssumption DEF Ids
<1>6. \A j, k \in 1..Len(set) : list[j].id = list[k].id => j = k
  BY <1>1, <1>3, SetsAssumption
<1> HIDE DEF list
<1> QED
  BY <1>2, <1>4, <1>5, <1>6 DEF list

\* The images that replay_records finds, each once
LEMMA PathsList ==
  ASSUME NEW S, S \subseteq Ids
  PROVE  Enumerates(Ranked(S, { ij \in Ids \X Ids : ij[1] < ij[2] }), S)
<1> DEFINE before == { ij \in Ids \X Ids : ij[1] < ij[2] }
<1>1. Ids \subseteq Nat
  BY SetsAssumption DEF Ids
<1>2. IsFiniteSet(S)
  BY IdsAssumption, FS_Subset
<1>3. \A i, j \in S : << i, j >> \in before <=> i < j
  OBVIOUS
<1>4. Ordered(S, before)
  <2> HIDE DEF before
  <2>1. \A i \in S : i \in Nat
    BY <1>1
  <2>2. \A i \in S : << i, i >> \notin before
    BY <1>3, <2>1
  <2>3. \A i, j, k \in S : << i, j >> \in before /\ << j, k >> \in before => << i, k >> \in before
    BY <1>3, <2>1
  <2>4. \A i, j \in S : i # j => << i, j >> \in before \/ << j, i >> \in before
    BY <1>3, <2>1
  <2> QED
    BY <2>2, <2>3, <2>4 DEF Ordered
<1> QED
  BY <1>2, <1>4, RankedLists

\* A beginning of a records file
LEMMA BeginningFacts ==
  ASSUME NEW all, IsRecords(all), NEW run, FromRun(all, run), NEW lines,
         Len(lines) \in 0..Len(all), lines = SubSeq(all, 1, Len(lines))
  PROVE  /\ Len(lines) \in Nat /\ DOMAIN lines = 1..Len(lines) /\ DOMAIN lines \subseteq DOMAIN all
         /\ \A k \in DOMAIN lines : lines[k] = all[k]
         /\ IsRecords(lines) /\ FromRun(lines, run)
<1> DEFINE n == Len(lines)
<1>1. all \in Seq(ToSet(all)) /\ Len(all) \in Nat /\ DOMAIN all = 1..Len(all)
  BY DEF IsRecords
<1>2. n \in Nat /\ n <= Len(all)
  BY <1>1
<1> HIDE DEF n
<1>3. lines = SubSeq(all, 1, n) /\ n = Len(lines)
  BY DEF n
<1>4. /\ lines \in Seq(ToSet(all)) /\ DOMAIN lines = 1..n
      /\ \A k \in 1..n : lines[k] = all[k] /\ k \in 1..Len(all)
  <2>1. \A k \in 1..n : all[k] \in ToSet(all)
    BY <1>1, <1>2 DEF ToSet
  <2>2. SubSeq(all, 1, n) = [ k \in 1..n |-> all[k] ]
    BY <1>1, <1>2
  <2> QED
    BY <1>1, <1>2, <1>3, <2>1, <2>2
<1>5. lines \in Seq(ToSet(lines))
  BY <1>4, OfItself
<1>6. IsRecords(lines)
  BY <1>1, <1>4, <1>5 DEF IsRecords
<1>7. FromRun(lines, run)
  BY <1>1, <1>4 DEF FromRun
<1> QED
  BY <1>1, <1>2, <1>4, <1>6, <1>7 DEF n

\* A record more at the end of what a replay collected
LEMMA OneMoreRecord ==
  ASSUME NEW lines, IsRecords(lines), NEW run, FromRun(lines, run), NEW r,
         r.delivered = ~r.image.damaged, r.image.damaged \in BOOLEAN, r.image # Torn, r.run = run,
         \A k \in DOMAIN lines : lines[k].id # r.id
  PROVE  /\ IsRecords(Append(lines, r)) /\ FromRun(Append(lines, r), run)
         /\ DOMAIN Append(lines, r) = 1..(Len(lines) + 1) /\ Len(lines) \in Nat
         /\ \A k \in 1..(Len(lines) + 1) :
              Append(lines, r)[k] = IF k = Len(lines) + 1 THEN r ELSE lines[k]
<1> DEFINE n == Len(lines)
           more == Append(lines, r)
<1>1. lines \in Seq(ToSet(lines)) /\ n \in Nat /\ DOMAIN lines = 1..n
  BY DEF IsRecords
<1>2. DOMAIN more = 1..(n + 1) /\ Len(more) = n + 1
      /\ \A k \in 1..(n + 1) : more[k] = IF k = n + 1 THEN r ELSE lines[k]
  BY <1>1
<1>3. more \in Seq(ToSet(lines) \union {r})
  <2>1. lines \in Seq(ToSet(lines) \union {r})
    BY <1>1
  <2> QED
    BY <2>1, AppendProperties
<1> HIDE DEF n, more
<1>4. \A k \in 1..(n + 1) : k # n + 1 => k \in DOMAIN lines
  BY <1>1
<1>5. more \in Seq(ToSet(more))
  BY <1>3, OfItself
<1>6. ASSUME NEW k \in DOMAIN more
      PROVE  /\ more[k].delivered = ~more[k].image.damaged /\ more[k].image.damaged \in BOOLEAN
             /\ more[k].image # Torn /\ more[k].run = run
  BY <1>2, <1>4 DEF IsRecords, FromRun
<1>7. ASSUME NEW j \in DOMAIN more, NEW k \in DOMAIN more, more[j].id = more[k].id
      PROVE  j = k
  BY <1>2, <1>4, <1>7 DEF IsRecords
<1>8. IsRecords(more)
  BY <1>5, <1>6, <1>7 DEF IsRecords
<1>9. FromRun(more, run)
  BY <1>6 DEF FromRun
<1> QED
  BY <1>1, <1>2, <1>8, <1>9 DEF n, more

-----------------------------------------------------------------------------
\* What holds when nothing is running, and of a file that is not there
LEMMA Resting ==
  ASSUME Idle
  PROVE  Collecting /\ Recording /\ Drawing
BY DEF Idle, Does, Collecting, Recording, Drawing

LEMMA NothingFiled ==
  /\ IsRecords(<< >>) /\ \A run : FromRun(<< >>, run)
  /\ NoRecords.by = 0 /\ NoRecords.lines = << >> /\ NoRecords.all = << >> /\ NoRecords.torn = FALSE
  /\ NoMeta.by = 0 /\ NoMeta.torn = FALSE
BY DEF IsRecords, FromRun, NoRecords, NoMeta

LEMMA Exits ==
  ASSUME NEW code
  PROVE  /\ Exit(code).what = cmd.what /\ Exit(code).at = "exit" /\ Exit(code).code = code
         /\ Exit(code).collected = << >>
BY DEF Exit, Blank

LEMMA InitIInv ==
  ASSUME Init
  PROVE  IInv
<1>1. Idle /\ cmd.what = "none" /\ cmd.collected = << >>
  BY DEF Init, Idle, Blank
<1>2. Shape
  <2>1. config \in [ set : DOMAIN Sets, seed : Seeds ]
    BY SetsAssumption DEF Init
  <2>2. images = [ i \in Ids |-> images[i] ] /\ \A i \in Ids : images[i].damaged \in BOOLEAN
    BY DEF Init, NoImage
  <2>3. manifest \in [ by : Nat, whole : BOOLEAN, env : {manifest.env}, entries : {manifest.entries} ]
    BY DEF Init, NoManifest
  <2>4. records \in [ by : {records.by}, lines : {records.lines}, torn : {records.torn}, all : {records.all} ]
    BY DEF Init, NoRecords
  <2> QED
    BY <1>1, <2>1, <2>2, <2>3, <2>4 DEF Shape, Init
<1>3. Collecting /\ Recording /\ Drawing
  BY <1>1, Resting
<1>4. Filed
  <2>1. records.all = << >> /\ records.lines = << >>
    BY NothingFiled DEF Init
  <2> QED
    BY <2>1, NothingFiled DEF Filed
<1>5. Passed /\ Compared
  BY <1>1 DEF Passed, Compared
<1>6. Listed
  BY DEF Init, Listed, NoManifest, Drawn
<1> QED
  BY <1>2, <1>3, <1>4, <1>5, <1>6 DEF IInv

-----------------------------------------------------------------------------
(***************************************************************************)
(* Every step keeps it.                                                    *)
(***************************************************************************)
\* A command that begins: what it does not touch stays true.
LEMMA BeginsKeeps ==
  ASSUME IInv, NEW c, Begins(c)
  PROVE  /\ Idle /\ disk' = disk /\ commands' = commands + 1 /\ cmd' = c
         /\ Filed'
         /\ manifest.by <= generated /\ generated <= commands
BY DEF IInv, Begins, Filed, disk, Listed

LEMMA ShapeOfBegun ==
  ASSUME Shape, disk' = disk, commands' = commands + 1, generated' \in Nat,
         Idle' \/ (Working' /\ cmd' \in [ what : {cmd'.what}, at : {cmd'.at}, code : {cmd'.code},
                             mode : {cmd'.mode}, todo : {cmd'.todo}, collected : {cmd'.collected} ])
  PROVE  Shape'
<1>1. commands' \in Nat /\ commands' # 0
  BY DEF Shape
<1> QED
  BY <1>1 DEF Shape, disk

LEMMA GenerateKeeps ==
  ASSUME IInv, Generate
  PROVE  IInv'
<1>1. PICK seed \in Seeds :
        /\ Begins([ Blank EXCEPT !.what = "generate", !.at = "render", !.todo = Specs(config.set, seed) ])
        /\ generated' = commands + 1
  BY DEF Generate
<1> DEFINE list == Specs(config.set, seed)
<1>2. /\ Idle /\ disk' = disk /\ commands' = commands + 1 /\ Filed'
      /\ cmd' = [ Blank EXCEPT !.what = "generate", !.at = "render", !.todo = list ]
      /\ manifest.by <= generated /\ generated <= commands
  BY <1>1, BeginsKeeps
<1>3. /\ list \in Seq(ToSet(list)) /\ \A k \in DOMAIN list : list[k].id \in Ids
      /\ \A j, k \in DOMAIN list : list[j].id = list[k].id => j = k
  BY SpecsFacts DEF IInv, Shape
<1> HIDE DEF list
<1>4. /\ cmd' \in [ what : {"generate"}, at : {"render"}, code : {0}, mode : {"default"},
                    todo : {list}, collected : {<< >>} ]
      /\ cmd'.what = "generate" /\ cmd'.at = "render" /\ cmd'.todo = list /\ cmd'.collected = << >>
      /\ cmd'.code = 0 /\ cmd'.mode = "default"
  BY <1>2 DEF Blank
<1>5. Shape'
  <2>1. Working'
    BY <1>4 DEF Working
  <2>2. generated' \in Nat
    BY <1>1 DEF IInv, Shape
  <2> QED
    BY <1>2, <1>4, <2>1, <2>2, ShapeOfBegun DEF IInv
<1>6. Collecting' /\ Recording' /\ Passed' /\ Compared'
  BY <1>4 DEF Collecting, Recording, Passed, Compared, Does
<1>7. manifest.by \in Nat /\ commands \in Nat /\ generated \in Nat
  BY DEF IInv, Shape
<1>8. generated' = commands' /\ manifest' = manifest /\ images' = images
  BY <1>1, <1>2 DEF disk
<1>9. Drawing'
  <2>1. manifest'.by < generated'
    BY <1>1, <1>2, <1>7, <1>8
  <2> QED
    BY <1>3, <1>4, <1>8, <2>1 DEF Drawing, Drawn
<1>10. Listed'
  BY <1>1, <1>2, <1>7, <1>8 DEF Listed
<1> QED
  BY <1>2, <1>5, <1>6, <1>9, <1>10 DEF IInv

\* An image is drawn, and is done with or, if it is to be cropped, not yet.
DrawsOne(i, at, todo, collected) ==
  /\ \/ todo = Tail(cmd.todo) /\ collected = Append(cmd.collected, Entry(Head(cmd.todo), i)) /\ at = "render"
     \/ todo = cmd.todo /\ collected = cmd.collected
  /\ at \in {"render", "crop"} /\ i.damaged \in BOOLEAN
  /\ images' = [ images EXCEPT ![Head(cmd.todo).id] = i ]
  /\ cmd' = [ cmd EXCEPT !.at = at, !.todo = todo, !.collected = collected ]
  /\ UNCHANGED << config, manifest, records, meta, counts >>

LEMMA DrawsKeeps ==
  ASSUME IInv, cmd.what = "generate", cmd.at \in {"render", "crop"}, cmd.todo # << >>,
         NEW i, NEW at, NEW todo, NEW collected, DrawsOne(i, at, todo, collected)
  PROVE  IInv'
<1> DEFINE spec == Head(cmd.todo)
           done == todo = Tail(cmd.todo) /\ collected = Append(cmd.collected, Entry(spec, i)) /\ at = "render"
<1>1. ~Idle /\ Drawing /\ Shape
  BY DEF IInv, Idle
<1>2. /\ generated = commands /\ manifest.by < generated
      /\ cmd.todo \in Seq(ToSet(cmd.todo))
      /\ \A j \in DOMAIN cmd.todo : cmd.todo[j].id \in Ids
      /\ \A j, k \in DOMAIN cmd.todo : cmd.todo[j].id = cmd.todo[k].id => j = k
      /\ cmd.collected \in Seq(ToSet(cmd.collected)) /\ Drawn(cmd.collected)
      /\ \A k \in DOMAIN cmd.collected : cmd.collected[k].id \in Ids
      /\ \A k \in DOMAIN cmd.collected, j \in DOMAIN cmd.todo : cmd.collected[k].id # cmd.todo[j].id
  BY <1>1 DEF Drawing
<1>3. /\ Tail(cmd.todo) \in Seq(ToSet(cmd.todo)) /\ spec = cmd.todo[1] /\ 1 \in DOMAIN cmd.todo
      /\ \A k \in DOMAIN Tail(cmd.todo) :
           Tail(cmd.todo)[k] = cmd.todo[k + 1] /\ k + 1 \in DOMAIN cmd.todo /\ k \in Nat /\ k # 0
  BY <1>2, TailFacts
<1>4. Entry(spec, i).id = spec.id /\ Entry(spec, i).pixels = i
  BY DEF Entry
<1>5. /\ done \/ (todo = cmd.todo /\ collected = cmd.collected)
      /\ images' = [ images EXCEPT ![spec.id] = i ]
      /\ done => todo = Tail(cmd.todo) /\ collected = Append(cmd.collected, Entry(spec, i)) /\ at = "render"
      /\ at \in {"render", "crop"} /\ i.damaged \in BOOLEAN
      /\ cmd' = [ cmd EXCEPT !.at = at, !.todo = todo, !.collected = collected ]
      /\ UNCHANGED << config, manifest, records, meta, counts >>
  BY DEF DrawsOne
<1> HIDE DEF done
<1> DEFINE e == Entry(spec, i)
<1>6. spec.id \in Ids
  BY <1>2, <1>3
<1>7. /\ todo \in Seq(ToSet(todo)) /\ \A j \in DOMAIN todo : todo[j].id \in Ids
      /\ \A j, k \in DOMAIN todo : todo[j].id = todo[k].id => j = k
      /\ done => \A j \in DOMAIN todo : todo[j].id # spec.id
      /\ \A k \in DOMAIN cmd.collected, j \in DOMAIN todo : cmd.collected[k].id # todo[j].id
  <2>1. CASE done
    <3> DEFINE rest == Tail(cmd.todo)
    <3>1. rest \in Seq(ToSet(rest))
      BY <1>3, OfItself
    <3>6. todo = rest
      BY <1>5, <2>1
    <3>7. \A k \in DOMAIN rest :
            rest[k] = cmd.todo[k + 1] /\ k + 1 \in DOMAIN cmd.todo /\ k \in Nat /\ k # 0
      BY <1>3
    <3> HIDE DEF rest, spec
    <3>2. \A j, k \in DOMAIN rest : rest[j].id = rest[k].id => j = k
      <4> SUFFICES ASSUME NEW j \in DOMAIN rest, NEW k \in DOMAIN rest, rest[j].id = rest[k].id
                   PROVE  j = k
        OBVIOUS
      <4>1. j + 1 = k + 1
        BY <1>2, <3>7
      <4> QED
        BY <3>7, <4>1
    <3>3. \A j \in DOMAIN rest : rest[j].id # spec.id
      <4> SUFFICES ASSUME NEW j \in DOMAIN rest
                   PROVE  rest[j].id # spec.id
        OBVIOUS
      <4>1. j + 1 # 1
        BY <3>7
      <4> QED
        BY <1>2, <1>3, <3>7, <4>1
    <3>4. \A j \in DOMAIN rest : rest[j].id \in Ids
      BY <1>2, <3>7
    <3>5. \A k \in DOMAIN cmd.collected, j \in DOMAIN rest : cmd.collected[k].id # rest[j].id
      BY <1>2, <3>7
    <3> QED
      BY <3>1, <3>2, <3>3, <3>4, <3>5, <3>6
  <2>2. CASE ~done
    BY <1>2, <1>5, <2>2
  <2> QED
    BY <2>1, <2>2
<1>8. /\ collected \in Seq(ToSet(collected))
      /\ \A k \in DOMAIN collected :
           (k \in DOMAIN cmd.collected /\ collected[k] = cmd.collected[k]) \/ (done /\ collected[k] = e)
  <2>1. CASE done
    <3>1. collected = Append(cmd.collected, e)
      BY <1>5, <2>1
    <3>5. cmd.collected \in Seq(ToSet(cmd.collected))
      BY <1>2
    <3>3. e = Entry(spec, i)
      OBVIOUS
    <3> HIDE DEF e
    <3>2. /\ Append(cmd.collected, e) \in Seq(ToSet(Append(cmd.collected, e)))
          /\ \A k \in DOMAIN Append(cmd.collected, e) :
               (k \in DOMAIN cmd.collected /\ Append(cmd.collected, e)[k] = cmd.collected[k])
               \/ Append(cmd.collected, e)[k] = e
      BY <3>5, AppendFacts
    <3>4. collected \in Seq(ToSet(collected))
      BY <3>1, <3>2
    <3> QED
      BY <2>1, <3>1, <3>2, <3>4
  <2>2. CASE ~done
    BY <1>2, <1>5, <2>2
  <2> QED
    BY <2>1, <2>2
<1>9. e.id = spec.id /\ e.pixels = i
  BY <1>4
<1>10. /\ images' = [ x \in Ids |-> images'[x] ] /\ images'[spec.id] = i
       /\ \A x \in Ids : x # spec.id => images'[x] = images[x]
  BY <1>1, <1>5, <1>6 DEF Shape
<1> HIDE DEF e, spec
<1>11. /\ cmd' \in [ what : {cmd'.what}, at : {cmd'.at}, code : {cmd'.code}, mode : {cmd'.mode},
                     todo : {cmd'.todo}, collected : {cmd'.collected} ]
       /\ cmd'.what = "generate" /\ cmd'.at = at /\ cmd'.todo = todo /\ cmd'.collected = collected
  <2>1. cmd \in [ what : {cmd.what}, at : {cmd.at}, code : {cmd.code}, mode : {cmd.mode},
                  todo : {cmd.todo}, collected : {cmd.collected} ]
    BY <1>1 DEF Shape
  <2> QED
    BY <1>5, <2>1
<1>12. Shape'
  <2>1. \A x \in Ids : images'[x].damaged \in BOOLEAN
    BY <1>1, <1>5, <1>10 DEF Shape
  <2>2. Working'
    BY <1>5, <1>11 DEF Working
  <2> QED
    BY <1>1, <1>5, <1>10, <1>11, <2>1, <2>2 DEF Shape, counts
<1>13. ASSUME NEW k \in DOMAIN collected
       PROVE  images'[collected[k].id] = collected[k].pixels
  <2>1. CASE k \in DOMAIN cmd.collected /\ collected[k] = cmd.collected[k]
    <3>1. cmd.collected[k].id # spec.id
      BY <1>2, <1>3, <2>1
    <3> QED
      BY <1>2, <1>10, <2>1, <3>1 DEF Drawn
  <2>2. CASE collected[k] = e
    BY <1>9, <1>10, <2>2
  <2> QED
    BY <1>8, <2>1, <2>2
<1>14. Drawing'
  <2>1. \A k \in DOMAIN collected : collected[k].id \in Ids
    BY <1>2, <1>6, <1>8, <1>9
  <2>2. \A k \in DOMAIN collected, j \in DOMAIN todo : collected[k].id # todo[j].id
    BY <1>7, <1>8, <1>9
  <2>3. at = "crop" => todo # << >>
    <3>1. CASE done
      BY <1>5, <3>1
    <3>2. CASE ~done
      BY <1>5, <3>2
    <3> QED
      BY <3>1, <3>2
  <2>4. Drawn(cmd.collected)'
    BY <1>11, <1>13 DEF Drawn
  <2>5. generated' = commands' /\ manifest'.by < generated'
    BY <1>2, <1>5 DEF counts
  <2> QED
    BY <1>7, <1>8, <1>11, <2>1, <2>2, <2>3, <2>4, <2>5 DEF Drawing
<1>15. Collecting' /\ Recording' /\ Passed' /\ Compared'
  BY <1>11 DEF Collecting, Recording, Passed, Compared, Does
<1>16. Filed'
  BY <1>5 DEF IInv, Filed
<1>17. Listed'
  <2>1. manifest.by \in Nat /\ generated \in Nat /\ manifest.by <= generated /\ generated <= commands
    BY <1>1 DEF IInv, Shape, Listed
  <2> QED
    BY <1>2, <1>5, <2>1 DEF Listed, counts
<1> QED
  BY <1>12, <1>14, <1>15, <1>16, <1>17 DEF IInv

LEMMA RenderKeeps ==
  ASSUME IInv, Render
  PROVE  IInv'
<1> DEFINE spec == Head(cmd.todo)
           i == Picture(spec, FALSE)
           more == Append(cmd.collected, Entry(spec, i))
<1>1. /\ cmd.what = "generate" /\ cmd.at \in {"render", "crop"} /\ cmd.todo # << >>
      /\ Draws(i, IF spec.damage THEN "crop" ELSE "render", ~spec.damage)
  BY DEF Render, Does
<1>2. i.damaged \in BOOLEAN
  BY DEF Picture
<1>3. CASE spec.damage
  <2>1. DrawsOne(i, "crop", cmd.todo, cmd.collected)
    BY <1>1, <1>2, <1>3 DEF Draws, DrawsOne
  <2> QED
    BY <1>1, <2>1, DrawsKeeps
<1>4. CASE ~spec.damage
  <2>1. DrawsOne(i, "render", Tail(cmd.todo), more)
    BY <1>1, <1>2, <1>4 DEF Draws, DrawsOne
  <2> QED
    BY <1>1, <2>1, DrawsKeeps
<1> QED
  BY <1>3, <1>4

LEMMA CropKeeps ==
  ASSUME IInv, Crop
  PROVE  IInv'
<1> DEFINE spec == Head(cmd.todo)
           i == Picture(spec, TRUE)
           more == Append(cmd.collected, Entry(spec, i))
<1>1. cmd.what = "generate" /\ cmd.at \in {"render", "crop"} /\ Draws(i, "render", TRUE)
  BY DEF Crop, Does
<1>2. cmd.todo # << >> /\ i.damaged \in BOOLEAN
  BY DEF IInv, Drawing, Idle, Crop, Does, Picture
<1>3. DrawsOne(i, "render", Tail(cmd.todo), more)
  BY <1>1, <1>2 DEF Draws, DrawsOne
<1> QED
  BY <1>1, <1>2, <1>3, DrawsKeeps

LEMMA WriteManifestKeeps ==
  ASSUME IInv, WriteManifest
  PROVE  IInv'
<1>1. /\ cmd.what = "generate" /\ ~Idle
      /\ manifest' = [ by |-> generated, whole |-> TRUE, env |-> "here", entries |-> cmd.collected ]
      /\ cmd' = Exit(0)
      /\ UNCHANGED << config, images, records, meta, counts >>
  BY DEF WriteManifest, Does, Idle
<1>2. cmd'.what = "generate" /\ cmd'.at = "exit"
  BY <1>1, Exits
<1>3. Idle'
  BY <1>2 DEF Idle
<1>4. Shape'
  BY <1>1, <1>3 DEF IInv, Shape, counts
<1>5. Collecting' /\ Recording' /\ Drawing'
  BY <1>2 DEF Collecting, Recording, Drawing, Does, Idle
<1>6. Passed' /\ Compared'
  BY <1>2 DEF Passed, Compared
<1>7. Filed'
  BY <1>1 DEF IInv, Filed
<1>8. Listed'
  <2>1. Drawn(cmd.collected) /\ generated \in Nat /\ generated <= commands
    BY <1>1 DEF IInv, Drawing, Listed, Shape
  <2> QED
    BY <1>1, <2>1 DEF Listed, Drawn, counts
<1> QED
  BY <1>3, <1>4, <1>5, <1>6, <1>7, <1>8 DEF IInv

\* The pictures of a payload set, no two of one payload
LEMMA FreshFacts ==
  ASSUME Shape, NEW seed \in Seeds
  PROVE  \A e, f \in ToSet(Fresh(seed)) : e.id = f.id => e = f
<1> DEFINE specs == Specs(config.set, seed)
           fresh == Fresh(seed)
<1>1. \A j, k \in DOMAIN specs : specs[j].id = specs[k].id => j = k
  BY SpecsFacts DEF Shape
<1>2. DOMAIN fresh = DOMAIN specs /\ \A k \in DOMAIN specs : fresh[k].id = specs[k].id
  BY DEF Fresh, Entry
<1> HIDE DEF specs, fresh
<1>3. ASSUME NEW e \in ToSet(fresh), NEW f \in ToSet(fresh), e.id = f.id
      PROVE  e = f
  <2>1. PICK j \in DOMAIN fresh : e = fresh[j]
    BY DEF ToSet
  <2>2. PICK k \in DOMAIN fresh : f = fresh[k]
    BY DEF ToSet
  <2> QED
    BY <1>1, <1>2, <1>3, <2>1, <2>2
<1> QED
  BY <1>3 DEF fresh

\* compare finds two manifests the same when their entries are
LEMMA SameLists ==
  ASSUME NEW old, NEW new, NEW env, \A e, f \in new : e.id = f.id => e = f
  PROVE  old = new <=>
           /\ { e.id : e \in old } = { e.id : e \in new }
           /\ \A e \in old, f \in new : e.id = f.id => SameEntry(e, f, env)
<1>1. ASSUME old = new
      PROVE  /\ { e.id : e \in old } = { e.id : e \in new }
             /\ \A e \in old, f \in new : e.id = f.id => SameEntry(e, f, env)
  BY <1>1 DEF SameEntry
<1>2. ASSUME { e.id : e \in old } = { e.id : e \in new },
             \A e \in old, f \in new : e.id = f.id => SameEntry(e, f, env)
      PROVE  old = new
  <2>1. \A e \in old : \E f \in new : e.id = f.id
    BY <1>2
  <2>2. \A f \in new : \E e \in old : e.id = f.id
    BY <1>2
  <2>3. \A e \in old, f \in new : e.id = f.id => e = f
    BY <1>2 DEF SameEntry
  <2> QED
    BY <2>1, <2>2, <2>3
<1> QED
  BY <1>1, <1>2

LEMMA CheckKeeps ==
  ASSUME IInv, Check
  PROVE  IInv'
<1> DEFINE old == ToSet(manifest.entries)
<1>1. PICK seed \in Seeds, env \in {"here", "elsewhere"} :
        LET new == ToSet(Fresh(seed))
            match == /\ manifest.whole
                     /\ { e.id : e \in old } = { e.id : e \in new }
                     /\ \A e \in old, f \in new : e.id = f.id => SameEntry(e, f, env)
        IN /\ Begins([ Blank EXCEPT !.what = "check", !.code = IF match THEN 0 ELSE 1,
                                   !.collected = Fresh(seed) ])
           /\ UNCHANGED generated
  BY DEF Check
<1> DEFINE fresh == Fresh(seed)
           new == ToSet(fresh)
           match == /\ manifest.whole
                    /\ { e.id : e \in old } = { e.id : e \in new }
                    /\ \A e \in old, f \in new : e.id = f.id => SameEntry(e, f, env)
           c == [ Blank EXCEPT !.what = "check", !.code = IF match THEN 0 ELSE 1, !.collected = fresh ]
<1>2. match <=> manifest.whole /\ old = new
  <2>1. \A e, f \in new : e.id = f.id => e = f
    BY FreshFacts DEF IInv
  <2> HIDE DEF new, old
  <2> QED
    BY <2>1, SameLists
<1>3. Begins(c) /\ generated' = generated
  BY <1>1
<1> HIDE DEF match, fresh
<1>4. c.what = "check" /\ c.at = "exit" /\ c.collected = fresh /\ (c.code = 0 <=> match)
  BY DEF Blank
<1> HIDE DEF c
<1>5. /\ Idle /\ disk' = disk /\ commands' = commands + 1 /\ cmd' = c /\ Filed'
      /\ manifest.by <= generated /\ generated <= commands
  BY <1>3, BeginsKeeps
<1>6. Idle'
  BY <1>4, <1>5 DEF Idle
<1>7. Shape'
  BY <1>3, <1>5, <1>6, ShapeOfBegun DEF IInv, Shape
<1>8. Collecting' /\ Recording' /\ Drawing' /\ Passed'
  BY <1>4, <1>5 DEF Collecting, Recording, Drawing, Passed, Does
<1>9. Compared'
  <2>1. manifest' = manifest
    BY <1>5 DEF disk
  <2> QED
    BY <1>2, <1>4, <1>5, <2>1 DEF Compared
<1>10. Listed'
  <2>1. manifest.by \in Nat /\ commands \in Nat /\ generated \in Nat
    BY DEF IInv, Shape
  <2> QED
    BY <1>3, <1>5, <2>1 DEF IInv, Listed, Drawn, disk
<1> QED
  BY <1>5, <1>7, <1>8, <1>9, <1>10 DEF IInv

\* A command that begins and leaves generated as it is: the manifest is as much of the last
\* generate as it was.
LEMMA ListedOfBegun ==
  ASSUME IInv, disk' = disk, commands' = commands + 1, generated' = generated
  PROVE  Listed'
<1>1. manifest.by \in Nat /\ commands \in Nat /\ generated \in Nat
  BY DEF IInv, Shape
<1> QED
  BY <1>1 DEF IInv, Listed, Drawn, disk

LEMMA ReplayFolderKeeps ==
  ASSUME IInv, ReplayFolder
  PROVE  IInv'
<1> DEFINE S == { i \in Ids : images[i] # NoImage }
           paths == Ranked(S, { ij \in Ids \X Ids : ij[1] < ij[2] })
           B(mode) == [ Blank EXCEPT !.what = "replay", !.mode = mode ]
<1>1. PICK mode \in Config.decoders :
        /\ Begins(IF paths = << >> THEN [ B(mode) EXCEPT !.code = 1 ]
                                   ELSE [ B(mode) EXCEPT !.at = "decode", !.todo = paths ])
        /\ generated' = generated
  <2> DEFINE list == [ k \in 1..Cardinality(S) |-> CHOOSE i \in S : Cardinality({ j \in S : j < i }) = k - 1 ]
  <2>1. list = paths
    <3> DEFINE before == { ij \in Ids \X Ids : ij[1] < ij[2] }
    <3>1. \A i \in S : { j \in S : j < i } = { j \in S : << j, i >> \in before }
      OBVIOUS
    <3> HIDE DEF S, before
    <3> DEFINE L(k) == CHOOSE i \in S : Cardinality({ j \in S : j < i }) = k - 1
               R(k) == CHOOSE i \in S : Cardinality({ j \in S : << j, i >> \in before }) = k - 1
    <3>2. ASSUME NEW k \in 1..Cardinality(S) PROVE L(k) = R(k)
      <4>1. \A i : (i \in S /\ Cardinality({ j \in S : j < i }) = k - 1)
                     <=> (i \in S /\ Cardinality({ j \in S : << j, i >> \in before }) = k - 1)
        BY <3>1
      <4> QED
        BY <4>1
    <3>3. list = [ k \in 1..Cardinality(S) |-> L(k) ] /\ paths = [ k \in 1..Cardinality(S) |-> R(k) ]
      BY DEF Ranked, before
    <3> HIDE DEF L, R, list, paths
    <3> QED
      BY <3>2, <3>3
  <2>2. \E mode \in Config.decoders :
          /\ Begins(IF list = << >> THEN [ B(mode) EXCEPT !.code = 1 ]
                                    ELSE [ B(mode) EXCEPT !.at = "decode", !.todo = list ])
          /\ generated' = generated
    BY DEF ReplayFolder, InOrder
  <2> HIDE DEF list, paths
  <2> QED
    BY <2>1, <2>2
<1>2. paths \in Seq(Ids) /\ Injective(paths)
  <2>1. Enumerates(paths, S)
    <3>1. S \subseteq Ids
      OBVIOUS
    <3> HIDE DEF S
    <3> QED
      BY <3>1, PathsList
  <2> HIDE DEF paths
  <2>2. paths \in Seq(S)
    BY <2>1 DEF Enumerates
  <2> QED
    BY <2>1, <2>2 DEF Enumerates
<1> HIDE DEF paths
<1>3. CASE paths = << >>
  <2> DEFINE c == [ B(mode) EXCEPT !.code = 1 ]
  <2>1. c.what = "replay" /\ c.at = "exit"
    BY DEF Blank
  <2>2. Begins(c)
    BY <1>1, <1>3
  <2> HIDE DEF c
  <2>3. Idle /\ disk' = disk /\ commands' = commands + 1 /\ cmd' = c /\ Filed'
    BY <2>2, BeginsKeeps
  <2>4. Idle'
    BY <2>1, <2>3 DEF Idle
  <2>5. Shape'
    BY <1>1, <2>3, <2>4, ShapeOfBegun DEF IInv, Shape
  <2>6. Collecting' /\ Recording' /\ Drawing' /\ Passed' /\ Compared'
    BY <2>1, <2>3 DEF Collecting, Recording, Drawing, Passed, Compared, Does
  <2> QED
    BY <1>1, <2>3, <2>5, <2>6, ListedOfBegun DEF IInv
<1>4. CASE paths # << >>
  <2> DEFINE c == [ B(mode) EXCEPT !.at = "decode", !.todo = paths ]
  <2>1. /\ c.what = "replay" /\ c.at = "decode" /\ c.todo = paths /\ c.collected = << >>
        /\ c \in [ what : {"replay"}, at : {"decode"}, code : {0}, mode : {mode},
                   todo : {paths}, collected : {<< >>} ]
        /\ c.code = 0 /\ c.mode = mode
    BY DEF Blank
  <2>2. Begins(c)
    BY <1>1, <1>4
  <2> HIDE DEF c
  <2>3. Idle /\ disk' = disk /\ commands' = commands + 1 /\ cmd' = c /\ Filed'
    BY <2>2, BeginsKeeps
  <2>4. Working'
    BY <2>1, <2>3 DEF Working
  <2>5. generated' \in Nat
    BY <1>1 DEF IInv, Shape
  <2>6. Shape'
    BY <2>1, <2>3, <2>4, <2>5, ShapeOfBegun DEF IInv
  <2>7. Collecting'
    <3>1. IsRecords(<< >>) /\ FromRun(<< >>, commands')
      BY NothingFiled
    <3> QED
      BY <1>2, <2>1, <2>3, <3>1 DEF Collecting
  <2>8. Recording' /\ Drawing' /\ Passed' /\ Compared'
    BY <2>1, <2>3 DEF Recording, Drawing, Passed, Compared, Does
  <2> QED
    BY <1>1, <2>3, <2>6, <2>7, <2>8, ListedOfBegun DEF IInv
<1> QED
  BY <1>3, <1>4

\* A command that ends, or goes on, having touched nothing on the disk
LEMMA DiskAsBefore ==
  ASSUME IInv, UNCHANGED << disk, counts >>
  PROVE  Filed' /\ Listed'
BY DEF IInv, Filed, Listed, Drawn, disk, counts

LEMMA DecodeKeeps ==
  ASSUME IInv, Decode
  PROVE  IInv'
<1> DEFINE id == Head(cmd.todo)
           i == images[id]
           record == [ run |-> commands, id |-> id, decoder |-> cmd.mode,
                       delivered |-> ~i.damaged, image |-> i ]
<1>1. /\ Does("replay", "decode") /\ cmd.todo # << >> /\ ~Idle
      /\ cmd' = IF i = Torn THEN Exit(1)
                ELSE [ cmd EXCEPT !.todo = Tail(@), !.collected = Append(@, record) ]
      /\ UNCHANGED << disk, counts >>
  BY DEF Decode, Does, Idle
<1>2. /\ cmd.todo \in Seq(Ids) /\ Injective(cmd.todo)
      /\ IsRecords(cmd.collected) /\ FromRun(cmd.collected, commands)
      /\ \A k \in DOMAIN cmd.collected, j \in DOMAIN cmd.todo : cmd.collected[k].id # cmd.todo[j]
  BY <1>1 DEF IInv, Collecting
<1>3. Filed' /\ Listed'
  BY <1>1, DiskAsBefore
<1>4. CASE i = Torn
  <2>1. cmd' = Exit(1)
    BY <1>1, <1>4
  <2>2. cmd'.what = "replay" /\ cmd'.at = "exit"
    <3>1. cmd.what = "replay"
      BY <1>1 DEF Does
    <3> QED
      BY <2>1, <3>1, Exits
  <2>3. Shape'
    BY <1>1, <2>2 DEF IInv, Shape, Idle, disk, counts
  <2>4. Collecting' /\ Recording' /\ Drawing' /\ Passed' /\ Compared'
    BY <2>2 DEF Collecting, Recording, Drawing, Passed, Compared, Does
  <2> QED
    BY <1>3, <2>3, <2>4 DEF IInv
<1>5. CASE i # Torn
  <2> DEFINE rest == Tail(cmd.todo)
             more == Append(cmd.collected, record)
  <2>1. /\ rest \in Seq(Ids) /\ id = cmd.todo[1] /\ 1 \in DOMAIN cmd.todo
        /\ \A k \in DOMAIN rest : rest[k] = cmd.todo[k + 1] /\ k + 1 \in DOMAIN cmd.todo /\ k \in Nat /\ k # 0
    BY <1>1, <1>2, TailFacts
  <2>2. id \in Ids
    BY <1>2, <2>1
  <2>3. i.damaged \in BOOLEAN
    BY <2>2 DEF IInv, Shape
  <2>4. /\ record.delivered = ~record.image.damaged /\ record.image.damaged \in BOOLEAN
        /\ record.image # Torn /\ record.run = commands /\ record.id = id
    BY <1>5, <2>3
  <2>5. cmd' = [ cmd EXCEPT !.todo = rest, !.collected = more ]
    BY <1>1, <1>5
  <2> HIDE DEF record, id, rest
  <2>6. /\ IsRecords(more) /\ FromRun(more, commands)
        /\ DOMAIN more = 1..(Len(cmd.collected) + 1) /\ Len(cmd.collected) \in Nat
        /\ \A k \in 1..(Len(cmd.collected) + 1) :
             more[k] = IF k = Len(cmd.collected) + 1 THEN record ELSE cmd.collected[k]
    <3>1. \A k \in DOMAIN cmd.collected : cmd.collected[k].id # record.id
      BY <1>2, <2>1, <2>4
    <3> QED
      BY <1>2, <2>4, <3>1, OneMoreRecord
  <2>7. DOMAIN cmd.collected = 1..Len(cmd.collected)
    BY <1>2 DEF IsRecords
  <2> HIDE DEF more
  <2>8. \A k \in DOMAIN more, j \in DOMAIN rest : more[k].id # rest[j]
    <3> SUFFICES ASSUME NEW k \in DOMAIN more, NEW j \in DOMAIN rest
                 PROVE  more[k].id # rest[j]
      OBVIOUS
    <3>1. CASE more[k] = record
      <4>1. j + 1 # 1
        BY <2>1
      <4> QED
        BY <1>2, <2>1, <2>4, <3>1, <4>1 DEF Injective
    <3>2. CASE k \in DOMAIN cmd.collected /\ more[k] = cmd.collected[k]
      BY <1>2, <2>1, <3>2
    <3> QED
      BY <2>6, <2>7, <3>1, <3>2
  <2>9. Injective(rest)
    <3> SUFFICES ASSUME NEW j \in DOMAIN rest, NEW k \in DOMAIN rest, rest[j] = rest[k]
                 PROVE  j = k
      BY DEF Injective
    <3>1. j + 1 = k + 1
      BY <1>2, <2>1 DEF Injective
    <3> QED
      BY <2>1, <3>1
  <2>10. /\ cmd' \in [ what : {cmd'.what}, at : {cmd'.at}, code : {cmd'.code}, mode : {cmd'.mode},
                       todo : {cmd'.todo}, collected : {cmd'.collected} ]
         /\ cmd'.what = "replay" /\ cmd'.at = "decode" /\ cmd'.todo = rest /\ cmd'.collected = more
    <3>1. cmd \in [ what : {cmd.what}, at : {cmd.at}, code : {cmd.code}, mode : {cmd.mode},
                    todo : {cmd.todo}, collected : {cmd.collected} ]
      BY <1>1 DEF IInv, Shape
    <3> QED
      BY <1>1, <2>5, <3>1 DEF Does
  <2>11. Shape'
    <3>1. Working'
      BY <2>10 DEF Working
    <3> QED
      BY <1>1, <2>10, <3>1 DEF IInv, Shape, disk, counts
  <2>12. Collecting'
    <3>1. commands' = commands
      BY <1>1 DEF counts
    <3>2. cmd'.todo \in Seq(Ids) /\ Injective(cmd'.todo)
      BY <2>1, <2>9, <2>10
    <3>3. IsRecords(cmd'.collected) /\ FromRun(cmd'.collected, commands')
      BY <2>6, <2>10, <3>1
    <3>4. \A k \in DOMAIN cmd'.collected, j \in DOMAIN cmd'.todo : cmd'.collected[k].id # cmd'.todo[j]
      BY <2>8, <2>10
    <3> QED
      BY <3>2, <3>3, <3>4 DEF Collecting
  <2>13. Recording' /\ Drawing' /\ Passed' /\ Compared'
    BY <2>10 DEF Recording, Drawing, Passed, Compared, Does
  <2> QED
    BY <1>3, <2>11, <2>12, <2>13 DEF IInv
<1> QED
  BY <1>4, <1>5

LEMMA OpenRecordsKeeps ==
  ASSUME IInv, OpenRecords
  PROVE  IInv'
<1>1. /\ cmd.what = "replay" /\ cmd.at = "decode" /\ ~Idle
      /\ UNCHANGED << config, images, manifest, meta, counts >>
  BY DEF OpenRecords, Does, Idle
<1>2. Listed' /\ commands' = commands /\ meta' = meta
  BY <1>1 DEF IInv, Listed, Drawn, counts
<1>3. CASE records = NoRecords
  <2>1. /\ records' = [ NoRecords EXCEPT !.by = commands, !.all = cmd.collected ]
        /\ cmd' = [ cmd EXCEPT !.at = "write" ]
    BY <1>3 DEF OpenRecords
  <2>2. /\ cmd' \in [ what : {cmd'.what}, at : {cmd'.at}, code : {cmd'.code}, mode : {cmd'.mode},
                      todo : {cmd'.todo}, collected : {cmd'.collected} ]
        /\ cmd'.what = "replay" /\ cmd'.at = "write" /\ cmd'.collected = cmd.collected
    <3>1. cmd \in [ what : {cmd.what}, at : {cmd.at}, code : {cmd.code}, mode : {cmd.mode},
                    todo : {cmd.todo}, collected : {cmd.collected} ]
      BY <1>1 DEF IInv, Shape
    <3> QED
      BY <1>1, <2>1, <3>1
  <2>3. /\ records' \in [ by : {records'.by}, lines : {records'.lines}, torn : {records'.torn}, all : {records'.all} ]
        /\ records'.by = commands /\ records'.lines = << >> /\ records'.all = cmd.collected
    BY <2>1 DEF NoRecords
  <2>4. Shape'
    <3>1. Working'
      BY <2>2 DEF Working
    <3> QED
      BY <1>1, <2>2, <2>3, <3>1 DEF IInv, Shape, counts
  <2>5. Recording'
    BY <1>2, <2>2, <2>3 DEF Recording
  <2>6. Filed'
    <3>1. IsRecords(cmd.collected) /\ FromRun(cmd.collected, commands)
      BY <1>1 DEF IInv, Collecting, Does
    <3>2. Len(<< >>) \in 0..Len(cmd.collected) /\ << >> = SubSeq(cmd.collected, 1, Len(<< >>))
      <4>1. cmd.collected \in Seq(ToSet(cmd.collected)) /\ Len(cmd.collected) \in Nat
        BY <3>1 DEF IsRecords
      <4> QED
        BY <4>1
    <3> QED
      BY <2>3, <3>1, <3>2 DEF Filed
  <2>7. Collecting' /\ Drawing' /\ Passed' /\ Compared'
    BY <2>2 DEF Collecting, Drawing, Passed, Compared, Does
  <2> QED
    BY <1>2, <2>4, <2>5, <2>6, <2>7 DEF IInv
<1>4. CASE records # NoRecords
  <2>1. cmd' = Exit(1) /\ records' = records
    BY <1>4 DEF OpenRecords
  <2>2. cmd'.what = "replay" /\ cmd'.at = "exit"
    BY <1>1, <2>1, Exits
  <2>3. Shape'
    BY <1>1, <2>1, <2>2 DEF IInv, Shape, Idle, counts
  <2>4. Collecting' /\ Recording' /\ Drawing' /\ Passed' /\ Compared'
    BY <2>2 DEF Collecting, Recording, Drawing, Passed, Compared, Does
  <2>5. Filed'
    BY <1>2, <2>1 DEF IInv, Filed
  <2> QED
    BY <1>2, <2>3, <2>4, <2>5 DEF IInv
<1> QED
  BY <1>3, <1>4

\* The records file grows by the next record that was collected.
LEMMA NextLine ==
  ASSUME NEW all, IsRecords(all), NEW lines, Len(lines) \in 0..Len(all),
         lines = SubSeq(all, 1, Len(lines)), Len(lines) < Len(all)
  PROVE  LET more == Append(lines, all[Len(lines) + 1])
         IN Len(more) \in 0..Len(all) /\ more = SubSeq(all, 1, Len(more))
<1> DEFINE n == Len(lines)
           more == Append(lines, all[n + 1])
<1>1. all \in Seq(ToSet(all)) /\ Len(all) \in Nat
  BY DEF IsRecords
<1>2. n \in Nat /\ n + 1 <= Len(all)
  BY <1>1
<1>3. n = Len(lines)
  OBVIOUS
<1> HIDE DEF n
<1>4. SubSeq(all, 1, n) \in Seq(ToSet(all)) /\ Len(SubSeq(all, 1, n)) = n
      /\ \A k \in 1..n : SubSeq(all, 1, n)[k] = all[k]
  BY <1>1, <1>2
<1>5. lines \in Seq(ToSet(all)) /\ \A k \in 1..n : lines[k] = all[k]
  BY <1>3, <1>4
<1>6. all[n + 1] \in ToSet(all)
  BY <1>1, <1>2
<1>7. /\ more \in Seq(ToSet(all)) /\ Len(more) = n + 1
      /\ \A k \in 1..n : more[k] = lines[k]
      /\ more[n + 1] = all[n + 1]
  BY <1>3, <1>5, <1>6, AppendProperties
<1>8. /\ SubSeq(all, 1, n + 1) \in Seq(ToSet(all)) /\ Len(SubSeq(all, 1, n + 1)) = n + 1
      /\ \A k \in 1..(n + 1) : SubSeq(all, 1, n + 1)[k] = all[k]
  BY <1>1, <1>2
<1> HIDE DEF more
<1>9. \A k \in 1..(n + 1) : more[k] = all[k]
  BY <1>2, <1>5, <1>7
<1>10. more = SubSeq(all, 1, n + 1)
  BY <1>2, <1>7, <1>8, <1>9, SeqEqual
<1> QED
  BY <1>1, <1>2, <1>7, <1>10 DEF n, more

LEMMA WriteRecordKeeps ==
  ASSUME IInv, WriteRecord
  PROVE  IInv'
<1> DEFINE n == Len(records.lines)
           line == cmd.collected[n + 1]
<1>1. /\ cmd.what = "replay" /\ cmd.at = "write" /\ n < Len(cmd.collected)
      /\ records' = [ records EXCEPT !.lines = Append(@, line) ]
      /\ UNCHANGED << config, images, manifest, meta, cmd, counts >>
  BY DEF WriteRecord, Does
<1>2. records.by = commands /\ records.all = cmd.collected
  BY <1>1 DEF IInv, Recording, Does
<1>3. /\ records' \in [ by : {records'.by}, lines : {records'.lines}, torn : {records'.torn}, all : {records'.all} ]
      /\ records'.by = records.by /\ records'.all = records.all /\ records'.lines = Append(records.lines, line)
  <2>1. records \in [ by : {records.by}, lines : {records.lines}, torn : {records.torn}, all : {records.all} ]
    BY DEF IInv, Shape
  <2> HIDE DEF line
  <2> QED
    BY <1>1, <2>1
<1>4. IsRecords(records.all) /\ FromRun(records.all, records.by)
      /\ Len(records.lines) \in 0..Len(records.all)
      /\ records.lines = SubSeq(records.all, 1, Len(records.lines))
  BY DEF IInv, Filed
<1>5. Len(records'.lines) \in 0..Len(records'.all)
      /\ records'.lines = SubSeq(records'.all, 1, Len(records'.lines))
  <2>1. n < Len(records.all) /\ line = records.all[n + 1]
    BY <1>1, <1>2
  <2>2. LET more == Append(records.lines, records.all[n + 1])
        IN Len(more) \in 0..Len(records.all) /\ more = SubSeq(records.all, 1, Len(more))
    BY <1>4, <2>1, NextLine
  <2> HIDE DEF line
  <2> QED
    BY <1>3, <2>1, <2>2
<1>6. Filed'
  BY <1>1, <1>2, <1>3, <1>4, <1>5 DEF Filed
<1>7. Recording'
  BY <1>1, <1>2, <1>3 DEF Recording, counts
<1>8. Shape'
  BY <1>1, <1>3 DEF IInv, Shape, counts, Idle, Working
<1>9. Collecting' /\ Drawing' /\ Passed' /\ Compared'
  BY <1>1 DEF Collecting, Drawing, Passed, Compared, Does
<1>10. Listed'
  BY <1>1 DEF IInv, Listed, Drawn, counts
<1> QED
  BY <1>6, <1>7, <1>8, <1>9, <1>10 DEF IInv

LEMMA WriteMetaKeeps ==
  ASSUME IInv, WriteMeta
  PROVE  IInv'
<1>1. /\ cmd.what = "replay" /\ cmd.at = "write" /\ ~Idle
      /\ meta' = [ NoMeta EXCEPT !.by = commands ] /\ cmd' = Exit(0)
      /\ UNCHANGED << config, images, manifest, records, counts >>
  BY DEF WriteMeta, Does, Idle
<1>2. cmd'.what = "replay" /\ cmd'.at = "exit"
  BY <1>1, Exits
<1>3. Filed'
  BY <1>1 DEF IInv, Filed
<1>4. Shape'
  BY <1>1, <1>2 DEF IInv, Shape, Idle, counts
<1>5. Collecting' /\ Recording' /\ Drawing' /\ Passed' /\ Compared'
  BY <1>2 DEF Collecting, Recording, Drawing, Passed, Compared, Does
<1>6. Listed'
  BY <1>1 DEF IInv, Listed, Drawn, counts
<1> QED
  BY <1>3, <1>4, <1>5, <1>6 DEF IInv

LEMMA RunKeeps ==
  ASSUME IInv, Run
  PROVE  IInv'
<1>1. PICK allow \in BOOLEAN :
        LET c == Loaded(allow)
            found == Mismatches(c.lines, c.specs)
            code == IF records = NoRecords \/ records.torn \/ meta.torn THEN 1
                    ELSE IF ~Accepts(c.lines, c.specs, Config) THEN 2
                    ELSE IF found # {} /\ ~allow THEN 3 ELSE 0
        IN Begins([ c EXCEPT !.code = code ]) /\ UNCHANGED generated
  BY DEF Run, ExitCode
<1> DEFINE c == Loaded(allow)
           found == Mismatches(c.lines, c.specs)
           code == IF records = NoRecords \/ records.torn \/ meta.torn THEN 1
                   ELSE IF ~Accepts(c.lines, c.specs, Config) THEN 2
                   ELSE IF found # {} /\ ~allow THEN 3 ELSE 0
           d == [ c EXCEPT !.code = code ]
<1>2. Begins(d) /\ generated' = generated
  BY <1>1
<1>3. /\ c.what = "run" /\ c.at = "exit" /\ c.lines = records.lines
      /\ c.specs = Specs(config.set, config.seed) /\ c.meta = meta
  BY DEF Loaded
<1>4. /\ code \in {0, 3} => Accepts(c.lines, c.specs, Config)
      /\ code = 0 /\ ~allow => found = {}
  OBVIOUS
<1> HIDE DEF found, code
<1>5. /\ d.what = "run" /\ d.at = "exit" /\ d.lines = c.lines /\ d.specs = c.specs /\ d.meta = c.meta
      /\ d.code = code
  BY DEF Loaded
<1>6. d.allow = allow
  BY DEF Loaded
<1>7. IsRecords(records.lines) /\ FromRun(records.lines, records.by)
  BY BeginningFacts DEF IInv, Filed
<1>8. \E v \in DOMAIN Sets, seed \in Seeds : c.specs = Specs(v, seed)
  BY <1>3 DEF IInv, Shape
<1>9. found = Mismatches(c.lines, c.specs)
  BY DEF found
<1> HIDE DEF c, d
<1>10. Idle /\ disk' = disk /\ commands' = commands + 1 /\ cmd' = d /\ Filed'
  BY <1>2, BeginsKeeps
<1>11. Idle'
  BY <1>5, <1>10 DEF Idle
<1>12. Shape'
  BY <1>2, <1>10, <1>11, ShapeOfBegun DEF IInv, Shape
<1>13. Collecting' /\ Recording' /\ Drawing' /\ Compared'
  BY <1>5, <1>10 DEF Collecting, Recording, Drawing, Compared, Does
<1>14. Passed'
  <2>1. IsRecords(cmd'.lines)
    BY <1>3, <1>5, <1>7, <1>10
  <2>2. cmd'.code \in {0, 3} => Accepts(cmd'.lines, cmd'.specs, Config)
    BY <1>4, <1>5, <1>10
  <2>3. cmd'.code = 0 /\ ~cmd'.allow => Mismatches(cmd'.lines, cmd'.specs) = {}
    BY <1>4, <1>5, <1>6, <1>9, <1>10
  <2>4. \E v \in DOMAIN Sets, seed \in Seeds : cmd'.specs = Specs(v, seed)
    BY <1>5, <1>8, <1>10
  <2> QED
    BY <2>1, <2>2, <2>3, <2>4 DEF Passed
<1> QED
  BY <1>2, <1>10, <1>12, <1>13, <1>14, ListedOfBegun DEF IInv

\* What is torn is not what a command before left there, and is known for it.
LEMMA KillKeeps ==
  ASSUME IInv, Kill
  PROVE  IInv'
<1>1. /\ ~Idle /\ cmd' = [ Exit(1) EXCEPT !.at = "killed" ]
      /\ Tears \/ UNCHANGED << images, manifest, records, meta >>
      /\ UNCHANGED << config, counts >>
  BY DEF Kill
<1>2. cmd'.what = cmd.what /\ cmd'.at = "killed"
  BY <1>1 DEF Exit, Blank
<1>3. Idle' /\ cmd.what \in {"generate", "replay"}
  BY <1>1, <1>2 DEF Idle, IInv, Shape, Working
<1>4. Collecting' /\ Recording' /\ Drawing' /\ Passed' /\ Compared'
  BY <1>2, <1>3 DEF Collecting, Recording, Drawing, Passed, Compared, Does, Idle
<1>5. /\ Shape /\ Filed /\ Listed /\ commands' = commands /\ generated' = generated
      /\ manifest.by \in Nat /\ generated \in Nat /\ commands # 0
  BY <1>1 DEF IInv, Shape, counts
<1>6. CASE UNCHANGED << images, manifest, records, meta >>
  <2>1. Shape'
    BY <1>1, <1>3, <1>5, <1>6 DEF Shape
  <2>2. Filed' /\ Listed'
    BY <1>5, <1>6 DEF Filed, Listed, Drawn
  <2> QED
    BY <1>4, <2>1, <2>2 DEF IInv
<1>7. CASE /\ cmd.what = "generate" /\ cmd.todo # << >>
           /\ images' = [ images EXCEPT ![Head(cmd.todo).id] = Torn ]
           /\ UNCHANGED << manifest, records, meta >>
  <2>1. images' = [ i \in Ids |-> images'[i] ] /\ \A i \in Ids : images'[i].damaged \in BOOLEAN
    BY <1>5, <1>7 DEF Shape, Torn
  <2>2. Shape'
    BY <1>1, <1>3, <1>5, <1>7, <2>1 DEF Shape
  <2>3. manifest.by < generated
    BY <1>1, <1>7 DEF IInv, Drawing
  <2>4. Filed' /\ Listed'
    BY <1>5, <1>7, <2>3 DEF Filed, Listed
  <2> QED
    BY <1>4, <2>2, <2>4 DEF IInv
<1>8. CASE /\ manifest' = [ manifest EXCEPT !.whole = FALSE ]
           /\ UNCHANGED << images, records, meta >>
  <2>1. /\ manifest' \in [ by : Nat, whole : BOOLEAN, env : {manifest'.env}, entries : {manifest'.entries} ]
        /\ manifest'.by = manifest.by /\ manifest'.whole = FALSE
    BY <1>5, <1>8 DEF Shape
  <2>2. Shape'
    BY <1>1, <1>3, <1>5, <1>8, <2>1 DEF Shape
  <2>3. Filed' /\ Listed'
    BY <1>5, <1>8, <2>1 DEF Filed, Listed
  <2> QED
    BY <1>4, <2>2, <2>3 DEF IInv
<1>9. CASE /\ records' = [ records EXCEPT !.torn = TRUE ]
           /\ Does("replay", "write") /\ UNCHANGED << images, manifest, meta >>
  <2>1. /\ records' \in [ by : {records'.by}, lines : {records'.lines}, torn : {records'.torn}, all : {records'.all} ]
        /\ records'.by = records.by /\ records'.lines = records.lines /\ records'.all = records.all
    BY <1>5, <1>9 DEF Shape
  <2>2. Shape'
    BY <1>1, <1>3, <1>5, <1>9, <2>1 DEF Shape
  <2>3. Filed' /\ Listed'
    BY <1>5, <1>9, <2>1 DEF Filed, Listed, Drawn
  <2> QED
    BY <1>4, <2>2, <2>3 DEF IInv
<1>10. CASE /\ meta' = [ by |-> commands, torn |-> TRUE ]
            /\ Does("replay", "write") /\ UNCHANGED << images, manifest, records >>
  <2>1. Shape'
    BY <1>1, <1>3, <1>5, <1>10 DEF Shape
  <2>2. Filed' /\ Listed'
    BY <1>5, <1>10 DEF Filed, Listed, Drawn
  <2> QED
    BY <1>4, <2>1, <2>2 DEF IInv
<1> QED
  BY <1>1, <1>6, <1>7, <1>8, <1>9, <1>10 DEF Tears

LEMMA EditKeeps ==
  ASSUME IInv, Edit
  PROVE  IInv'
<1>1. /\ Idle /\ config' \in [ set : DOMAIN Sets, seed : Seeds ]
      /\ UNCHANGED << images, manifest, records, meta, cmd, generated, commands >>
  BY DEF Edit
<1>2. Shape' /\ Idle'
  BY <1>1 DEF IInv, Shape, Idle, Working
<1>3. Collecting' /\ Recording' /\ Drawing'
  BY <1>2 DEF Idle, Does, Collecting, Recording, Drawing
<1>4. Passed' /\ Compared' /\ Filed' /\ Listed'
  BY <1>1 DEF IInv, Passed, Compared, Filed, Listed, Drawn
<1> QED
  BY <1>2, <1>3, <1>4 DEF IInv

LEMMA RemoveRecordsKeeps ==
  ASSUME IInv, RemoveRecords
  PROVE  IInv'
<1>1. /\ Idle /\ records' = NoRecords
      /\ UNCHANGED << config, images, manifest, cmd, generated, commands >>
  BY DEF RemoveRecords
<1>2. Shape' /\ Idle'
  <2>1. records' \in [ by : {records'.by}, lines : {records'.lines}, torn : {records'.torn}, all : {records'.all} ]
    BY <1>1 DEF NoRecords
  <2> QED
    BY <1>1, <2>1 DEF IInv, Shape, Idle, Working
<1>3. Collecting' /\ Recording' /\ Drawing'
  BY <1>2 DEF Idle, Does, Collecting, Recording, Drawing
<1>4. Passed' /\ Compared' /\ Listed'
  BY <1>1 DEF IInv, Passed, Compared, Listed, Drawn
<1>5. Filed'
  BY <1>1, NothingFiled DEF Filed
<1> QED
  BY <1>2, <1>3, <1>4, <1>5 DEF IInv

LEMMA NextKeeps ==
  ASSUME IInv, [Next]_vars
  PROVE  IInv'
<1>1. CASE UNCHANGED vars
  BY <1>1 DEF IInv, vars, disk, counts, Shape, Idle, Working, Collecting, Recording, Filed, Passed,
              Drawing, Listed, Compared, Drawn, Does
<1>2. CASE Generate
  BY <1>2, GenerateKeeps
<1>3. CASE Render
  BY <1>3, RenderKeeps
<1>4. CASE Crop
  BY <1>4, CropKeeps
<1>5. CASE WriteManifest
  BY <1>5, WriteManifestKeeps
<1>6. CASE Check
  BY <1>6, CheckKeeps
<1>7. CASE ReplayFolder
  BY <1>7, ReplayFolderKeeps
<1>8. CASE Decode
  BY <1>8, DecodeKeeps
<1>9. CASE OpenRecords
  BY <1>9, OpenRecordsKeeps
<1>10. CASE WriteRecord
  BY <1>10, WriteRecordKeeps
<1>11. CASE WriteMeta
  BY <1>11, WriteMetaKeeps
<1>12. CASE Run
  BY <1>12, RunKeeps
<1>13. CASE Kill
  BY <1>13, KillKeeps
<1>14. CASE Edit
  BY <1>14, EditKeeps
<1>15. CASE RemoveRecords
  BY <1>15, RemoveRecordsKeeps
<1> QED
  BY <1>1, <1>2, <1>3, <1>4, <1>5, <1>6, <1>7, <1>8, <1>9, <1>10, <1>11, <1>12, <1>13, <1>14, <1>15
     DEF Next

LEMMA AlwaysIInv == Spec => []IInv
<1>1. Init => IInv
  BY InitIInv
<1>2. IInv /\ [Next]_vars => IInv'
  BY NextKeeps
<1> QED
  BY <1>1, <1>2, PTL DEF Spec

-----------------------------------------------------------------------------
(***************************************************************************)
(* What a run makes of the records it reads.                               *)
(***************************************************************************)
\* The record of a payload is the only one of that payload.
LEMMA RecordOfIsIt ==
  ASSUME NEW lines, IsRecords(lines), NEW r \in ToSet(lines)
  PROVE  RecordOf(lines, r.id) = r
<1>1. \A q \in ToSet(lines) : q.id = r.id => q = r
  BY DEF IsRecords, ToSet
<1> DEFINE q == CHOOSE x \in ToSet(lines) : x.id = r.id
<1>2. q \in ToSet(lines) /\ q.id = r.id
  OBVIOUS
<1>3. RecordOf(lines, r.id) = q
  BY DEF RecordOf
<1> HIDE DEF q
<1> QED
  BY <1>1, <1>2, <1>3

\* Each payload that a run judges has its record, and it met the expectation of its
\* spec if there is no mismatch.
LEMMA JudgedRecord ==
  ASSUME NEW lines, NEW specs, IsRecords(lines), Accepts(lines, specs, Config),
         NEW s \in Applicable(specs, lines[1].decoder)
  PROVE  /\ s \in ToSet(specs)
         /\ RecordOf(lines, s.id) \in ToSet(lines) /\ RecordOf(lines, s.id).id = s.id
         /\ Mismatches(lines, specs) = {} => s.expect = RecordOf(lines, s.id).delivered
<1>1. PICK r \in ToSet(lines) : r.id = s.id
  BY DEF Accepts
<1>2. RecordOf(lines, r.id) = r
  BY RecordOfIsIt
<1>3. s \in ToSet(specs)
  BY DEF Applicable
<1>4. ASSUME s.expect # RecordOf(lines, s.id).delivered
      PROVE  s.id \in Mismatches(lines, specs)
  BY <1>4 DEF Mismatches
<1> QED
  BY <1>1, <1>2, <1>3, <1>4

\* A run that ends well, not told to go on, has judged no payload by an image that was
\* left undamaged, or damaged, against its spec, wherever the commands before it were
\* killed (render_spec, attacks/render.py; plan_work, run_experiments.py).
THEOREM DamageNoticed == Spec => []DamageIsNoticed
<1>1. IInv => DamageIsNoticed
  <2> SUFFICES ASSUME IInv, Ran({0}), ~cmd.allow, NEW s \in JudgedSpecs
               PROVE  LET image == RecordOf(cmd.lines, s.id).image
                      IN image # Torn /\ (image.shows = s.text => image.damaged = s.damage)
    BY DEF DamageIsNoticed
  <2> DEFINE r == RecordOf(cmd.lines, s.id)
  <2>1. /\ IsRecords(cmd.lines) /\ Accepts(cmd.lines, cmd.specs, Config)
        /\ Mismatches(cmd.lines, cmd.specs) = {}
        /\ \E v \in DOMAIN Sets, seed \in Seeds : cmd.specs = Specs(v, seed)
    BY DEF IInv, Passed, Ran
  <2>2. s \in Applicable(cmd.specs, cmd.lines[1].decoder)
    BY DEF JudgedSpecs
  <2>3. s \in ToSet(cmd.specs) /\ r \in ToSet(cmd.lines) /\ s.expect = r.delivered
    BY <2>1, <2>2, JudgedRecord
  <2> HIDE DEF r
  <2>4. r.delivered = ~r.image.damaged /\ r.image.damaged \in BOOLEAN /\ r.image # Torn
    BY <2>1, <2>3 DEF IsRecords, ToSet
  <2>5. s.expect = ~s.damage /\ s.damage \in BOOLEAN
    <3>1. PICK v \in DOMAIN Sets, seed \in Seeds : cmd.specs = Specs(v, seed)
      BY <2>1
    <3>2. PICK k \in DOMAIN Specs(v, seed) : s = Specs(v, seed)[k]
      BY <2>3, <3>1 DEF ToSet
    <3> QED
      BY <3>2, SpecsFacts
  <2>6. r.image.damaged = s.damage
    BY <2>3, <2>4, <2>5
  <2> QED
    BY <2>4, <2>6 DEF r
<1> QED
  BY <1>1, AlwaysIInv, PTL

\* A records file that its replay did not finish gives the run the whole file would
\* have given, or none (plan_work, run_experiments.py:62).
THEOREM CutFileIsAsGood == Spec => []CutFileGivesTheSameRun
<1>1. IInv => CutFileGivesTheSameRun
  <2> DEFINE lines == cmd.lines
             specs == cmd.specs
             all == records.all
  <2> SUFFICES ASSUME IInv, Ran({0, 3}), records.lines = lines
               PROVE  /\ Matrix(lines, specs, Config) = Matrix(all, specs, Config)
                      /\ \A s \in JudgedSpecs : \E r \in ToSet(lines) : r.id = s.id /\ r = RecordOf(all, s.id)
                      /\ Mismatches(lines, specs) = Mismatches(all, specs)
    BY DEF CutFileGivesTheSameRun
  <2>1. IsRecords(lines) /\ Accepts(lines, specs, Config)
    BY DEF IInv, Passed, Ran
  <2>2. IsRecords(all) /\ DOMAIN lines \subseteq DOMAIN all /\ \A k \in DOMAIN lines : lines[k] = all[k]
    BY BeginningFacts DEF IInv, Filed
  <2>3. lines[1] = all[1]
    <3>1. lines \in Seq(ToSet(lines)) /\ lines # << >>
      BY <2>1 DEF IsRecords, Accepts
    <3>2. 1 \in DOMAIN lines
      BY <3>1
    <3> QED
      BY <2>2, <3>2
  <2> DEFINE judged == Applicable(specs, all[1].decoder)
  <2>4. JudgedSpecs = judged /\ Applicable(specs, lines[1].decoder) = judged
    BY <2>3 DEF JudgedSpecs
  <2> HIDE DEF lines, specs, all
  <2>5. ASSUME NEW s \in judged
        PROVE  /\ RecordOf(lines, s.id) \in ToSet(lines) /\ RecordOf(lines, s.id).id = s.id
               /\ RecordOf(lines, s.id) = RecordOf(all, s.id)
    <3> DEFINE r == RecordOf(lines, s.id)
    <3>1. s \in Applicable(specs, lines[1].decoder)
      BY <2>4
    <3>2. r \in ToSet(lines) /\ r.id = s.id
      BY <2>1, <3>1, JudgedRecord
    <3> HIDE DEF r
    <3>3. r \in ToSet(all)
      BY <2>2, <3>2 DEF ToSet
    <3>4. RecordOf(all, r.id) = r
      BY <2>2, <3>3, RecordOfIsIt
    <3> QED
      BY <3>2, <3>4 DEF r
  <2>6. Matrix(lines, specs, Config) = Matrix(all, specs, Config)
    BY <2>4 DEF Matrix
  <2>7. Mismatches(lines, specs) = Mismatches(all, specs)
    <3>1. Mismatches(lines, specs) =
            { s.id : s \in { t \in judged : t.expect # RecordOf(lines, t.id).delivered } }
      BY <2>4 DEF Mismatches
    <3>2. Mismatches(all, specs) =
            { s.id : s \in { t \in judged : t.expect # RecordOf(all, t.id).delivered } }
      BY DEF Mismatches
    <3> HIDE DEF judged
    <3>3. { t \in judged : t.expect # RecordOf(lines, t.id).delivered }
            = { t \in judged : t.expect # RecordOf(all, t.id).delivered }
      BY <2>5
    <3> QED
      BY <3>1, <3>2, <3>3
  <2> QED
    BY <2>4, <2>5, <2>6, <2>7
<1> QED
  BY <1>1, AlwaysIInv, PTL

\* --check says MATCH exactly when the manifest is of the pictures the payload set and
\* the seed now give, and then the folder holds them, if no generate was cut off since
\* (compare, attacks/manifest.py; main, attacks/generate.py).
THEOREM CheckIsRight == Spec => []CheckTells
<1>1. IInv => CheckTells
  <2> SUFFICES ASSUME IInv, cmd.what = "check"
               PROVE  /\ cmd.code = 0 <=> manifest.whole /\ ToSet(manifest.entries) = ToSet(cmd.collected)
                      /\ cmd.code = 0 /\ manifest.by = generated =>
                           \A e \in ToSet(cmd.collected) : images[e.id] = e.pixels
    BY DEF CheckTells
  <2>1. cmd.code = 0 <=> manifest.whole /\ ToSet(manifest.entries) = ToSet(cmd.collected)
    BY DEF IInv, Compared
  <2>2. ASSUME cmd.code = 0, manifest.by = generated, NEW e \in ToSet(cmd.collected)
        PROVE  images[e.id] = e.pixels
    <3>1. manifest.whole /\ e \in ToSet(manifest.entries)
      BY <2>1, <2>2
    <3>2. PICK k \in DOMAIN manifest.entries : e = manifest.entries[k]
      BY <3>1 DEF ToSet
    <3> QED
      BY <2>2, <3>1, <3>2 DEF IInv, Listed, Drawn
  <2> QED
    BY <2>1, <2>2
<1> QED
  BY <1>1, AlwaysIInv, PTL

-----------------------------------------------------------------------------
(***************************************************************************)
(* The metadata.                                                           *)
(***************************************************************************)
\* The metadata are of a replay that has ended, or was killed when its records were all
\* in the file; a replay under way, and a records file, are of no earlier one.
Dated ==
  /\ meta.by \in Nat /\ meta.by <= commands
  /\ cmd.what = "replay" /\ ~Idle => meta.by < commands
  /\ records # NoRecords =>
       meta.by <= records.by /\ (meta.by = records.by => records.lines = records.all)

\* What a run has read, of a records file that may have been removed since
Carried ==
  cmd.what = "run" =>
    /\ \A k \in DOMAIN cmd.lines : cmd.meta.by <= cmd.lines[k].run
    /\ records # NoRecords => cmd.lines = records.lines /\ cmd.meta = meta

\* Steps that leave records and metadata as they are
LEMMA NothingWritten ==
  ASSUME IInv, Dated, records' = records, meta' = meta, cmd'.what # "run",
         \/ commands' = commands + 1
         \/ commands' = commands /\ (cmd'.what = "replay" /\ ~Idle' => cmd.what = "replay" /\ ~Idle)
  PROVE  Dated' /\ Carried'
<1>1. commands \in Nat
  BY DEF IInv, Shape
<1> QED
  BY <1>1 DEF Dated, Carried

LEMMA OthersKeepMeta ==
  ASSUME IInv, Dated, \/ Generate \/ Render \/ Crop \/ WriteManifest \/ Check
                     \/ ReplayFolder \/ Decode
  PROVE  Dated' /\ Carried'
<1>1. CASE Generate \/ Check \/ ReplayFolder
  <2>1. disk' = disk /\ commands' = commands + 1 /\ cmd'.what \in {"generate", "check", "replay"}
    <3>1. CASE Generate
      <4>1. PICK seed : Begins([ Blank EXCEPT !.what = "generate", !.at = "render",
                                              !.todo = Specs(config.set, seed) ])
        BY <3>1 DEF Generate
      <4> QED
        BY <4>1 DEF Begins, Blank
    <3>2. CASE Check
      <4>1. PICK code, seed : Begins([ Blank EXCEPT !.what = "check", !.code = code,
                                                    !.collected = Fresh(seed) ])
        BY <3>2 DEF Check
      <4> QED
        BY <4>1 DEF Begins, Blank
    <3>3. CASE ReplayFolder
      <4> DEFINE c(mode) == [ Blank EXCEPT !.what = "replay", !.mode = mode ]
      <4>1. PICK mode, paths :
              Begins(IF paths = << >> THEN [ c(mode) EXCEPT !.code = 1 ]
                                      ELSE [ c(mode) EXCEPT !.at = "decode", !.todo = paths ])
        BY <3>3 DEF ReplayFolder
      <4>2. CASE paths = << >>
        BY <4>1, <4>2 DEF Begins, Blank
      <4>3. CASE paths # << >>
        BY <4>1, <4>3 DEF Begins, Blank
      <4> QED
        BY <4>2, <4>3
    <3> QED
      BY <1>1, <3>1, <3>2, <3>3
  <2> QED
    BY <2>1, NothingWritten DEF disk
<1>2. CASE Render \/ Crop \/ WriteManifest
  <2>1. cmd.what = "generate" /\ ~Idle
    BY <1>2 DEF Render, Crop, WriteManifest, Does, Idle
  <2>2. cmd \in [ what : {cmd.what}, at : {cmd.at}, code : {cmd.code}, mode : {cmd.mode},
                  todo : {cmd.todo}, collected : {cmd.collected} ]
    BY <2>1 DEF IInv, Shape
  <2>3. records' = records /\ meta' = meta /\ commands' = commands
    BY <1>2 DEF Render, Crop, WriteManifest, Draws, counts
  <2>4. cmd'.what = "generate"
    <3>1. CASE Render
      BY <2>1, <2>2, <3>1 DEF Render, Draws
    <3>2. CASE Crop
      BY <2>1, <2>2, <3>2 DEF Crop, Draws
    <3>3. CASE WriteManifest
      BY <2>1, <3>3, Exits DEF WriteManifest
    <3> QED
      BY <1>2, <3>1, <3>2, <3>3
  <2> QED
    BY <2>3, <2>4, NothingWritten
<1>3. CASE Decode
  <2>1. cmd.what = "replay" /\ ~Idle /\ records' = records /\ meta' = meta /\ commands' = commands
    BY <1>3 DEF Decode, Does, Idle, disk, counts
  <2>2. cmd \in [ what : {cmd.what}, at : {cmd.at}, code : {cmd.code}, mode : {cmd.mode},
                  todo : {cmd.todo}, collected : {cmd.collected} ]
    BY <2>1 DEF IInv, Shape
  <2>3. PICK todo, collected : cmd' = Exit(1) \/ cmd' = [ cmd EXCEPT !.todo = todo, !.collected = collected ]
    BY <1>3 DEF Decode
  <2>4. cmd'.what = "replay"
    BY <2>1, <2>2, <2>3, Exits
  <2> QED
    BY <2>1, <2>4, NothingWritten
<1> QED
  BY <1>1, <1>2, <1>3

\* A replay that is writing its records, or is done with them
LEMMA OfThisReplay ==
  ASSUME IInv, Does("replay", "write")
  PROVE  /\ records.by = commands /\ commands \in Nat /\ records # NoRecords
         /\ Len(records.lines) = Len(cmd.collected) => records.lines = records.all
<1>1. /\ records.by = commands /\ records.all = cmd.collected
      /\ commands \in Nat /\ commands # 0
  BY DEF IInv, Recording, Shape, Does, Idle
<1>2. records # NoRecords
  BY <1>1, NothingFiled
<1>3. ASSUME Len(records.lines) = Len(cmd.collected) PROVE records.lines = records.all
  <2>1. records.all \in Seq(ToSet(records.all)) /\ records.lines = SubSeq(records.all, 1, Len(records.all))
    BY <1>1, <1>3 DEF IInv, Filed, IsRecords
  <2> QED
    BY <2>1, SubSeqFull
<1> QED
  BY <1>1, <1>2, <1>3

LEMMA ReplayKeepsMeta ==
  ASSUME IInv, Dated, OpenRecords \/ WriteRecord \/ WriteMeta
  PROVE  Dated' /\ Carried'
<1>1. cmd.what = "replay" /\ ~Idle /\ commands' = commands /\ commands \in Nat /\ meta.by \in Nat
  BY DEF OpenRecords, WriteRecord, WriteMeta, Does, Idle, counts, IInv, Shape, Dated
<1>2. cmd \in [ what : {cmd.what}, at : {cmd.at}, code : {cmd.code}, mode : {cmd.mode},
                todo : {cmd.todo}, collected : {cmd.collected} ]
  BY <1>1 DEF IInv, Shape
<1>3. meta.by < commands
  BY <1>1 DEF Dated
<1>4. CASE OpenRecords
  <2>1. meta' = meta
    BY <1>4 DEF OpenRecords
  <2>2. CASE records = NoRecords
    <3>1. records'.by = commands /\ cmd' = [ cmd EXCEPT !.at = "write" ]
      BY <1>4, <2>2 DEF OpenRecords, NoRecords
    <3>2. cmd'.what = "replay"
      BY <1>1, <1>2, <3>1
    <3> QED
      BY <1>1, <1>3, <2>1, <3>1, <3>2 DEF Dated, Carried
  <2>3. CASE records # NoRecords
    <3>1. records' = records /\ cmd' = Exit(1)
      BY <1>4, <2>3 DEF OpenRecords
    <3>2. cmd'.what = "replay"
      BY <1>1, <3>1, Exits
    <3> QED
      BY <1>1, <2>1, <3>1, <3>2, NothingWritten
  <2> QED
    BY <2>2, <2>3
<1>5. CASE WriteRecord
  <2>1. records.by = commands
    BY <1>5, OfThisReplay DEF WriteRecord
  <2>2. records \in [ by : {records.by}, lines : {records.lines}, torn : {records.torn}, all : {records.all} ]
    BY DEF IInv, Shape
  <2>3. meta' = meta /\ cmd' = cmd /\ records'.by = records.by
    BY <1>5, <2>2 DEF WriteRecord
  <2> QED
    BY <1>1, <1>3, <2>1, <2>3 DEF Dated, Carried
<1>6. CASE WriteMeta
  <2>1. records.by = commands /\ records.lines = records.all
    BY <1>6, OfThisReplay DEF WriteMeta
  <2>2. meta'.by = commands /\ cmd'.what = "replay" /\ cmd'.at = "exit" /\ records' = records
    BY <1>1, <1>6, Exits DEF WriteMeta, NoMeta
  <2>3. Idle'
    BY <2>2 DEF Idle
  <2> QED
    BY <1>1, <2>1, <2>2, <2>3 DEF Dated, Carried
<1> QED
  BY <1>4, <1>5, <1>6

LEMMA KillKeepsMeta ==
  ASSUME IInv, Dated, Kill
  PROVE  Dated' /\ Carried'
<1>1. /\ ~Idle /\ commands' = commands /\ commands \in Nat
      /\ cmd'.what = cmd.what /\ cmd'.at = "killed"
  BY DEF Kill, counts, IInv, Shape, Exit, Blank
<1>2. Idle' /\ cmd'.what # "run"
  BY <1>1 DEF Idle, IInv, Shape, Working
<1>3. CASE records' = records /\ meta' = meta
  BY <1>1, <1>2, <1>3, NothingWritten
<1>4. CASE Does("replay", "write") /\ records' = [ records EXCEPT !.torn = TRUE ] /\ meta' = meta
  <2>1. records \in [ by : {records.by}, lines : {records.lines}, torn : {records.torn}, all : {records.all} ]
    BY DEF IInv, Shape
  <2>2. records'.by = records.by /\ records.by = commands
    BY <1>4, <2>1, OfThisReplay
  <2>3. meta.by < commands
    BY <1>1, <1>4 DEF Dated, Does
  <2> QED
    BY <1>1, <1>2, <1>4, <2>2, <2>3 DEF Dated, Carried
<1>5. CASE /\ Does("replay", "write") /\ Len(records.lines) = Len(cmd.collected)
           /\ meta' = [ by |-> commands, torn |-> TRUE ] /\ records' = records
  <2>1. records.by = commands /\ records.lines = records.all /\ meta'.by = commands
    BY <1>5, OfThisReplay
  <2> QED
    BY <1>1, <1>2, <1>5, <2>1 DEF Dated, Carried
<1> QED
  BY <1>3, <1>4, <1>5 DEF Kill, Tears

LEMMA RunKeepsMeta ==
  ASSUME IInv, Dated, Run
  PROVE  Dated' /\ Carried'
<1>1. PICK allow, code : Begins([ Loaded(allow) EXCEPT !.code = code ])
  BY DEF Run, ExitCode
<1>2. /\ cmd'.what = "run" /\ cmd'.lines = records.lines /\ cmd'.meta = meta
      /\ records' = records /\ meta' = meta /\ commands' = commands + 1 /\ commands \in Nat
  BY <1>1 DEF Begins, Loaded, disk, IInv, Shape
<1>3. IsRecords(records.lines) /\ FromRun(records.lines, records.by)
  BY BeginningFacts DEF IInv, Filed
<1>4. records = NoRecords => records.lines = << >>
  BY NothingFiled
<1>5. \A k \in DOMAIN records.lines : meta.by <= records.lines[k].run
  BY <1>3, <1>4 DEF Dated, FromRun
<1> QED
  BY <1>2, <1>5 DEF Dated, Carried

LEMMA MetaKept ==
  ASSUME IInv, Dated, Carried, [Next]_vars
  PROVE  Dated' /\ Carried'
<1>1. CASE Edit \/ UNCHANGED vars
  BY <1>1 DEF Edit, vars, disk, counts, Dated, Carried, Idle
<1>2. CASE RemoveRecords
  <2>1. /\ Idle /\ records' = NoRecords /\ meta' \in {NoMeta, meta} /\ cmd' = cmd /\ commands' = commands
    BY <1>2 DEF RemoveRecords
  <2>2. Idle' /\ meta'.by \in Nat /\ meta'.by <= commands'
    BY <2>1, NothingFiled DEF Idle, Dated, IInv, Shape
  <2> QED
    BY <2>1, <2>2 DEF Dated, Carried
<1> QED
  BY <1>1, <1>2, OthersKeepMeta, ReplayKeepsMeta, KillKeepsMeta, RunKeepsMeta DEF Next

\* What a run carries on of the metadata beside a records file is of the replay that made
\* its records, which then are all of them, or of one before it, whatever was removed in
\* between and wherever replays were killed (decode/capture.py:214).
THEOREM MetaLast == Spec => []MetaComeLast
<1>1. ASSUME IInv, Dated, Carried PROVE MetaComeLast
  <2> SUFFICES ASSUME cmd.what = "run", NEW r \in ToSet(cmd.lines)
               PROVE  /\ cmd.meta.by <= r.run
                      /\ cmd.meta.by = r.run /\ records.lines = cmd.lines => cmd.lines = records.all
    BY DEF MetaComeLast, Ran
  <2>1. PICK k \in DOMAIN cmd.lines : r = cmd.lines[k]
    BY DEF ToSet
  <2>2. ASSUME cmd.meta.by = r.run, records.lines = cmd.lines PROVE cmd.lines = records.all
    <3>1. records # NoRecords
      BY <2>1, <2>2, NothingFiled
    <3>2. FromRun(records.lines, records.by)
      BY <1>1, BeginningFacts DEF IInv, Filed
    <3>3. meta.by = records.by
      BY <1>1, <2>1, <2>2, <3>1, <3>2 DEF Carried, FromRun
    <3> QED
      BY <1>1, <2>2, <3>1, <3>3 DEF Dated
  <2> QED
    BY <1>1, <2>1, <2>2 DEF Carried
<1>2. Init => IInv /\ Dated /\ Carried
  <2> SUFFICES ASSUME Init PROVE IInv /\ Dated /\ Carried
    OBVIOUS
  <2>1. cmd.what = "none" /\ records = NoRecords /\ meta.by = 0 /\ commands = 0
    BY NothingFiled DEF Init, Blank
  <2> QED
    BY <2>1, InitIInv DEF Dated, Carried
<1>3. IInv /\ Dated /\ Carried /\ [Next]_vars => IInv' /\ Dated' /\ Carried'
  BY NextKeeps, MetaKept
<1> QED
  BY <1>1, <1>2, <1>3, PTL DEF Spec

=============================================================================
