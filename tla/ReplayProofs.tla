---------------------------- MODULE ReplayProofs ----------------------------
(***************************************************************************)
(* For any number of replays into one records file, any folder of images   *)
(* and any number of renderings, removals and crashes: a record is of the  *)
(* image it names, a records file only grows, and one that has metadata of *)
(* its own replay is whole.                                                *)
(*                                                                         *)
(* What a process has listed is always what it has recorded followed by    *)
(* what it has to do, and its file is a beginning of its records.          *)
(***************************************************************************)
EXTENDS Replay, TLAPS, FiniteSetTheorems

Image == Pictures \union {Torn, NoImage}
Stages == {"start", "read", "decode", "write", "meta"} \union Ended
Writing == {"write", "meta"}
Describing == {"meta"} \union Ended

Record ==
  [ run_id : Replays, payload_id : Names, decoder_mode : DecoderMode, image_sha256 : Image,
    decode_status : DecodeStatus, raw : {"none", "utf8", "not_utf8"}, text : {"none", "strict"},
    symbology : BOOLEAN ]

Process ==
  [ pc : Stages, decoder_mode : DecoderMode, listed : Seq(Names), todo : Seq(Names),
    data : Image, collected : Seq(Record) ]

\* What RecordIsOfItsImage asks of one record
IsOfItsImage(r) ==
  LET symbols == Decode(r.image_sha256, r.decoder_mode) IN
  /\ ValidRecord(r)
  /\ Delivered(r.decode_status) <=> Len(symbols) = 1
  /\ Delivered(r.decode_status) => r.raw = symbols[1]

Shape ==
  /\ folder \in [ Names -> Image ]
  /\ proc \in [ Replays -> Process ]
  /\ file \in [ by : Replays \union {Nobody}, lines : Seq(Record) ]
  /\ meta \in [ by : Replays \union {Nobody}, state : {"absent", "empty", "whole"},
                records : Nat, decoder_mode : DecoderMode ]

\* Process p, as far as it is as q
UpTo(p, q) ==
  LET n == Len(q.collected) IN
  /\ Len(q.listed) = n + Len(q.todo)
  /\ \A k \in 1..n :
       /\ q.collected[k].payload_id = q.listed[k] /\ q.collected[k].run_id = p
       /\ q.collected[k].decoder_mode = q.decoder_mode /\ IsOfItsImage(q.collected[k])
  /\ \A k \in 1..Len(q.todo) : q.todo[k] = q.listed[n + k]
  /\ q.pc = "decode" => q.todo # << >>
  /\ q.pc \in Writing => q.todo = << >>

\* The file f with the metadata m, of which q is the writer
Holds(f, m, q) ==
  LET n == Len(f.lines) IN
  /\ q.pc \in Writing \union Ended
  /\ n <= Len(q.collected) /\ \A k \in 1..n : f.lines[k] = q.collected[k]
  /\ q.pc = "meta" => n = Len(q.collected)
  /\ m.by = f.by =>
       /\ n = Len(q.collected) /\ q.todo = << >> /\ q.pc # "write"
       /\ m.state = "whole" => m.records = n /\ m.decoder_mode = q.decoder_mode

Work == \A p \in Replays : UpTo(p, proc[p])

\* A process that has not listed the folder has nothing.
Fresh == \A p \in Replays : proc[p].pc = "start" => proc[p].collected = << >>

Disk ==
  /\ \A p \in Replays : proc[p].pc \in Writing => file.by = p
  /\ file.by = Nobody => file = NoFile
  /\ file.by # Nobody => Holds(file, meta, proc[file.by])

\* Metadata, if only left behind, are of a replay that has got to writing them.
Described == \A p \in Replays : meta.by = p => proc[p].pc \in Describing

IInv == Shape /\ Work /\ Fresh /\ Disk /\ Described

-----------------------------------------------------------------------------
\* The decode policy: whatever an image shows, its record is one of it, and obeys the
\* contract.
LEMMA PolicyFacts ==
  ASSUME NEW image \in Image, NEW mode \in DecoderMode, NEW p \in Replays, NEW id \in Names
  PROVE  LET r == record_from_symbols(Decode(image, mode), p, id, mode, image) IN
         r \in Record /\ IsOfItsImage(r) /\ r.payload_id = id /\ r.run_id = p /\ r.decoder_mode = mode
<1> DEFINE symbols == Decode(image, mode)
           r == record_from_symbols(symbols, p, id, mode, image)
<1>1. \/ symbols = << >> \/ symbols = << "utf8", "utf8" >> \/ symbols = << "utf8" >>
      \/ symbols = << "not_utf8" >>
  BY DEF Decode
<1> HIDE DEF symbols
<1>2. /\ r.run_id = p /\ r.payload_id = id /\ r.decoder_mode = mode /\ r.image_sha256 = image
      /\ r.decode_status = (IF symbols = << >> THEN "no_symbol"
                            ELSE IF Len(symbols) # 1 THEN "multiple_symbols"
                            ELSE IF symbols[1] = "utf8" THEN "ok" ELSE "invalid_utf8")
      /\ r.raw = (IF Len(symbols) = 1 THEN symbols[1] ELSE "none")
      /\ r.text = (IF Len(symbols) = 1 /\ symbols[1] = "utf8" THEN "strict" ELSE "none")
      /\ r.symbology = (Len(symbols) = 1)
  BY DEF record_from_symbols
<1>3. r \in Record
  BY <1>1 DEF record_from_symbols, Record, DecodeStatus
<1> HIDE DEF r
<1>4. IsOfItsImage(r)
  <2> SUFFICES /\ ValidRecord(r)
               /\ Delivered(r.decode_status) <=> Len(symbols) = 1
               /\ Delivered(r.decode_status) => r.raw = symbols[1]
    BY <1>2 DEF IsOfItsImage, symbols
  <2>1. CASE symbols = << >>
    <3>1. Len(symbols) # 1
      BY <2>1
    <3>2. r.decode_status = "no_symbol" /\ r.raw = "none" /\ r.text = "none" /\ ~r.symbology
      BY <1>2, <2>1, <3>1
    <3> QED
      BY <3>1, <3>2 DEF ValidRecord, Delivered, DELIVERED_STATUSES, DecodeStatus
  <2>2. CASE symbols = << "utf8", "utf8" >>
    BY <1>2, <2>2 DEF ValidRecord, Delivered, DELIVERED_STATUSES, DecodeStatus
  <2>3. CASE symbols = << "utf8" >>
    BY <1>2, <2>3 DEF ValidRecord, Delivered, DELIVERED_STATUSES, DecodeStatus
  <2>4. CASE symbols = << "not_utf8" >>
    BY <1>2, <2>4 DEF ValidRecord, Delivered, DELIVERED_STATUSES, DecodeStatus
  <2> QED
    BY <1>1, <2>1, <2>2, <2>3, <2>4
<1> QED
  BY <1>2, <1>3, <1>4 DEF r, symbols

\* What going to a stage leaves of a process.
LEMMA GotoFacts ==
  ASSUME Shape, NEW p \in Replays, NEW stage \in Stages
  PROVE  LET q == Goto(p, stage) IN
         /\ q \in Process /\ q.pc = stage /\ q.decoder_mode = proc[p].decoder_mode
         /\ q.listed = proc[p].listed /\ q.todo = proc[p].todo /\ q.collected = proc[p].collected
         /\ q.data = proc[p].data
BY DEF Shape, Process, Goto

\* What a step of process p has to see to: its own records, and the file if it is its.
LEMMA StepKeeps ==
  ASSUME IInv, NEW p \in Replays, NEW q \in Process,
         proc' = [ proc EXCEPT ![p] = q ], folder' = folder,
         UpTo(p, q), q.pc # "start",
         file' \in [ by : Replays \union {Nobody}, lines : Seq(Record) ],
         meta' \in [ by : Replays \union {Nobody}, state : {"absent", "empty", "whole"},
                     records : Nat, decoder_mode : DecoderMode ],
         file'.by \in {file.by, p}, file'.by # p => UNCHANGED << file, meta >>,
         file'.by = p => file.by \in {p, Nobody} /\ Holds(file', meta', q),
         q.pc \in Writing => file'.by = p,
         meta'.by \in {meta.by, p}, meta'.by = p => q.pc \in Describing
  PROVE  IInv'
<1>1. /\ proc'[p] = q
      /\ \A r \in Replays \ {p} : proc'[r] = proc[r]
  BY DEF IInv, Shape
<1>2. Shape'
  BY DEF IInv, Shape
<1>3. Work'
  <2> SUFFICES ASSUME NEW r \in Replays PROVE UpTo(r, proc'[r])
    BY DEF Work
  <2>1. UpTo(r, proc[r])
    BY DEF IInv, Work
  <2> QED
    BY <1>1, <2>1
<1>4. Fresh' /\ p # Nobody
  BY <1>1, ReplayAssumption DEF IInv, Fresh
<1>5. Disk'
  <2>1. ASSUME NEW r \in Replays, proc'[r].pc \in Writing PROVE file'.by = r
    <3>1. CASE r = p
      BY <1>1, <2>1, <3>1
    <3>2. CASE r # p
      <4>1. file.by = r
        BY <1>1, <2>1, <3>2 DEF IInv, Disk
      <4> QED
        BY <3>2, <4>1, ReplayAssumption
    <3> QED
      BY <3>1, <3>2
  <2>2. file'.by = Nobody => file' = NoFile
    BY <1>4 DEF IInv, Disk
  <2>3. ASSUME file'.by # Nobody PROVE Holds(file', meta', proc'[file'.by])
    <3>1. CASE file'.by = p
      BY <1>1, <3>1
    <3>2. CASE file'.by # p
      <4>1. file' = file /\ meta' = meta /\ file.by \in Replays \ {p}
        BY <2>3, <3>2 DEF IInv, Shape
      <4> QED
        BY <1>1, <2>3, <4>1 DEF IInv, Disk
    <3> QED
      BY <3>1, <3>2
  <2> QED
    BY <2>1, <2>2, <2>3 DEF Disk
<1>6. Described'
  BY <1>1 DEF IInv, Described
<1> QED
  BY <1>2, <1>3, <1>4, <1>5, <1>6 DEF IInv

\* A step that only goes to a stage
LEMMA GotoKeeps ==
  ASSUME IInv, NEW p \in Replays, NEW stage \in {"read", "meta"} \union Ended,
         Becomes(p, Goto(p, stage)), proc[p].pc \notin Ended,
         stage = "read" => proc[p].pc = "read",
         stage = "meta" => proc[p].pc = "write" /\ Len(file.lines) = Len(proc[p].collected)
  PROVE  IInv'
<1> DEFINE q == Goto(p, stage)
<1>1. /\ q \in Process /\ q.pc = stage /\ q.decoder_mode = proc[p].decoder_mode
      /\ q.listed = proc[p].listed /\ q.todo = proc[p].todo /\ q.collected = proc[p].collected
  BY GotoFacts DEF IInv, Stages
<1>2. proc' = [ proc EXCEPT ![p] = q ] /\ UNCHANGED << folder, file, meta >>
  BY DEF Becomes
<1> HIDE DEF q
<1>3. UpTo(p, q)
  <2>1. UpTo(p, proc[p])
    BY DEF IInv, Work
  <2>2. q.pc = "decode" => FALSE
    BY <1>1 DEF Ended
  <2>3. q.pc \in Writing => proc[p].pc \in Writing
    BY <1>1 DEF Writing, Ended
  <2> QED
    BY <1>1, <2>1, <2>2, <2>3 DEF UpTo
<1>4. file.by = p => Holds(file, meta, q)
  BY <1>1, ReplayAssumption DEF IInv, Disk, Holds, Writing, Ended
<1>5. (q.pc \in Writing => file.by = p) /\ q.pc # "start"
  BY <1>1 DEF IInv, Disk, Writing, Ended
<1>6. meta.by = p => q.pc \in Describing
  BY <1>1 DEF IInv, Described, Describing, Ended
<1> QED
  BY <1>1, <1>2, <1>3, <1>4, <1>5, <1>6, StepKeeps DEF IInv, Shape
-----------------------------------------------------------------------------
LEMMA GlobKeeps == ASSUME IInv, NEW p \in Replays, Glob(p) PROVE IInv'
<1> DEFINE paths == { n \in Names : folder[n] # NoImage }
<1>1. proc[p].pc = "start" /\ UpTo(p, proc[p])
  BY DEF Glob, At, IInv, Work
<1>2. CASE Becomes(p, Goto(p, "raised"))
  BY <1>1, <1>2, GotoKeeps DEF Ended
<1>3. ASSUME NEW sorted \in [ 1..Cardinality(paths) -> paths ],
             Becomes(p, [ Goto(p, "read") EXCEPT !.listed = sorted, !.todo = sorted ])
      PROVE  IInv'
  <2>1. Cardinality(paths) \in Nat
    BY ReplayAssumption, FS_Subset, FS_CardinalityType
  <2>2. sorted \in Seq(Names) /\ Len(sorted) \in Nat
    <3> DEFINE C == Cardinality(paths)
    <3> HIDE DEF C
    <3>1. C \in Nat /\ sorted \in [ 1..C -> Names ]
      BY <2>1 DEF C
    <3> QED
      BY <3>1
  <2> DEFINE g == Goto(p, "read")
             q == [ g EXCEPT !.listed = sorted, !.todo = sorted ]
  <2>3. g \in Process /\ g.pc = "read" /\ g.decoder_mode = proc[p].decoder_mode
        /\ g.collected = proc[p].collected
    BY GotoFacts DEF IInv, Stages
  <2> HIDE DEF g
  <2>4. /\ q \in Process /\ q.pc = "read" /\ q.decoder_mode = proc[p].decoder_mode
        /\ q.collected = proc[p].collected /\ q.listed = sorted /\ q.todo = sorted
    BY <2>2, <2>3 DEF Process
  <2>5. proc[p].collected = << >>
    BY <1>1 DEF IInv, Fresh
  <2>6. proc' = [ proc EXCEPT ![p] = q ] /\ UNCHANGED << folder, file, meta >>
    BY <1>3 DEF Becomes, g
  <2> HIDE DEF q
  <2>7. UpTo(p, q)
    BY <2>2, <2>4, <2>5 DEF UpTo, Writing
  <2>8. file.by # p /\ q.pc \notin Writing
    BY <1>1, <2>4, ReplayAssumption DEF IInv, Disk, Holds, Writing, Ended
  <2>9. q.pc # "start" /\ meta.by # p
    BY <1>1, <2>4 DEF IInv, Described, Describing, Ended
  <2> QED
    BY <2>4, <2>6, <2>7, <2>8, <2>9, StepKeeps DEF IInv, Shape
<1> QED
  BY <1>2, <1>3 DEF Glob

LEMMA ReadImageKeeps == ASSUME IInv, NEW p \in Replays, ReadImage(p) PROVE IInv'
<1> DEFINE data == folder[Head(proc[p].todo)]
<1>1. /\ proc[p].pc = "read" /\ UpTo(p, proc[p]) /\ proc[p].todo # << >>
      /\ proc[p].todo \in Seq(Names)
  BY DEF ReadImage, At, IInv, Work, Shape, Process
<1>2. CASE Becomes(p, Goto(p, "raised"))
  BY <1>1, <1>2, GotoKeeps DEF Ended
<1>3. CASE Becomes(p, [ Goto(p, "decode") EXCEPT !.data = data ])
  <2>1. data \in Image
    BY <1>1 DEF IInv, Shape
  <2> DEFINE g == Goto(p, "decode")
             q == [ g EXCEPT !.data = data ]
  <2>2. /\ g \in Process /\ g.pc = "decode" /\ g.decoder_mode = proc[p].decoder_mode
        /\ g.collected = proc[p].collected /\ g.listed = proc[p].listed /\ g.todo = proc[p].todo
    BY GotoFacts DEF IInv, Stages
  <2> HIDE DEF g, data
  <2>3. /\ q \in Process /\ q.pc = "decode" /\ q.decoder_mode = proc[p].decoder_mode
        /\ q.collected = proc[p].collected /\ q.listed = proc[p].listed /\ q.todo = proc[p].todo
    BY <2>1, <2>2 DEF Process
  <2>4. proc' = [ proc EXCEPT ![p] = q ] /\ UNCHANGED << folder, file, meta >>
    BY <1>3 DEF Becomes, g
  <2> HIDE DEF q
  <2>5. UpTo(p, q)
    BY <1>1, <2>3 DEF UpTo, Writing
  <2>6. file.by # p /\ q.pc \notin Writing \union {"start"}
    BY <1>1, <2>3, ReplayAssumption DEF IInv, Disk, Holds, Writing, Ended
  <2>7. meta.by # p
    BY <1>1 DEF IInv, Described, Describing, Ended
  <2> QED
    BY <2>3, <2>4, <2>5, <2>6, <2>7, StepKeeps DEF IInv, Shape
<1> QED
  BY <1>2, <1>3 DEF ReadImage

\* The record is of the image that was decoded, and of the next one that was listed.
LEMMA DecodeImageKeeps == ASSUME IInv, NEW p \in Replays, DecodeImage(p) PROVE IInv'
<1> DEFINE old == proc[p]
           r == record_from_symbols(Decode(old.data, old.decoder_mode), p, Head(old.todo),
                                    old.decoder_mode, old.data)
           g == Goto(p, "read")
           q == Recorded(p, old.data)
<1>1. old.pc = "decode" /\ UpTo(p, old) /\ old \in Process
  BY DEF DecodeImage, At, IInv, Work, Shape
<1>2. /\ old.todo # << >> /\ old.todo \in Seq(Names) /\ old.collected \in Seq(Record)
      /\ old.listed \in Seq(Names) /\ old.data \in Image /\ old.decoder_mode \in DecoderMode
  BY <1>1 DEF UpTo, Process
<1>3. Head(old.todo) \in Names /\ Tail(old.todo) \in Seq(Names) /\ Len(old.todo) \in Nat \ {0}
      /\ Len(Tail(old.todo)) = Len(old.todo) - 1
      /\ \A k \in 1..(Len(old.todo) - 1) : Tail(old.todo)[k] = old.todo[k + 1]
  BY <1>2
<1>4. /\ r \in Record /\ IsOfItsImage(r) /\ r.payload_id = Head(old.todo) /\ r.run_id = p
      /\ r.decoder_mode = old.decoder_mode
  BY <1>2, <1>3, PolicyFacts
<1> HIDE DEF r
<1>5. /\ g \in Process /\ g.pc = "read" /\ g.decoder_mode = old.decoder_mode
      /\ g.collected = old.collected /\ g.listed = old.listed /\ g.todo = old.todo
  BY GotoFacts DEF IInv, Stages
<1>6. q = [ g EXCEPT !.todo = Tail(g.todo), !.collected = Append(g.collected, r), !.data = NoImage ]
  BY DEF Recorded, r
<1> HIDE DEF g, q
<1>7. /\ q \in Process /\ q.pc = "read" /\ q.decoder_mode = old.decoder_mode /\ q.listed = old.listed
      /\ q.todo = Tail(old.todo) /\ q.collected = Append(old.collected, r)
  <2>1. Append(old.collected, r) \in Seq(Record) /\ NoImage \in Image
    BY <1>2, <1>4 DEF Image
  <2> QED
    BY <1>3, <1>5, <1>6, <2>1 DEF Process
<1>8. UpTo(p, q)
  <2> DEFINE n == Len(old.collected)
             c == old.collected
  <2>1. n \in Nat /\ Len(q.collected) = n + 1 /\ q.collected[n + 1] = r
        /\ \A k \in 1..n : q.collected[k] = c[k]
    BY <1>2, <1>4, <1>7
  <2>2. Len(old.listed) = n + Len(old.todo) /\ old.todo[1] = old.listed[n + 1]
    BY <1>1, <1>3, <2>1 DEF UpTo
  <2>3. Len(q.listed) = Len(q.collected) + Len(q.todo)
    <3> HIDE DEF n
    <3>1. /\ n \in Nat /\ Len(q.collected) = n + 1 /\ Len(old.todo) \in Nat
          /\ Len(q.todo) = Len(old.todo) - 1 /\ Len(q.listed) = n + Len(old.todo)
      BY <1>3, <1>7, <2>1, <2>2
    <3>2. ASSUME NEW m \in Nat, NEW l \in Nat PROVE m + l = (m + 1) + (l - 1)
      OBVIOUS
    <3> QED
      BY <3>1, <3>2
  <2>4. ASSUME NEW k \in 1..Len(q.collected)
        PROVE  /\ q.collected[k].payload_id = q.listed[k] /\ q.collected[k].run_id = p
               /\ q.collected[k].decoder_mode = q.decoder_mode /\ IsOfItsImage(q.collected[k])
    <3>1. CASE k = n + 1
      <4>1. Head(old.todo) = old.todo[1]
        BY <1>2
      <4> QED
        BY <1>4, <1>7, <2>1, <2>2, <3>1, <4>1
    <3>2. CASE k # n + 1
      <4>1. k \in 1..n /\ q.collected[k] = c[k]
        BY <2>1, <2>4, <3>2
      <4> QED
        BY <1>1, <1>7, <4>1 DEF UpTo
    <3> QED
      BY <3>1, <3>2
  <2>5. ASSUME NEW k \in 1..Len(q.todo) PROVE q.todo[k] = q.listed[Len(q.collected) + k]
    <3>1. k \in 1..(Len(old.todo) - 1) /\ q.todo[k] = old.todo[k + 1]
      BY <1>3, <1>7, <2>5
    <3>2. k + 1 \in 1..Len(old.todo)
      BY <1>3, <3>1
    <3>3. old.todo[k + 1] = old.listed[n + (k + 1)]
      BY <1>1, <3>2 DEF UpTo
    <3>4. n + (k + 1) = Len(q.collected) + k
      <4> HIDE DEF n
      <4>1. k \in Nat /\ n \in Nat /\ Len(q.collected) = n + 1
        BY <1>3, <2>1, <3>1
      <4> QED
        BY <4>1
    <3> QED
      BY <1>7, <3>1, <3>3, <3>4
  <2> QED
    BY <1>7, <2>3, <2>4, <2>5 DEF UpTo, Writing
<1>9. proc' = [ proc EXCEPT ![p] = q ] /\ UNCHANGED << folder, file, meta >>
  BY DEF DecodeImage, Becomes, q
<1>10. file.by # p /\ q.pc \notin Writing \union {"start"}
  BY <1>1, <1>7, ReplayAssumption DEF IInv, Disk, Holds, Writing, Ended
<1>11. meta.by # p
  BY <1>1 DEF IInv, Described, Describing, Ended
<1> QED
  BY <1>7, <1>8, <1>9, <1>10, <1>11, StepKeeps DEF IInv, Shape

\* open(out, "x"): nobody's file becomes p's, with all its records still to be written.
LEMMA OpenKeeps == ASSUME IInv, NEW p \in Replays, Open(p) PROVE IInv'
<1>1. proc[p].pc = "read" /\ proc[p].todo = << >> /\ UpTo(p, proc[p])
      /\ proc[p].collected \in Seq(Record)
  BY DEF Open, At, IInv, Work, Shape, Process
<1>2. CASE file = NoFile
  <2> DEFINE q == Goto(p, "write")
             f == [ by |-> p, lines |-> << >> ]
  <2>1. Writes(p, q, f, meta)
    BY <1>2 DEF Open
  <2>2. /\ q \in Process /\ q.pc = "write" /\ q.decoder_mode = proc[p].decoder_mode
        /\ q.collected = proc[p].collected /\ q.listed = proc[p].listed /\ q.todo = proc[p].todo
    BY GotoFacts DEF IInv, Stages
  <2> HIDE DEF q
  <2>3. UpTo(p, q)
    BY <1>1, <2>2 DEF UpTo
  <2>4. meta.by # p /\ file.by = Nobody
    BY <1>1, <1>2 DEF IInv, Described, Describing, Ended, NoFile
  <2>5. f \in [ by : Replays \union {Nobody}, lines : Seq(Record) ] /\ f.by = p /\ Len(f.lines) = 0
    OBVIOUS
  <2>6. Holds(f, meta, q)
    <3>1. Len(q.collected) \in Nat
      BY <1>1, <2>2
    <3> QED
      BY <2>2, <2>4, <2>5, <3>1 DEF Holds, Writing
  <2> HIDE DEF f
  <2> QED
    BY <2>1, <2>2, <2>3, <2>4, <2>5, <2>6, StepKeeps DEF Writes, IInv, Shape
<1>3. CASE file # NoFile
  BY <1>1, <1>3, GotoKeeps DEF Open, Ended
<1> QED
  BY <1>2, <1>3

\* Who writes or describes has a file, and the next line of it is its next record.
LEMMA WriterFacts ==
  ASSUME IInv, NEW p \in Replays, proc[p].pc \in Writing
  PROVE  /\ UpTo(p, proc[p]) /\ file.by = p /\ Holds(file, meta, proc[p])
         /\ proc[p] \in Process /\ proc[p].collected \in Seq(Record) /\ file.lines \in Seq(Record)
         /\ Len(file.lines) \in Nat /\ Len(proc[p].collected) \in Nat
         /\ Unwritten(p) # << >> =>
              /\ Len(file.lines) < Len(proc[p].collected)
              /\ Head(Unwritten(p)) = proc[p].collected[Len(file.lines) + 1]
         /\ Unwritten(p) = << >> => Len(file.lines) = Len(proc[p].collected)
<1>1. /\ UpTo(p, proc[p]) /\ file.by = p /\ Holds(file, meta, proc[p])
      /\ proc[p] \in Process /\ proc[p].collected \in Seq(Record) /\ file.lines \in Seq(Record)
  BY ReplayAssumption DEF IInv, Work, Disk, Shape, Process
<1> DEFINE c == proc[p].collected
           n == Len(file.lines)
<1>2. n \in Nat /\ Len(c) \in Nat /\ n <= Len(c)
  BY <1>1 DEF Holds
<1>3. Unwritten(p) = SubSeq(c, n + 1, Len(c))
  BY DEF Unwritten
<1> HIDE DEF c, n
<1>4. c \in Seq(Record)
  BY <1>1 DEF c
<1>5. CASE n = Len(c)
  <2>1. SubSeq(c, n + 1, Len(c)) = << >>
    BY <1>2, <1>4, <1>5
  <2> QED
    BY <1>1, <1>2, <1>3, <1>5, <2>1 DEF c, n
<1>6. CASE n < Len(c)
  <2> DEFINE s == SubSeq(c, n + 1, Len(c))
  <2>1. Len(s) = Len(c) - n /\ s[1] = c[n + 1] /\ s \in Seq(Record)
    BY <1>2, <1>4, <1>6
  <2>2. Len(c) - n > 0
    BY <1>2, <1>6
  <2> HIDE DEF s
  <2>3. s # << >> /\ Head(s) = c[n + 1]
    BY <2>1, <2>2
  <2> QED
    BY <1>1, <1>2, <1>3, <1>6, <2>3 DEF c, n, s
<1> QED
  BY <1>2, <1>5, <1>6

LEMMA WriteRecordKeeps == ASSUME IInv, NEW p \in Replays, WriteRecord(p) PROVE IInv'
<1> DEFINE n == Len(file.lines)
           r == proc[p].collected[n + 1]
           f == [ file EXCEPT !.lines = Append(file.lines, r) ]
<1>1. proc[p].pc = "write" /\ Unwritten(p) # << >>
      /\ Writes(p, proc[p], [ file EXCEPT !.lines = Append(@, Head(Unwritten(p))) ], meta)
  BY DEF WriteRecord, At
<1>2. /\ UpTo(p, proc[p]) /\ file.by = p /\ Holds(file, meta, proc[p])
      /\ proc[p] \in Process /\ proc[p].collected \in Seq(Record) /\ file.lines \in Seq(Record)
      /\ n \in Nat /\ Len(proc[p].collected) \in Nat /\ n < Len(proc[p].collected)
      /\ Head(Unwritten(p)) = r
  BY <1>1, WriterFacts DEF Writing
<1>3. proc' = [ proc EXCEPT ![p] = proc[p] ] /\ file' = f /\ UNCHANGED << folder, meta >>
  BY <1>1, <1>2 DEF Writes
<1>4. r \in Record
  BY <1>2
<1>5. file = [ by |-> file.by, lines |-> file.lines ]
  BY DEF IInv, Shape
<1> HIDE DEF r
<1>6. f \in [ by : Replays \union {Nobody}, lines : Seq(Record) ] /\ f.by = p
      /\ f.lines = Append(file.lines, r)
  BY <1>2, <1>4, <1>5
<1>7. Len(f.lines) = n + 1 /\ f.lines[n + 1] = r /\ \A k \in 1..n : f.lines[k] = file.lines[k]
  BY <1>2, <1>4, <1>6
<1> HIDE DEF f, n
<1>8. meta.by # p
  BY <1>1 DEF IInv, Described, Describing, Ended
<1>9. Holds(f, meta, proc[p])
  <2>1. ASSUME NEW k \in 1..Len(f.lines) PROVE f.lines[k] = proc[p].collected[k]
    <3>1. CASE k = n + 1
      BY <1>7, <3>1 DEF r
    <3>2. CASE k # n + 1
      <4>1. k \in 1..n
        BY <1>2, <1>7, <2>1, <3>2
      <4> QED
        BY <1>2, <1>7, <4>1 DEF Holds, n
    <3> QED
      BY <3>1, <3>2
  <2>2. Len(f.lines) <= Len(proc[p].collected)
    BY <1>2, <1>7
  <2> QED
    BY <1>1, <1>6, <1>8, <2>1, <2>2 DEF Holds, Writing
<1> QED
  BY <1>1, <1>2, <1>3, <1>6, <1>8, <1>9, StepKeeps DEF IInv, Shape

\* Metadata are written of a file that has all the records of its writer.
LEMMA WriteMetaKeeps == ASSUME IInv, NEW p \in Replays, WriteMeta(p) PROVE IInv'
<1>1. proc[p].pc = "meta"
  BY DEF WriteMeta, At
<1>2. /\ UpTo(p, proc[p]) /\ file.by = p /\ Holds(file, meta, proc[p]) /\ proc[p] \in Process
      /\ Len(proc[p].collected) \in Nat
  BY <1>1, WriterFacts DEF Writing
<1>3. Len(file.lines) = Len(proc[p].collected) /\ proc[p].todo = << >>
  BY <1>1, <1>2 DEF Holds, UpTo, Writing
<1> DEFINE empty == [ NoMeta EXCEPT !.by = p, !.state = "empty" ]
           text == [ by |-> p, state |-> "whole", records |-> Len(proc[p].collected),
                     decoder_mode |-> proc[p].decoder_mode ]
<1>4. ASSUME NEW q \in Process, NEW m, Writes(p, q, file, m), q \in {proc[p], Goto(p, "done")},
             m \in [ by : Replays \union {Nobody}, state : {"absent", "empty", "whole"},
                     records : Nat, decoder_mode : DecoderMode ],
             m.by = p, m.state = "whole" => m = text
      PROVE  IInv'
  <2>1. /\ q.pc \in {"meta", "done"} /\ q.decoder_mode = proc[p].decoder_mode
        /\ q.listed = proc[p].listed /\ q.todo = proc[p].todo /\ q.collected = proc[p].collected
    BY <1>1, <1>4, GotoFacts DEF IInv, Stages, Ended
  <2>2. UpTo(p, q)
    BY <1>2, <1>3, <2>1 DEF UpTo
  <2>3. Holds(file, m, q)
    BY <1>2, <1>3, <1>4, <2>1 DEF Holds, Writing, Ended
  <2>4. proc' = [ proc EXCEPT ![p] = q ] /\ file' = file /\ meta' = m /\ folder' = folder
    BY <1>4 DEF Writes
  <2> QED
    BY <1>2, <1>4, <2>1, <2>2, <2>3, <2>4, StepKeeps DEF IInv, Shape, Describing, Ended
<1>5. NoMeta \in [ by : Replays \union {Nobody}, state : {"absent", "empty", "whole"},
                   records : Nat, decoder_mode : DecoderMode ]
  BY DEF NoMeta, DecoderMode
<1>6. Goto(p, "done") \in Process
  BY GotoFacts DEF IInv, Stages, Ended
<1>7. CASE Writes(p, Goto(p, "done"), file, text)
  <2>1. text \in [ by : Replays \union {Nobody}, state : {"absent", "empty", "whole"},
                   records : Nat, decoder_mode : DecoderMode ] /\ text.by = p
    BY <1>2 DEF Process
  <2> HIDE DEF text
  <2> QED
    BY <1>4, <1>6, <1>7, <2>1
<1>8. CASE Writes(p, proc[p], file, empty)
  <2>1. empty \in [ by : Replays \union {Nobody}, state : {"absent", "empty", "whole"},
                    records : Nat, decoder_mode : DecoderMode ] /\ empty.by = p /\ empty.state = "empty"
    BY <1>5
  <2> HIDE DEF empty
  <2> QED
    BY <1>2, <1>4, <1>8, <2>1
<1> QED
  BY <1>7, <1>8 DEF WriteMeta

-----------------------------------------------------------------------------
LEMMA InitIInv == Init => IInv
<1> SUFFICES ASSUME Init PROVE IInv
  OBVIOUS
<1>1. ASSUME NEW p \in Replays
      PROVE  /\ proc[p] \in Process /\ proc[p].pc = "start" /\ proc[p].listed = << >>
             /\ proc[p].todo = << >> /\ proc[p].collected = << >>
  <2>1. PICK mode \in DecoderMode : proc[p] = Start(mode)
    BY DEF Init
  <2> QED
    BY <2>1 DEF Start, Process, Stages, Image
<1>2. Shape
  BY <1>1, ReplayAssumption DEF Init, Shape, NoFile, NoMeta, Image, DecoderMode
<1>3. Work /\ Fresh
  <2> SUFFICES ASSUME NEW p \in Replays PROVE UpTo(p, proc[p]) /\ proc[p].collected = << >>
    BY DEF Work, Fresh
  <2>1. Len(<< >>) = 0 /\ 1..0 = {}
    OBVIOUS
  <2>2. 0 = 0 + 0
    OBVIOUS
  <2> QED
    BY <1>1, <2>1, <2>2 DEF UpTo, Writing
<1>4. Disk /\ Described
  BY <1>1, ReplayAssumption DEF Init, Disk, Described, NoFile, NoMeta, Writing
<1> QED
  BY <1>2, <1>3, <1>4 DEF IInv

LEMMA NextKeeps == IInv /\ [Next]_vars => IInv'
<1> SUFFICES ASSUME IInv, [Next]_vars PROVE IInv'
  OBVIOUS
<1>1. ASSUME NEW p \in Replays, Step(p) \/ Crash(p) PROVE IInv'
  <2>1. CASE Crash(p)
    BY <2>1, GotoKeeps DEF Crash, Ended
  <2>2. CASE DecoderRaises(p)
    BY <2>2, GotoKeeps DEF DecoderRaises, At, Ended
  <2>3. CASE CloseFile(p)
    <3>1. proc[p].pc = "write" /\ Unwritten(p) = << >> /\ Becomes(p, Goto(p, "meta"))
      BY <2>3 DEF CloseFile, At
    <3>2. Len(file.lines) = Len(proc[p].collected)
      BY <3>1, WriterFacts DEF Writing
    <3> QED
      BY <3>1, <3>2, GotoKeeps DEF Ended
  <2> QED
    BY <1>1, <2>1, <2>2, <2>3, GlobKeeps, ReadImageKeeps, DecodeImageKeeps, OpenKeeps,
       WriteRecordKeeps, WriteMetaKeeps DEF Step
<1>2. CASE Render
  <2>1. PICK n \in Names, image \in Image : folder' = [ folder EXCEPT ![n] = image ]
    BY <1>2 DEF Render, Image
  <2>2. UNCHANGED << proc, file, meta >>
    BY <1>2 DEF Render
  <2>3. Shape'
    BY <2>1, <2>2 DEF IInv, Shape
  <2>4. Work' /\ Fresh' /\ Disk' /\ Described'
    BY <2>2 DEF IInv, Work, Fresh, Disk, Described
  <2> QED
    BY <2>3, <2>4 DEF IInv
<1>3. CASE RemoveRecords
  <2>1. /\ file' = NoFile /\ meta' \in {NoMeta, meta} /\ UNCHANGED << folder, proc >>
        /\ file # NoFile /\ proc[file.by].pc \in Ended
    BY <1>3 DEF RemoveRecords
  <2>2. Shape'
    BY <2>1 DEF IInv, Shape, NoFile, NoMeta, DecoderMode
  <2>3. \A p \in Replays : proc[p].pc \notin Writing
    BY <2>1 DEF IInv, Disk, Writing, Ended
  <2>4. Work' /\ Fresh'
    BY <2>1 DEF IInv, Work, Fresh
  <2>5. Disk'
    BY <2>1, <2>3 DEF Disk, NoFile
  <2>6. Described'
    BY <2>1, ReplayAssumption DEF IInv, Described, NoMeta
  <2> QED
    BY <2>2, <2>4, <2>5, <2>6 DEF IInv
<1>4. CASE UNCHANGED vars
  <2>1. UNCHANGED << folder, proc, file, meta >>
    BY <1>4 DEF vars
  <2>2. Shape' /\ Work' /\ Fresh' /\ Disk' /\ Described'
    BY <2>1 DEF IInv, Shape, Work, Fresh, Disk, Described
  <2> QED
    BY <2>2 DEF IInv
<1> QED
  BY <1>1, <1>2, <1>3, <1>4 DEF Next, Done

THEOREM Invariance == Spec => []IInv
BY InitIInv, NextKeeps, PTL DEF Spec

-----------------------------------------------------------------------------
\* The lines of a file are records of its writer.
LEMMA LineFacts ==
  ASSUME IInv, NEW k \in DOMAIN file.lines
  PROVE  LET q == proc[file.by] IN
         /\ file.by \in Replays /\ k \in 1..Len(q.collected) /\ file.lines[k] = q.collected[k]
         /\ UpTo(file.by, q) /\ Holds(file, meta, q)
<1>1. file.lines \in Seq(Record) /\ k \in 1..Len(file.lines) /\ Len(file.lines) \in Nat
  BY DEF IInv, Shape
<1>2. file.by # Nobody
  BY <1>1 DEF IInv, Disk, NoFile
<1>3. file.by \in Replays
  BY <1>2 DEF IInv, Shape
<1>4. Holds(file, meta, proc[file.by]) /\ UpTo(file.by, proc[file.by])
      /\ Len(proc[file.by].collected) \in Nat
  BY <1>2, <1>3 DEF IInv, Disk, Work, Shape, Process
<1> QED
  BY <1>1, <1>3, <1>4 DEF Holds

\* A record is of the image whose hash it names (decode/capture._replay,
\* record_from_symbols), whatever is rendered while a folder is decoded.
THEOREM OfItsImage == Spec => []RecordIsOfItsImage
<1>1. ASSUME IInv, NEW r \in ToSet(file.lines) PROVE IsOfItsImage(r)
  <2>1. PICK k \in DOMAIN file.lines : r = file.lines[k]
    BY <1>1 DEF ToSet
  <2> DEFINE q == proc[file.by]
  <2>2. k \in 1..Len(q.collected) /\ r = q.collected[k] /\ UpTo(file.by, q)
    BY <1>1, <2>1, LineFacts
  <2> HIDE DEF q
  <2> QED
    BY <2>2 DEF UpTo
<1>2. IInv => RecordIsOfItsImage
  BY <1>1 DEF RecordIsOfItsImage, IsOfItsImage
<1> QED
  BY Invariance, <1>2, PTL

\* Metadata beside a records file of the same replay mean that it is the whole replay
\* (decode/capture.main), although both are written in pieces, and processes are killed;
\* metadata that are left when a records file is removed are never taken for those.
THEOREM MetaWhole == Spec => []MetaMeansWhole
<1>1. ASSUME IInv, file # NoFile, meta.by = file.by PROVE MetaMeansWhole
  <2> DEFINE p == meta.by
             q == proc[p]
             lines == file.lines
  <2>1. file.by # Nobody
    BY <1>1 DEF IInv, Disk
  <2>2. /\ file.by = p /\ p \in Replays /\ UpTo(p, q) /\ Holds(file, meta, q)
        /\ q.listed \in Seq(Names) /\ q.collected \in Seq(Record) /\ lines \in Seq(Record)
    BY <1>1, <2>1 DEF IInv, Disk, Holds, Work, Shape, Process
  <2>3. Len(lines) = Len(q.collected) /\ q.todo = << >> /\ Len(lines) \in Nat
        /\ \A k \in 1..Len(lines) : lines[k] = q.collected[k]
    BY <1>1, <2>2 DEF Holds
  <2>4. Len(q.listed) = Len(lines)
    BY <2>2, <2>3 DEF UpTo
  <2>5. \A k \in 1..Len(lines) : /\ lines[k].payload_id = q.listed[k] /\ lines[k].run_id = p
                                 /\ lines[k].decoder_mode = q.decoder_mode
    BY <2>2, <2>3 DEF UpTo
  <2>6. DOMAIN lines = 1..Len(lines) /\ DOMAIN q.listed = 1..Len(lines)
    BY <2>2, <2>4
  <2>7. [ k \in DOMAIN lines |-> lines[k].payload_id ] = q.listed
    <3>1. q.listed = [ k \in 1..Len(lines) |-> q.listed[k] ]
      BY <2>2, <2>4
    <3> QED
      BY <2>5, <2>6, <3>1
  <2>8. \A r \in ToSet(lines) : r.run_id = p /\ r.decoder_mode = q.decoder_mode
    BY <2>5, <2>6 DEF ToSet
  <2>9. meta.state = "whole" => meta.records = Len(lines) /\ meta.decoder_mode = q.decoder_mode
    BY <1>1, <2>2 DEF Holds
  <2> QED
    BY <2>2, <2>7, <2>8, <2>9 DEF MetaMeansWhole
<1>2. IInv => MetaMeansWhole
  BY <1>1 DEF MetaMeansWhole
<1> QED
  BY Invariance, <1>2, PTL

\* A records file only grows, by records of the process that made it (open(out, "x")),
\* until somebody removes it.
THEOREM RecordsKept == Spec => RecordsAreKept
<1>1. ASSUME IInv, [Next]_vars, file # NoFile, file' # NoFile
      PROVE  file'.by = file.by /\ IsPrefix(file.lines, file'.lines)
  <2>1. file.lines \in Seq(Record) /\ Len(file.lines) \in Nat
        /\ file = [ by |-> file.by, lines |-> file.lines ]
    <3>1. file \in [ by : Replays \union {Nobody}, lines : Seq(Record) ]
      BY <1>1 DEF IInv, Shape
    <3> QED
      BY <3>1
  <2>2. IsPrefix(file.lines, file.lines)
    <3> DEFINE l == file.lines
    <3> HIDE DEF l
    <3>1. l \in Seq(Record) /\ Len(l) <= Len(l)
      BY <2>1 DEF l
    <3> QED
      BY <3>1 DEF IsPrefix, l
  <2>3. CASE file' = file
    BY <2>2, <2>3
  <2>4. ASSUME NEW p \in Replays, WriteRecord(p)
        PROVE  file'.by = file.by /\ IsPrefix(file.lines, file'.lines)
    <3> DEFINE l == file.lines
               r == Head(Unwritten(p))
    <3>1. file' = [ file EXCEPT !.lines = Append(l, r) ]
      BY <2>4 DEF WriteRecord, Writes
    <3>2. r \in Record
      <4>1. proc[p].pc = "write" /\ Unwritten(p) # << >>
        BY <2>4 DEF WriteRecord, At
      <4>2. /\ proc[p].collected \in Seq(Record) /\ Len(l) \in Nat
            /\ Len(l) < Len(proc[p].collected) /\ r = proc[p].collected[Len(l) + 1]
        BY <1>1, <4>1, WriterFacts DEF Writing
      <4> DEFINE c == proc[p].collected
                 n == Len(l)
      <4>3. c \in Seq(Record) /\ n \in Nat /\ n < Len(c) /\ r = c[n + 1] /\ Len(c) \in Nat
        BY <4>2
      <4> HIDE DEF c, n, r
      <4>4. n + 1 \in 1..Len(c)
        BY <4>3
      <4> QED
        BY <4>3, <4>4
    <3> HIDE DEF l, r
    <3>3. file'.by = file.by /\ file'.lines = Append(l, r)
      BY <2>1, <3>1
    <3>4. l \in Seq(Record) /\ Len(Append(l, r)) = Len(l) + 1 /\ Len(l) <= Len(l) + 1
          /\ SubSeq(Append(l, r), 1, Len(l)) = l
      BY <2>1, <3>2 DEF l
    <3> QED
      BY <3>3, <3>4 DEF IsPrefix, l
  <2>5. file' = file \/ file' = NoFile \/ file = NoFile \/ \E p \in Replays : WriteRecord(p)
    <3>1. ASSUME NEW p \in Replays, Step(p) \/ Crash(p), ~WriteRecord(p)
          PROVE  file' = file \/ file = NoFile
      <4>1. Open(p) => file' = file \/ file = NoFile
        BY DEF Open, Becomes
      <4>2. WriteMeta(p) => file' = file
        BY DEF WriteMeta, Writes
      <4>3. Glob(p) => file' = file
        BY DEF Glob, Becomes
      <4>4. ReadImage(p) => file' = file
        BY DEF ReadImage, Becomes
      <4>5. DecodeImage(p) \/ DecoderRaises(p) \/ CloseFile(p) \/ Crash(p) => file' = file
        BY DEF DecodeImage, DecoderRaises, CloseFile, Crash, Becomes
      <4> QED
        BY <3>1, <4>1, <4>2, <4>3, <4>4, <4>5 DEF Step
    <3>2. Render \/ RemoveRecords \/ Done \/ UNCHANGED vars => file' = file \/ file' = NoFile
      BY DEF Render, RemoveRecords, Done, vars
    <3> QED
      BY <1>1, <3>1, <3>2 DEF Next
  <2> QED
    BY <1>1, <2>3, <2>4, <2>5
<1>2. IInv /\ [Next]_vars =>
        [ file # NoFile /\ file' # NoFile =>
            file'.by = file.by /\ IsPrefix(file.lines, file'.lines) ]_file
  BY <1>1
<1> QED
  BY InitIInv, NextKeeps, <1>2, PTL DEF Spec, RecordsAreKept

=============================================================================
