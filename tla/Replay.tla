------------------------------- MODULE Replay -------------------------------
(***************************************************************************)
(* decode/capture: `python -m decode.capture replay <folder> --out <file>`, *)
(* run by several processes on one folder of images and one records file.  *)
(* A process lists the folder, decodes image by image and keeps the        *)
(* records; only then it creates the file, writes them, and writes the     *)
(* metadata beside it.  Meanwhile the images can be rendered anew, and a   *)
(* process can be killed at any step.                                      *)
(*                                                                         *)
(* An image is one of the few kinds the decode policy tells apart, and     *)
(* stands for its bytes and their hash alike.                              *)
(***************************************************************************)
EXTENDS Contracts, Naturals, SequencesExt

CONSTANTS
  Replays,          \* the processes; each is a decode run of its own
  Names,            \* the stems of the files of the folder, in their order
  Ids,              \* those that are valid payload ids
  Folders,          \* what the folder of images may hold at first
  MaxEdits          \* bound: renderings and removals while processes run

NoImage == "no_image"
Torn == "torn"      \* a file that is not (yet) an image
Pictures == {"blank", "two_codes", "ascii", "latin1"}
Nobody == "nobody"

ASSUME ReplayAssumption ==
  /\ Names \in SUBSET Nat /\ IsFiniteSet(Names) /\ Ids \subseteq Names /\ MaxEdits \in Nat
  /\ Folders \subseteq [ Names -> Pictures \union {Torn, NoImage} ]
  /\ Nobody \notin Replays

VARIABLES
  folder,           \* the images, NoImage where there is no file
  edits,            \* how many edits there have been
  proc,             \* the processes, see Start
  file,             \* the records file: its writer and its lines
  meta              \* the metadata file beside it

vars == << folder, edits, proc, file, meta >>

NoFile == [ by |-> Nobody, lines |-> << >> ]
NoMeta == [ by |-> Nobody, state |-> "absent", records |-> 0, decoder_mode |-> "default" ]

Start(mode) ==
  [ pc |-> "start", decoder_mode |-> mode, listed |-> << >>, todo |-> << >>,
    data |-> NoImage, collected |-> << >> ]

Ended == {"done", "raised", "crashed"}
At(p, stage) == proc[p].pc = stage

\* Decoder.decode: what each symbol of an image holds.  zbar's default mode rewrites
\* bytes that are not UTF-8, the raw mode leaves them (docs/decode.md).
Decode(image, mode) ==
  CASE image = "blank" -> << >>
    [] image = "two_codes" -> << "utf8", "utf8" >>
    [] image = "latin1" /\ mode = "raw" -> << "not_utf8" >>
    [] OTHER -> << "utf8" >>

\* The decode policy: one symbol or nothing, and never repaired.
record_from_symbols(symbols, run_id, payload_id, decoder_mode, image_sha256) ==
  LET One == Len(symbols) = 1
      utf8 == One /\ symbols[1] = "utf8"
  IN [ run_id |-> run_id, payload_id |-> payload_id, decoder_mode |-> decoder_mode,
       image_sha256 |-> image_sha256,
       decode_status |-> IF symbols = << >> THEN "no_symbol"
                         ELSE IF ~One THEN "multiple_symbols"
                         ELSE IF utf8 THEN "ok" ELSE "invalid_utf8",
       raw |-> IF One THEN symbols[1] ELSE "none",
       text |-> IF utf8 THEN "strict" ELSE "none",
       symbology |-> One ]

Init ==
  /\ folder \in Folders
  /\ edits = 0
  /\ proc \in [ Replays -> { Start(mode) : mode \in DecoderMode } ]
  /\ file = NoFile
  /\ meta = NoMeta

\* A step of process p that makes it q, and of the disk nothing.
Becomes(p, q) == proc' = [ proc EXCEPT ![p] = q ] /\ UNCHANGED << folder, edits, file, meta >>

\* A step that writes: the records file becomes f and the metadata m.
Writes(p, q, f, m) ==
  /\ proc' = [ proc EXCEPT ![p] = q ]
  /\ file' = f /\ meta' = m
  /\ UNCHANGED << folder, edits >>

Goto(p, stage) == [ proc[p] EXCEPT !.pc = stage ]

\* replay_records: an empty folder or a misnamed file raises before any decoding.
Glob(p) ==
  LET paths == { n \in Names : folder[n] # NoImage } IN
  /\ At(p, "start")
  /\ IF paths # {} /\ paths \subseteq Ids
     THEN \E sorted \in [ 1..Cardinality(paths) -> paths ] :
            /\ \A j, k \in DOMAIN sorted : j < k => sorted[j] < sorted[k]
            /\ Becomes(p, [ Goto(p, "read") EXCEPT !.listed = sorted, !.todo = sorted ])
     ELSE Becomes(p, Goto(p, "raised"))

\* A replay that waits for an image which is gone or half written
WaitForImage(p) ==
  /\ At(p, "read") /\ proc[p].todo # << >>
  /\ folder[Head(proc[p].todo)] \in Pictures
  /\ Becomes(p, [ Goto(p, "decode") EXCEPT !.data = folder[Head(proc[p].todo)] ])

\* path.read_bytes and gray_from_bytes
ReadImage(p) ==
  /\ At(p, "read") /\ proc[p].todo # << >>
  /\ LET data == folder[Head(proc[p].todo)] IN
     Becomes(p, IF data \in Pictures
                THEN [ Goto(p, "decode") EXCEPT !.data = data ]
                ELSE Goto(p, "raised"))

Recorded(p, hash) ==
  LET q == proc[p]
      record == record_from_symbols(Decode(q.data, q.decoder_mode),
                                    p, Head(q.todo), q.decoder_mode, hash)
  IN [ Goto(p, "read") EXCEPT !.todo = Tail(@), !.collected = Append(@, record),
                              !.data = NoImage ]

\* The hash of the file as it is after the decoding
DecodeAndRead(p) == At(p, "decode") /\ Becomes(p, Recorded(p, folder[Head(proc[p].todo)]))

\* _replay: the hash is of the bytes that were decoded.
DecodeImage(p) == At(p, "decode") /\ Becomes(p, Recorded(p, proc[p].data))

\* zbar rejects the image or the mode
DecoderRaises(p) == At(p, "decode") /\ Becomes(p, Goto(p, "raised"))

\* Records written while others are still to be decoded
OpenEarly(p) ==
  /\ At(p, "read") /\ proc[p].collected # << >>
  /\ file = NoFile
  /\ Writes(p, Goto(p, "write"), [ by |-> p, lines |-> << >> ], meta)

\* open(out, "w")
OpenAnyway(p) ==
  /\ At(p, "read") /\ proc[p].todo = << >>
  /\ Writes(p, Goto(p, "write"), [ by |-> p, lines |-> << >> ], meta)

\* open(out, "x"): never overwrites a records file.
Open(p) ==
  /\ At(p, "read") /\ proc[p].todo = << >>
  /\ IF file = NoFile
     THEN Writes(p, Goto(p, "write"), [ by |-> p, lines |-> << >> ], meta)
     ELSE Becomes(p, Goto(p, "raised"))

Unwritten(p) == SubSeq(proc[p].collected, Len(file.lines) + 1, Len(proc[p].collected))

\* writelines: the buffer reaches the disk in pieces.
WriteRecord(p) ==
  /\ At(p, "write") /\ Unwritten(p) # << >>
  /\ Writes(p, proc[p], [ file EXCEPT !.lines = Append(@, Head(Unwritten(p))) ], meta)

CloseFile(p) == At(p, "write") /\ Unwritten(p) = << >> /\ Becomes(p, Goto(p, "meta"))

\* write_text of decode_meta: the file is there, empty, before it has its text.
WriteMeta(p) ==
  LET text == [ by |-> p, state |-> "whole", records |-> Len(proc[p].collected),
                decoder_mode |-> proc[p].decoder_mode ]
  IN
  /\ At(p, "meta")
  /\ IF meta = [ NoMeta EXCEPT !.by = p, !.state = "empty" ]
     THEN Writes(p, Goto(p, "done"), file, text)
     ELSE Writes(p, proc[p], file, [ NoMeta EXCEPT !.by = p, !.state = "empty" ])

Crash(p) == proc[p].pc \notin Ended /\ Becomes(p, Goto(p, "crashed"))

(***************************************************************************)
(* Around the processes: attacks.generate renders and removes images, a    *)
(* file at a time and not atomically, of which only what happens before    *)
(* the last decoding matters; somebody removes the records file of a       *)
(* process that has ended, with its metadata or without, to run again.     *)
(***************************************************************************)
Render ==
  /\ edits < MaxEdits
  /\ \E p \in Replays : proc[p].pc \in {"start", "read", "decode"}
  /\ edits' = edits + 1
  /\ \E n \in Names, image \in Pictures \union {Torn, NoImage} :
       image # folder[n] /\ folder' = [ folder EXCEPT ![n] = image ]
  /\ UNCHANGED << proc, file, meta >>

RemoveRecords ==
  /\ edits < MaxEdits /\ file # NoFile /\ proc[file.by].pc \in Ended
  /\ edits' = edits + 1
  /\ file' = NoFile /\ meta' \in {NoMeta, meta}
  /\ UNCHANGED << folder, proc >>

Step(p) ==
  \/ Glob(p) \/ ReadImage(p) \/ DecodeImage(p) \/ DecoderRaises(p)
  \/ Open(p) \/ WriteRecord(p) \/ CloseFile(p) \/ WriteMeta(p)

Done == (\A p \in Replays : proc[p].pc \in Ended) /\ UNCHANGED vars

Next == (\E p \in Replays : Step(p) \/ Crash(p)) \/ Render \/ RemoveRecords \/ Done

\* Every process is scheduled.
Fairness == \A p \in Replays : WF_vars(Step(p))

Spec == Init /\ [][Next]_vars /\ Fairness

-----------------------------------------------------------------------------
(***************************************************************************)
(* Properties.                                                             *)
(***************************************************************************)

\* A records file beside the metadata of the replay that made it is whole: one record, in
\* order, for every image its writer found in the folder, all of one run and one decoder
\* mode, as many and in the mode that the metadata say (harness/run_experiments carries
\* them on).  Metadata of another replay say nothing of it: they can have been left there.
MetaMeansWhole ==
  file # NoFile /\ meta.by = file.by =>
    LET q == proc[meta.by] IN
    /\ [ k \in DOMAIN file.lines |-> file.lines[k].payload_id ] = q.listed
    /\ \A r \in ToSet(file.lines) : r.run_id = meta.by /\ r.decoder_mode = q.decoder_mode
    /\ meta.state = "whole" =>
         meta.records = Len(file.lines) /\ meta.decoder_mode = q.decoder_mode

\* A record is of the image whose hash it names, whatever was rendered meanwhile: it
\* obeys the contract, and delivers a payload only if that image shows exactly one
\* symbol, which it keeps as the decoder gave it.
RecordIsOfItsImage ==
  \A r \in ToSet(file.lines) :
    LET symbols == Decode(r.image_sha256, r.decoder_mode) IN
    /\ ValidRecord(r)
    /\ Delivered(r.decode_status) <=> Len(symbols) = 1
    /\ Delivered(r.decode_status) => r.raw = symbols[1]

\* No process takes anything from a records file, its own or another's: it only grows,
\* by records of the process that made it, until somebody removes it.
RecordsAreKept ==
  [][ file # NoFile /\ file' # NoFile =>
        file'.by = file.by /\ IsPrefix(file.lines, file'.lines) ]_file

\* Every process ends, whatever happens to the images.
ReplaysEnd == \A p \in Replays : <>(proc[p].pc \in Ended)

=============================================================================
