------------------------------ MODULE Pipeline ------------------------------
(***************************************************************************)
(* The commands that lead from the payload set to a run, given one after   *)
(* another, any of them killed at any step: attacks.generate renders the   *)
(* images and writes their manifest, decode.capture replays them into a    *)
(* records file and its metadata, harness.run_experiments runs that file.  *)
(* Between commands the payload set and the seed in config.yaml are edited *)
(* and records files removed.  Replay and Runner have the commands that    *)
(* run at the same time; here is what one leaves behind for the next.      *)
(***************************************************************************)
EXTENDS Plan

CONSTANTS
  Sets,             \* the versions of payloads.yaml: sequences of specs, see Specs
  Seeds,            \* for the badge database, in config.yaml and as --seed
  Config,           \* the tier1 section of config.yaml, see Plan
  MaxCommands,      \* bound: commands
  MaxEdits          \* bound: edits and removals between them

ASSUME PipelineAssumption ==
  MaxCommands \in Nat /\ MaxEdits \in Nat

\* What load_payload_set holds of the specs it returns.
ASSUME SetsAssumption ==
  /\ 1 \in DOMAIN Sets
  /\ \A v \in DOMAIN Sets :
       /\ Sets[v] \in Seq(ToSet(Sets[v]))
       /\ \A s \in ToSet(Sets[v]) :
            s \in [ id : Nat, tier1 : BOOLEAN, decoders : {s.decoders}, derived : BOOLEAN,
                    damage : BOOLEAN, expect : BOOLEAN, text : {s.text} ]
       /\ \A j, k \in DOMAIN Sets[v] : Sets[v][j].id = Sets[v][k].id => j = k

\* A damaged image is expected not to decode (contracts.py:217); of payloads.yaml,
\* nothing else is.
ASSUME DamageAssumption ==
  \A v \in DOMAIN Sets : \A s \in ToSet(Sets[v]) : s.expect = ~s.damage

VARIABLES
  config,           \* the version of payloads.yaml and the seed of config.yaml
  images,           \* attacks/out, by payload id
  manifest,         \* attacks/manifest.json
  records,          \* the records file; all: what its replay collected (history)
  meta,             \* the metadata beside it: the replay they describe
  cmd,              \* the command, see Blank
  generated,        \* history: the last attacks.generate that was given
  commands, edits   \* how many there have been

disk == << config, images, manifest, records, meta >>
counts == << generated, commands, edits >>
vars == << disk, cmd, counts >>

NoImage == [ shows |-> 0, damaged |-> FALSE ]
Torn == [ shows |-> -1, damaged |-> TRUE ]
NoManifest == [ by |-> 0, whole |-> FALSE, env |-> "here", entries |-> << >> ]
NoRecords == [ by |-> 0, lines |-> << >>, torn |-> FALSE, all |-> << >> ]
NoMeta == [ by |-> 0, torn |-> FALSE ]

\* What a command is, where it is in it, its exit code, the decoder mode it was given,
\* what it has still to do and what it has collected.
Blank == [ what |-> "none", at |-> "exit", code |-> 0, mode |-> "default",
           todo |-> << >>, collected |-> << >> ]

\* load_payload_set: the text of a derived spec, a benign one, is of the seed; the
\* ids are not, and the list is in their order.
Specs(version, seed) ==
  [ k \in DOMAIN Sets[version] |->
      LET s == Sets[version][k] IN [ s EXCEPT !.text = IF s.derived THEN seed ELSE @ ] ]

Ids == UNION { { s.id : s \in ToSet(Sets[v]) } : v \in DOMAIN Sets }
ASSUME IdsAssumption == IsFiniteSet(Ids)

Init ==
  /\ config \in [ set : {1}, seed : Seeds ]
  /\ images = [ i \in Ids |-> NoImage ] /\ manifest = NoManifest
  /\ records = NoRecords /\ meta = NoMeta
  /\ cmd = Blank /\ generated = 0 /\ commands = 0 /\ edits = 0

Idle == cmd.at \in {"exit", "killed"}
Does(what, at) == cmd.what = what /\ cmd.at = at

Begins(c) ==
  /\ Idle /\ commands < MaxCommands
  /\ commands' = commands + 1
  /\ cmd' = c
  /\ UNCHANGED << disk, edits >>

Exit(code) == [ Blank EXCEPT !.what = cmd.what, !.code = code ]

(***************************************************************************)
(* attacks.generate.                                                       *)
(***************************************************************************)
Picture(spec, damaged) == [ shows |-> spec.text, damaged |-> damaged ]
Entry(spec, image) ==
  [ id |-> spec.id, about |-> << spec.decoders, spec.expect, spec.damage >>, pixels |-> image ]
\* Of the bytes of a PNG file: the compressor is another on each platform.
Png(pixels, env) == << pixels, env >>

Generate ==
  \E seed \in Seeds :
    /\ Begins([ Blank EXCEPT !.what = "generate", !.at = "render",
                             !.todo = Specs(config.set, seed) ])
    /\ generated' = commands + 1

\* A step that makes the image of the next spec i, and is done with it or not.
Draws(i, at, done) ==
  LET spec == Head(cmd.todo) IN
  /\ images' = [ images EXCEPT ![spec.id] = i ]
  /\ cmd' = [ cmd EXCEPT !.at = at, !.todo = IF done THEN Tail(@) ELSE @,
                         !.collected = IF done THEN Append(@, Entry(spec, i)) ELSE @ ]
  /\ UNCHANGED << config, manifest, records, meta, counts >>

\* render_spec: the image is saved undamaged, read again and saved cropped.
Render ==
  /\ Does("generate", "render") /\ cmd.todo # << >>
  /\ LET spec == Head(cmd.todo) IN
     Draws(Picture(spec, FALSE), IF spec.damage THEN "crop" ELSE "render", ~spec.damage)

Crop == Does("generate", "crop") /\ Draws(Picture(Head(cmd.todo), TRUE), "render", TRUE)

WriteManifest ==
  /\ Does("generate", "render") /\ cmd.todo = << >>
  /\ manifest' = [ by |-> generated, whole |-> TRUE, env |-> "here", entries |-> cmd.collected ]
  /\ cmd' = Exit(0)
  /\ UNCHANGED << config, images, records, meta, counts >>

\* compare that takes file hashes of two platforms for comparable
Same(old, new, env) ==
  old = new /\ Png(old.pixels, manifest.env) = Png(new.pixels, env)

\* compare, of one payload: its file hash counts in the same environment only.
SameEntry(old, new, env) ==
  /\ old = new
  /\ (manifest.env = env => Png(old.pixels, manifest.env) = Png(new.pixels, env))

Fresh(seed) ==
  LET specs == Specs(config.set, seed)
  IN [ k \in DOMAIN specs |-> Entry(specs[k], Picture(specs[k], specs[k].damage)) ]

\* --check, here or on another machine: the images are rendered in a folder of their
\* own, the manifest must list the same.
Check ==
  \E seed \in Seeds, env \in {"here", "elsewhere"} :
    LET old == ToSet(manifest.entries)
        new == ToSet(Fresh(seed))
        match == /\ manifest.whole
                 /\ { e.id : e \in old } = { e.id : e \in new }
                 /\ \A e \in old, f \in new : e.id = f.id => SameEntry(e, f, env)
    IN /\ Begins([ Blank EXCEPT !.what = "check", !.code = IF match THEN 0 ELSE 1,
                               !.collected = Fresh(seed) ])
       /\ UNCHANGED generated

(***************************************************************************)
(* decode.capture replay.  The run id is new with every replay.            *)
(***************************************************************************)
ReplayFolder ==
  \E mode \in Config.decoders :
    LET paths == InOrder({ i \in Ids : images[i] # NoImage }, LAMBDA i, j : i < j)
        c == [ Blank EXCEPT !.what = "replay", !.mode = mode ]
    IN /\ Begins(IF paths = << >> THEN [ c EXCEPT !.code = 1 ]
                                     ELSE [ c EXCEPT !.at = "decode", !.todo = paths ])
       /\ UNCHANGED generated

Decode ==
  /\ Does("replay", "decode") /\ cmd.todo # << >>
  /\ LET i == images[Head(cmd.todo)]
         record == [ run |-> commands, id |-> Head(cmd.todo), decoder |-> cmd.mode,
                     delivered |-> ~i.damaged, image |-> i ]
     IN cmd' = IF i = Torn THEN Exit(1)
               ELSE [ cmd EXCEPT !.todo = Tail(@), !.collected = Append(@, record) ]
  /\ UNCHANGED << disk, counts >>

\* the metadata before the records
MetaFirst ==
  /\ Does("replay", "decode") /\ cmd.todo = << >>
  /\ meta' = [ NoMeta EXCEPT !.by = commands ]
  /\ IF records = NoRecords
     THEN /\ records' = [ NoRecords EXCEPT !.by = commands, !.all = cmd.collected ]
          /\ cmd' = [ cmd EXCEPT !.at = "write" ]
     ELSE cmd' = Exit(1) /\ UNCHANGED records
  /\ UNCHANGED << config, images, manifest, counts >>

\* A file that exists is not overwritten.
OpenRecords ==
  /\ Does("replay", "decode") /\ cmd.todo = << >>
  /\ IF records = NoRecords
     THEN /\ records' = [ NoRecords EXCEPT !.by = commands, !.all = cmd.collected ]
          /\ cmd' = [ cmd EXCEPT !.at = "write" ]
     ELSE cmd' = Exit(1) /\ UNCHANGED records
  /\ UNCHANGED << config, images, manifest, meta, counts >>

WriteRecord ==
  LET n == Len(records.lines) IN
  /\ Does("replay", "write") /\ n < Len(cmd.collected)
  /\ records' = [ records EXCEPT !.lines = Append(@, cmd.collected[n + 1]) ]
  /\ UNCHANGED << config, images, manifest, meta, cmd, counts >>

WriteMeta ==
  /\ Does("replay", "write") /\ Len(records.lines) = Len(cmd.collected)
  /\ meta' = [ NoMeta EXCEPT !.by = commands ]
  /\ cmd' = Exit(0)
  /\ UNCHANGED << config, images, manifest, records, counts >>

(***************************************************************************)
(* harness.run_experiments: what it reads, and its exit code.              *)
(***************************************************************************)
Loaded(allow) ==
  [ what |-> "run", at |-> "exit", code |-> 0, allow |-> allow, lines |-> records.lines,
    specs |-> Specs(config.set, config.seed), seed |-> config.seed, meta |-> meta ]

\* The end of a run that Runner has in detail: its mismatches are 3, unless allowed.
ExitCode(found, allow) == IF found # {} /\ ~allow THEN 3 ELSE 0

\* A torn line, or torn metadata, is a traceback; metadata need not be there.
Run ==
  \E allow \in BOOLEAN :
    LET c == Loaded(allow)
        found == Mismatches(c.lines, c.specs)
        code == IF records = NoRecords \/ records.torn \/ meta.torn THEN 1
                ELSE IF ~Accepts(c.lines, c.specs, Config) THEN 2
                ELSE ExitCode(found, allow)
    IN Begins([ c EXCEPT !.code = code ]) /\ UNCHANGED generated

(***************************************************************************)
(* A command is killed, and the file it was writing may be torn.           *)
(***************************************************************************)
Tears ==
  \/ /\ cmd.what = "generate" /\ cmd.todo # << >>
     /\ images' = [ images EXCEPT ![Head(cmd.todo).id] = Torn ]
     /\ UNCHANGED << manifest, records, meta >>
  \/ /\ cmd.what = "generate" /\ cmd.todo = << >>
     /\ manifest' = [ manifest EXCEPT !.whole = FALSE ]
     /\ UNCHANGED << images, records, meta >>
  \/ /\ Does("replay", "write") /\ Len(records.lines) < Len(cmd.collected)
     /\ records' = [ records EXCEPT !.torn = TRUE ]
     /\ UNCHANGED << images, manifest, meta >>
  \/ /\ Does("replay", "write") /\ Len(records.lines) = Len(cmd.collected)
     /\ meta' = [ by |-> commands, torn |-> TRUE ]
     /\ UNCHANGED << images, manifest, records >>

Kill ==
  /\ ~Idle
  /\ cmd' = [ Exit(1) EXCEPT !.at = "killed" ]
  /\ Tears \/ UNCHANGED << images, manifest, records, meta >>
  /\ UNCHANGED << config, counts >>

Edit ==
  /\ Idle /\ edits < MaxEdits
  /\ edits' = edits + 1
  /\ config' \in [ set : DOMAIN Sets, seed : Seeds ] \ {config}
  /\ UNCHANGED << images, manifest, records, meta, cmd, generated, commands >>

\* The metadata beside a records file are removed with it, or stay.
RemoveRecords ==
  /\ Idle /\ edits < MaxEdits /\ records # NoRecords
  /\ edits' = edits + 1
  /\ records' = NoRecords
  /\ meta' \in {NoMeta, meta}
  /\ UNCHANGED << config, images, manifest, cmd, generated, commands >>

Next ==
  \/ Generate \/ Render \/ Crop \/ WriteManifest \/ Check
  \/ ReplayFolder \/ Decode \/ OpenRecords \/ WriteRecord \/ WriteMeta
  \/ Run \/ Kill \/ Edit \/ RemoveRecords

Spec == Init /\ [][Next]_vars

-----------------------------------------------------------------------------
(***************************************************************************)
(* Properties.                                                             *)
(***************************************************************************)
Ran(codes) == cmd.what = "run" /\ cmd.code \in codes
JudgedSpecs == Applicable(cmd.specs, cmd.lines[1].decoder)

\* A run that ends well, not told to go on, has judged no payload by an image that was
\* left undamaged, or damaged, against its spec: a generate killed between saving an
\* image and cropping it is noticed.
DamageIsNoticed ==
  Ran({0}) /\ ~cmd.allow =>
    \A s \in JudgedSpecs :
      LET image == RecordOf(cmd.lines, s.id).image
      IN image # Torn /\ (image.shows = s.text => image.damaged = s.damage)

\* A records file that its replay did not finish, if it is run at all, gives the very
\* run the whole file would have given: the same work, on the same records, and the
\* same mismatches.
CutFileGivesTheSameRun ==
  Ran({0, 3}) /\ records.lines = cmd.lines =>
    /\ Matrix(cmd.lines, cmd.specs, Config) = Matrix(records.all, cmd.specs, Config)
    /\ \A s \in JudgedSpecs : \E r \in ToSet(cmd.lines) : r.id = s.id /\ r = RecordOf(records.all, s.id)
    /\ Mismatches(cmd.lines, cmd.specs) = Mismatches(records.all, cmd.specs)

\* --check says MATCH if and only if the manifest lists the pictures that the payload
\* set and the seed now give, on whichever machine; and although it looks at no image
\* of the folder, these are then those pictures, if no generate was cut off since.
CheckTells ==
  cmd.what = "check" =>
    /\ cmd.code = 0 <=> manifest.whole /\ ToSet(manifest.entries) = ToSet(cmd.collected)
    /\ cmd.code = 0 /\ manifest.by = generated =>
         \A e \in ToSet(cmd.collected) : images[e.id] = e.pixels

\* decode/capture.py:90, of the metadata: "What produced a records file, written beside
\* it so the harness can carry it into the run's metadata": what a run carries on is
\* of the replay that made its records.
MetaIsOfTheRecords ==
  Ran({0, 3}) /\ cmd.meta # NoMeta => \A r \in ToSet(cmd.lines) : r.run = cmd.meta.by

\* The metadata of a replay come last: what a run carries on of them is of the replay that
\* made its records, which are then all that it collected, or is of a replay before that.
\* One that was refused the file, or killed before the end, has left none of its own.
MetaComeLast ==
  Ran({0, 3}) /\ cmd.meta # NoMeta =>
    \A r \in ToSet(cmd.lines) :
      /\ cmd.meta.by <= r.run
      /\ cmd.meta.by = r.run /\ records.lines = cmd.lines => cmd.lines = records.all

\* attacks/payload_set.py:4, of the benign payloads: "derived, not listed, so they
\* cannot drift out of step with the ground truth": what a run judges as a derived
\* payload shows the text derived from the seed of its ground truth.
DerivedIsInStep ==
  Ran({0}) /\ ~cmd.allow =>
    \A s \in JudgedSpecs : s.derived => RecordOf(cmd.lines, s.id).image.shows = cmd.seed

=============================================================================
