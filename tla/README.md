# sofabgen: specifications, model checking and proofs

`sofabgen` (github.com/sofa-buffers/generator) reads message definitions in
YAML or JSON and emits source code in eleven languages. This directory holds
TLA+ models of the parts of it whose behaviour is more than a conversion of
data, the TLC configurations that check them on small instances, and TLAPS
proofs of what matters most for every instance. Half of them are about the
generator, half about the code it generates: what a message object does when it
is decoded into, changed and written, in ten of the languages. Line references
are to the repository at the modelled commit.

- [Inventory](#inventory)
- [Modules](#modules)
- [Runs](#runs)
- [Proofs](#proofs)
- [Disagreements found](#disagreements-found)
- [Only model-checked, and not modelled](#only-model-checked-and-not-modelled)
- [Plan](#plan)

## Inventory

One run takes one input - a definition file, or a directory of them - through a
fixed pipeline (`internal/pipeline/pipeline.go`, ARCHITECTURE section 3) and
writes the files of one backend:

    file or directory
      -> parser.Load         decode, InlineExternalRefs (cross-file $ref), locations
      -> parser.LoadDir      the same for each file, then Merge into one document
      -> Document.Resolve    expand local $ref, refuse circular ones
      -> parser.Validate     every rule of the schema, all errors at once
      -> model.Build         document -> IR, inline types hoisted to named types
      -> analysis.Analyze    references bound, union defaults, nesting depth
      -> frozen IR
      -> backend.Generate    pure function of IR and configuration -> files in memory
      -> formatFiles         the target's own formatter, if asked for
      -> writeFiles          one file after another, in place

There is one goroutine. What makes the program hard is not concurrency but
order and identity: graphs of definitions that are walked and rewritten at the
same time, maps whose iteration order changes from run to run, names that have
to stay distinct after folding, a tree of files on disk that a failing or
killed run leaves half written, and numbers that have to be upper bounds of
what another program writes.

What it writes is a second kind of program. Generated code is driven by a
decoder of a corelib, callback by callback, with whatever a peer chose to send:
fields of the wrong type, unknown ones, lengths past a bound, a field twice, a
payload in pieces, the end of the message anywhere. It keeps a location and
counters between callbacks, and it decodes into objects that already hold
something. Eleven backends write it, and each keeps its state differently - a
stack of visitors, a flat visitor with a location, arms that pull, a table of
destinations - while all of them promise the same meaning.

| component | state | operations | what makes it correct |
|---|---|---|---|
| Importer (`parser/external.go`) | the document's `$defs`, cache of decoded files, `done` marks, `byFold` names, origins, errors; the recursion stack | `walk` a body, `importRef`, `claim` a name, final verdict | ends on cycles; one namespace; local names win; no definition gets another's body; verdict independent of the walk |
| Directory merge (`parser/merge.go`) | merged document, `byFold`, origins, errors | load each file, add each element | verdict independent of file order; nothing lost; honest report |
| Resolver (`parser/parser.go`) | path of references being expanded | `resolve`, `lookup` | ends; sharing is not a cycle |
| Validator (`parser/validate.go`) | list of errors; per scope the `ids` map | one check per rule, recursive over scopes | accepts exactly the rules; reports everything; blames the right field |
| Locations (`parser/parser.go`, `num.go`) | origins | `Locate` | an error names the file it is in |
| Model (`model/model.go`) | the schema under construction | one lowering per field kind, hoisting | every inline type registered once |
| Analysis (`analysis/analysis.go`) | `Named`, `NamedOrder`, `TypeRef.Key/Target`, `DefaultID` | resolve references, bind and split unions, depth cap | no dangling reference, each site its own default, order kept |
| IR walks (`ir/*.go`) | none (path sets) | wire size, decode span, nesting depth, bounds | sizes are upper bounds and end on recursive types |
| Names (`naming/naming.go`) | none | folding, case conversion | injective on accepted names |
| Configuration (`config/config.go`) | defaults, generic and target options | load, `Effective` | precedence |
| Size policy (`generator/maxsize.go`) | configured limit | `Resolve` | MAX_SIZE holds every message; only a configured limit refuses |
| Command line (`cmd/sofabgen/main.go`) | format mode, files, exit code; the output tree | parse, pipeline, format, write | fails closed; exit 0 means written |
| Backends (`generators/*`), what they emit | the message object; the visitor: location, stack, element indices, counters of array elements, sticky errors | decoder callbacks, decode into a used message, edits by the user, reset, serialize | a decoded message holds what its fields mean, and fails where MESSAGE_SPEC says; a written one is minimal and reads back |
| Packaging, CI, harnesses | - | - | outside the scope of models |

How they interact: each stage hands the next one a structure and keeps no
reference to it, with two exceptions the models are about. The importer's file
cache holds the live document it is rewriting, and the analyzer edits the list
it walks. Errors flow back through origins: what the importer and the merge
record about where a definition is written is what `Locate` later prints.

The hazards of the code, each at its line with the properties aimed at it, are
listed in `PROJECT.json` under `hazards`.

## Modules

| module | models | stands on its own as |
|---|---|---|
| `Importer` | `InlineExternalRefs` and the recursion under it | state machine with an explicit call stack |
| `Flatten` | what the importer promises, as a statement about the files | abstract specification, implemented by `Importer` (proved) |
| `Merge` | `LoadDir`, `Merge` | state machine |
| `UnionBinding` | `resolveRefs`, `bindUnionDefaults`, splitting | state machine |
| `Sofabgen` | `run`, `pipeline.Run`, `formatFiles`, `writeFiles`, several runs of one tree | state machine with crashes |
| `IdScopes` | `validateIDScope`, `checkDistinct`, `closed`, the sorted report | state machine, any map order |
| `WireSize` | `wiresize.go`, `maxsize.go` | recursive functions, against what an encoder writes, and a state machine that asks for sizes |
| `Orders` | what `sort.Slice` and `sort.SliceStable` return | operators, used by `UnionBinding` and `IdScopes` |
| `Resolver` | `resolver.resolve`, over any graph of references | state machine with an explicit call stack |
| `Nesting` | `SeqDepth`, `DeepestSeqPath`, `checkDepth`, after `Resolver`; an encoder going into fields | state machine that extends `Resolver`'s; recursive functions |
| `Lowering` | `pipeline.Run` from the loaded document to the frozen IR: `Resolve`, `Validate` (shape and names), `model.Build`, `resolveRefs`; `naming` | state machine, composing the four stages; recursive functions |
| `Wire` | fields, what they mean, an encoder's calls | reference definition shared by the codecs; external |
| `GoCodec`, `RustCodec`, `CppCodec`, `JavaCodec`, `TypeScriptCodec`, `ZigCodec`, `KotlinCodec`, `CSharpCodec`, `PythonCodec`, `DartCodec` | the code one backend emits | state machine, compared with `Wire` |
| `WireCases` | schemas, peers' fields and users' values | instances of the codecs |
| `MC...` | instances for TLC; `MCIrWalks` puts five walks of the generator (it extends `IdScopes`, `Nesting` and `UnionBinding`, and instances the rest), `MCCodecs` the ten codecs side by side | |
| `...Proofs` | theorems and their lemmas | |

Modules hold, next to an operation, altered forms of it marked *Fault*: the way
a plausible mistake would have written it. No specification uses them. Each
property is shown to fail when one of them takes the operation's place
(`PROJECT.json`, `mutants`).

### Importer

A project is a set of files, each a function from keys (kind and name) to
definitions; a definition is a body and its references in the order `walk`
meets them (keys sorted). A reference is a file - `Here` when it has none - and
a key, or a malformed pointer. The text of a reference, paths and display
names are left out; two names are related only by their fold.

`stack` is the recursion: a frame per definition being walked, with the copy
`deepCopy` made and the position in it. A frame at a reference is in `walk`;
`SkipLocal`, `AlreadyDone`, `BadRef`, `LoadFails`, `MissingDef`, `Descend` are
the outcomes of `importRef` up to the recursive call, `MergeEqual`, `Clash`,
`ClaimName` those after it returns. A document's element is rewritten in place
in the code; the model puts the finished frame back at the end of its walk
(`FinishElement`). The two differ only to somebody who reads an element while
it is walked; a reference back to it stops at its `done` mark for definitions,
and for messages no reference exists. The file cache is exactly the field
`Loaded` reads: the document itself for the root - the code puts the live map
there - and the written file otherwise.

`todo` is the set of elements still to be started, messages first, then
definitions, each in sorted order as `sortedNames` yields them (`Rank`).

`Flatten` says what is promised without an order: what is reachable, whether
all of it is found, whether names are ambiguous, and the flat document. Its two
steps are *accept* and *refuse*. They overlap in one case, a reference back
into the document to a name only an import provides, where the code's verdict
depends on the order (see below). Everything else is determined, so
`ImplementsFlatten` says the depth-first, rewriting importer computes an
order-free function.

### Merge

`LoadFile` is one iteration of the loading loop with its error kept; a file is
either broken or a document after its own import and validation. Elements carry
the place they are written, which is another file for an imported one. `Add`,
`KeepOne` and `Clash` are the branches of the closure `add`. Files come sorted
(`DefinitionFiles`), elements by `Rank`; both are inputs here, so every order of
file names is checked.

### UnionBinding

A type object is named by the key it is registered under; a variant by that key
and the option it defaults to. A site is a `TypeRef`. `ResolveRefs`, `Collect`
are one loop each without intermediate states anyone sees; the binding loop is
one step per key of the copied order, as its body edits the original. The
validator's guarantees (a union has options, a `default_id` is one of them) are
the assumption on inputs; dangling references are among them, because the
analyzer checks those itself.

### Sofabgen

`check` walks the stages that only read, from flags to `Generate`; a request
names the first one that fails. The formatter is modelled at the granularity
of one file, as each backend calls its tool; its result stays in memory.
`writeFiles` is one step per file; `WriteFails` and `Kill` leave the file in
hand untouched or torn, since `os.WriteFile` truncates first. `Start` begins
another run over the tree as it was left. Output paths of one run are distinct,
as `TestGeneratedFilesAreDistinct` pins for the backends.

### IdScopes

Fields form a tree; `open` is the recursion of `validateIDScope` through
`validateField`. `Visit` reaches any field of the innermost scope not seen yet:
Go's map iteration. A field's own errors come on the way in, its entry in the
scope's `ids` map on the way out, where the code has it after `validateField`
returned. Each of the ids maps is the part of `kept` under one parent. `Report`
is the stable sort by location (`Orders!StablySorted`), where it ends
`progress`; `Again` validates the same document a second time, to compare
reports. What the instances must give is `ConstantsFit`: the hypothesis of the
theorems, and an `ASSUME` of the run.

### WireSize

`StructWireMax` is the code's walk as a function on its calls: a name, and the
`seen` map with its deferred delete, the names it is inside of. The chain of
`ElemItems` is a list of counts around the innermost element, so `ArrayWireMax` is
one level of it. Both modes share the walk, as in the code. Sums and products are
those of the integers, wrapped to an int64 where the code compares or returns
them, which is the same; `Unbounded` is `ok == false`. `Full` is the reference:
what the corelib encoder writes when every field is present and full, element by
element, or what a peer may send that pads its varints. `HasWorstCase` is the
reference for *bounded*, in terms of the graph of types alone: nothing reachable
lacks a bound, and no reachable types refer to one another in a circle. What the
instances must give is `SizesFit`. `Fits` says of a schema that its sizes stay
in an int64: it is a hypothesis of two of the theorems. An `ASSUME` of the run
`ir_walks` has TLC evaluate it there; `wire_size_wide` runs a schema where it fails.

### Resolver and Nesting

A document is a graph: names, and for each the references in its body. A frame
of `stack` is a call of `resolve`: the references of a value still to be met, in
any order because keys of a map come in any order, and the set `seen` of
references on the path, which each call copies. The reference definition counts
from the outside: some names each refer to one of them.

`Nesting` extends `Resolver`: it gives the bodies their shape, and the analyzer's
`CheckDepth` follows on a resolved document only. A type is a number of array
levels (`rows`) around a scalar, a text or blob, or a struct or union, which is
the chain of `ElemItems` with its end. `SeqDepth` is the recursion of
`seqdepth.go` as a function on its calls - a name, and the set of keys on the path
to it - with -1 for `ok = false`, and `DeepestSeqPath` the chain of fields an error
names. What the count means is said by a third party, an encoder of the same
types: `Enter` goes on into a field and has `Frames` of its type more sequences
open. It runs beside the analyzer and into whatever it may, so that
`DepthIsWhatIsOpened` can compare what the analyzer reported with every point of
every value: an accepted message never has more than `MaxDepth` open, the chain
named for a refused one can be entered, and has as many open as reported.

### Lowering

The pipeline validates one tree and lowers another. `Expanded` is the document
with every reference replaced, `IsSchema` the validator's verdict on it as far
as shape and names go, and `Built` what `model.Build` makes of the document *as
written*: `Fields` and `Def` follow a reference where the code calls `deref`,
`Composite` keeps it where the code calls `refKey`, and any other body becomes a
type of its own, registered under its owner's key. Every part returns the types
it registers with the place that registers them, so that `Claimed` can find two
places under one key. Names are spelled letter by letter, because keys and
identifiers are joined from them and the question is whether a join can be
split in two ways. Fields are functions of their names: sorting is left out, and
so is everything that passes through a field unread.

`ValidatedIsGenerated` unfolds both sides - the expansion, and the IR with its
keys followed - to what they say of names, ids, kinds and constants, and
compares. The stages are steps, so which of them refuses is part of the state:
`DocumentedIsAccepted` says that none does without a reference the
documentation does not give.

### Wire and the codecs

The corelibs and MESSAGE_SPEC are other repositories. `Wire` states what the
emitted code takes for granted of them, in the terms of ARCHITECTURE sections 9
and 11, and is marked external. It has four parts. *Fields*: a message is a
sequence of tokens; a text or array may still be arriving (`Pending`), which is
where a decoder has called with the length and not with all of the content.
*Schemas*: types by name, as the frozen IR has them. *Meaning*: a recursive
reading of the tokens into a value and the first thing wrong - a field of
another wire type is skipped, a struct continues, an array starts anew, the last
option of a union wins, *invalid* is past the schema's bound, *limit* past the
receiver's cap. *Writer*: sequences are opened lazily and may be dropped or kept
empty when they end.

Each codec module is then what one backend emits, without `Meaning`: its own
objects, its own visitor state, its own reset and its own writer calls. A step
is a callback of the decoder with every effect it has in that language:

- `Decoding`: the header of a field, a piece of a payload, an element of an
  array, the end of a sequence - every field a peer may send next, declared or
  not, up to `schema.length` fields;
- `TryDecode` (Zig: `Decoder`): a new decode into the message as it is, also
  in the middle of the last one, or after user code has filled it;
- `Edit`: user code sets fields and chooses options; from there on only what is
  written counts.

| module | how it knows where it is | what it keeps that can go stale |
|---|---|---|
| `GoCodec` | stack of visitors | all slots of a union, arrays re-sliced |
| `RustCodec` | location, stack of fixed length | slots of arrays kept by the last decode, counters of array elements, sticky flags |
| `CppCodec` | pulled: an arm per id, in the scope's object | nothing; a split field is delivered again |
| `JavaCodec` | location number and stack | all slots of a union, counters |
| `TypeScriptCodec` | location, depth of what is declined | arrays and blobs of the last message, until reached or cut at the end |
| `ZigCodec` | location and stack | fill index of a slice, the row placed last, sticky flags |
| `KotlinCodec` | location and stack | the armed destination, slots of a union |
| `CSharpCodec` | pair of a scope and an id | counters of array elements |
| `PythonCodec` | pair of a scope and an id, or no hook at all: a table | slots of the table, until a feed ends |
| `DartCodec` | stack of visitors; storage handed to the decoder | slots of a union, storage half filled |

What differs in what they promise is stated with each `SpeaksTheFormat`, from the
comments of that backend: Rust and Zig judge the cap on the index of a text only
when the payload comes; Rust goes on delivering after a refusal, and a peer's
message that is also invalid later may then be called either; Python's table is
scattered when a chunk ends COMPLETE, so the message is complete then.

## Runs

| run | instance | shows |
|---|---|---|
| `importer` | a document and two files, one missing; one or two references each, names that fold together, two kinds | safety, `ImplementsFlatten`, and that it ends |
| `importer_backref` | as `importer`, where the document is a message that refers to the other two files only | disagreement 1 |
| `merge` | up to three files, two bodies, three keys of one fold, imports from inside and outside | verdict, content, report |
| `sofabgen` | two runs, four versions of the output, every request | exit codes and the tree; a run ends |
| `ir_walks` | five walks, one at a time. *Scopes*: up to five fields in two levels, visited in every order. *Nesting*: documents over all mutual uses of two messages and two definitions. *Lowering*: 3458 documents of two messages, definitions of all categories and aliases; a field in 38 forms, references of right, wrong and undocumented kind, names that meet when joined. *Binding*: two unions and a struct in three orders, four sites with any `default_id`. *Size*: payloads of one or two fields over every kind, counts at varint steps, recursive types | id scopes; circular references and nesting; what is validated is generated, under names that stay apart; union defaults; derived sizes |
| `enum_ref_elsewhere` | one document of two enums | disagreement 7 |
| `id_scopes_report` | the fields of `ir_walks` | disagreement 2 |
| `wire_size_padded` | one string of at most 16 bytes, without caps | disagreement 3 |
| `wire_size_wide` | nested arrays, width scaled to 2^18 for a count limit of 2^8 | disagreement 4 |
| `codecs` | nine schemas, messages of two to six fields, every order a peer may choose | `SpeaksTheFormat` of each of the ten codecs |
| `rust_refused` | a text past a cap, then an array of structs that hold a struct | disagreement 5 |
| `zig_rows` | arrays of arrays of floats | disagreement 6 |

**Bounds and why they are enough.** Importer: an ambiguity needs two sources of
one fold, a back reference a third file, a merge of equals a reference rewritten
on one side only; two files beside the document and two references produce all
of them, and the proofs cover any number. Merge: three files, because blame and
transitivity of "the same definition" need a third. UnionBinding: a split needs
two sites with different defaults, an order fault a type on either side, a
wrong repointing a second union; four sites give a union split three ways and a
site elsewhere. Sofabgen: the second run is the one that finds a tree left by a
failed first (`MaxRuns = 2`); a third finds nothing a second does not, because a
run reads nothing of the tree. IdScopes: three users of one id, two levels.
WireSize: the functions are piecewise linear in counts and lengths, and the
pieces end at 15/16, 127/128; these ends are in the instance. Nesting: a cap of 3
instead of 255, with bodies that reach 2, 3 and 4 by structs, by arrays and by
both; a cycle needs two definitions, sharing a third user. Lowering: every site
that may carry a reference meets every category, a copied field, an alias and a
dangling or circular one; inline types are copied through an alias and through a
payload, and a second message whose name is the first's joined to a part of its
field's is what it takes for a key or an identifier to meet another. Of the documents 576 are frozen, 362 refused by `Resolve`, 1596 by
`Validate`, 888 by `Build` and 36 by `Analyze`. Codecs: the schemas
are split by the rule they are about, so that each can be short - bounds and
defaults (`Leaves`), caps (`Capped`), structs in structs and arrays (`Nested`),
a union with an option of every kind (`Unions`), arrays of arrays (`Rows`,
`FloatRows`), arrays of unions (`Elements`), an option opened, left and opened
again (`Reopened`, six fields), and unions in unions with a text that has a
default (`Options`, six fields). A fault in emitted code needs a header that
arms some state, at most one sequence entered and left, and a field that meets
the state: three fields, and one or two more where what is armed is itself
nested. Bounds and caps are 1 to 3, and lengths lie below, at and above them.
The messages that are decoded into are a full one and every state another
decode can be in.

**Deadlock** is not checked: every one of these machines stops when its work is
done.

**Fairness.** `Importer!FairSpec` is weak fairness of `Next`, and
`Sofabgen!FairSpec` of `Step`: a process that is not killed goes on to its next
statement. Neither assumes anything of the user (`Start`) or of a kill, and
neither says which map element or error comes next. Termination is then a
property of the algorithm: the `done` marks for the importer, the position in
the list of files for the command line.

**Violations.** The seven runs of that kind each check one statement of the
documentation that the code does not keep; they are listed below. The other
five pass.

## Proofs

All theorems hold for every value of the constants under the assumptions the
modules name (`ConstantsAssumption`, `MergeAssumption`, `UnionAssumption` and so
on): what the sets contain, that ranks order keys, that inputs are well-formed
as the previous stage leaves them. `Importer` assumes that a project has finitely
many files and definitions, and that a malformed pointer is the key of no
definition; `IdScopes` that a document is a tree with finitely many fields, each
with finitely many unknown keys, and that fields and locations can be listed in
the order they sort. `Resolver` assumes nothing of the graph; `DepthBounded` speaks of
finite ones. `WireSize` assumes that references have their targets and that there
are finitely many types, which may contain themselves. `Nesting` assumes that a body is a list of field types, that its
references are those of its structs and unions, and that messages are names of
the document; not that it is free of cycles, nor that it is finite.

| module | what it proves | of |
|---|---|---|
| `ImporterProofs` | `TypeCorrect`, `NamespaceSafe`, `OriginsRight`, `MeaningPreserved`, `FlattenImplemented` | `Importer`, and that it implements `Flatten` |
| `MergeProofs` | `KeepsAll`, `OneName`, `OriginsRight`, `Verdict`, `ReportWhole` | `Merge` |
| `NestingProofs` | `CyclesRefused`, `RecursionBounded`, `DepthCapExact` | `Resolver`, `Nesting` |
| `WireSizeProofs` | `CeilingExact`, `MaxSizeHolds`, `SpansBounded` | `WireSize` |
| `IdScopesProofs` | `ValidAccepted`, `DuplicatesAlwaysReported`, `SameAgain` | `IdScopes` |
| `UnionBindingProofs` | `NoStale`, `DefaultsBySite`, `AllBound`, `NeverRebound`, `OrderAlwaysKept` | `UnionBinding` |
| `SofabgenProofs` | `FailsClosedAlways`, `ZeroMeansWrittenAlways`, `OneStyleAlways`, `PrefixWrittenAlways` | `Sofabgen` |
| `OrdersProofs` | lemmas | lists, ascending order, the stable sort, solutions of recursive definitions |

**`ImporterProofs`.** `TypeCorrect`, `NamespaceSafe` (no import shares a fold, no
local name is displaced), `OriginsRight` and `MeaningPreserved` (an accepted document is closed under reference and every definition in it means what its
file says). The last is far from inductive: that everything imported is settled
is false in the middle of a walk. The invariant `IInv` adds what is pending.
`SettledInv`: unless an error was found, a source is settled or still on the
stack or waiting to be started. `StackInv`: each frame is a copy of what was
written, unchanged from its position on and covered before it, and waits at the
reference whose import is the frame above. `NamesInv`: `byFold` and the document
are inverse to each other apart from local duplicates. `UntouchedInv`: what has
not been started is as written, which is why a back reference sees the right
body. `PhaseInv` and `LocalsDone` tie the phases to them. Each action is proved
to preserve each part; the theorems follow by temporal reasoning.

**`FlattenImplemented`**, in the second part of `ImporterProofs`. Two halves. The first is about the files alone: `Reached`,
which `Flatten` computes as a search that is run as many steps as there are
definitions, is the least set that holds the document's own elements and is
closed under reference. That the steps are enough is a count: a step that adds
nothing written is the last to add anything. The second half is about the
importer, and adds `RInv` to `IInv`. While nothing has failed, what is imported
is reachable (`ReachInv`) and nothing imported has a reference left that the walk
would follow again (`FramesInv`, `CopiesInv`): this is where accepting a project
means having reached everything. `DoneInv`, `OriginsDone`: a mark is a written
source or an imported name. `SlotInv`, `FirstInv`, `HoldsInv`: the name table
holds the first local name of each fold and every import its own, so a clash in
the walk is a rivalry in the files. `WrongInv`: an error has its reason in the
files. The refinement then is one case per action: the only ones that are not
stutters are the two endings, and the flat document of `Flatten` is computed from
what `RInv` says of the live one. In the overlap that `Flatten` leaves open - a
reference back to a name only an import provides - both verdicts are allowed
and the document of either is determined.

**`MergeProofs`.** `KeepsAll`, `OneName`, `OriginsRight`, `Verdict` and `ReportWhole`.
The invariant says that unless an error was found every element met so far is kept (`KeptInv`),
`holder` is the inverse of folding on the merged names (`NamesInv`), and a verdict
has its reason (`VerdictInv`): an error implies two elements of two files that
disagree. `Verdict` then needs that agreement of what is kept implies agreement
of the files, which is where the comparison by source and by body meet. For
`ReportWhole` a second invariant rests on the first: every element met so far is
kept or its folded name is blamed (`MetInv`), and two elements that disagree cannot
both be kept.

**`NestingProofs`.** `CyclesRefused`: the expansion looks at one path at a time,
and its verdict is a fact about the whole graph. For *refused*: from every name on
a path, references lead along the path to its last one (`TrailInv`), so meeting
one of them again closes a cycle. For *resolved*: a name is `Finished` if some set
around it is closed under reference and every chain in it ends; such sets can be
put together, what a frame is done with is finished but for the reference it
waits at (`LeftInv`), and a name whose references are all finished is finished
itself. `RecursionBounded` counts: each frame has one name more on its path than
the one below (`CountInv`), so there are no more frames than names and the root.

`DepthCapExact` rests on it. A recursive function is defined by `CHOOSE`, so what
`SeqDepth` returns is known only once some function solves its equations; one
does if each set of arguments has one that needs none of the others
(`RecursionHasSolution`), and in a resolved document, which has no cycle, each
set of names has one that refers to none of them. The solution is looked at where
the path is `Clear` of the name: nothing on it can be reached from the name's
fields. `Clear` holds for a message and is kept from a name to its target
(`ClearBelow`, the one place where a path and the graph meet), so there the
recursion never sees a key twice, a depth is a number, and it adds up from
fields (`ClearField`), the chain from its fields (`ClearPath`). The invariant
`WalkInv` then says of an encoder with some fields entered (`OnTheWay`): what is
open and the depth of the body it is at stay within the depth of the message, and
make it up as long as the fields are the beginning of the chain. Sequences are
compared by what is left of the chain, and the end of the chain is where nothing
is left and so nothing more is counted.

**`IdScopesProofs`.** `ValidAccepted`, `DuplicatesAlwaysReported`, `SameAgain`. The
walk takes any order, so the invariant has to say what does not depend on it.
`ErrsInv`: what has been found is a list, without repetition, of what the fields
visited so far draw from the document, and of one duplicate for each field left
that is not chosen. `Chosen` is what does depend on the order: the fields kept
are one of each id of each scope. `PathInv` and `SeenInv` say where the walk is,
and that what is under a field that was left has been left, so that in the end
everything is drawn (`ReportInv`). The verdict follows because a list is empty
exactly if what it lists is. Two reports have equally many entries because any
two choices leave out equally many fields, and they differ in the duplicates
only. That a report is the errors found, sorted, is a lemma on the stable sort.

**`UnionBindingProofs`.** `NoStale`, `DefaultsBySite`, `AllBound`, `NeverRebound` and
`OrderAlwaysKept`. The
invariant splits the keys at the loop's position (`LoopInv`): behind it, every site of a
union has a target with the default it wants and every type left is bound; ahead,
nothing was touched, so what `Collect` gathered is still true (`SitesInv`) - the
fact that makes it sound to walk a list while editing it. `NeverRebound`, an action
property, needs one more invariant, `Unbound`: ahead of the loop no type has a
default, so a site whose target has one is behind it. `OrderAlwaysKept` needs that the
list holds what is registered, each once, by the place of its key in the schema
and then by its default (`OrderInv`): the splice puts variants that ascend where
one key stood, and leaves everything else in the order it was.

**`WireSizeProofs`.** The state machine only asks; what matters is what the
functions return, for every graph of types. Each is defined by `CHOOSE`, so first
that it exists and steps as written: sums and levels of an array by least
counterexample on a position (`StepwiseExists`), calls because the set of names a
call is inside of grows (`CallsEnd`, `OrdersProofs!RecursionHasSolution`); of the
calls of any set one makes none of the others, which is the induction the rest
uses. `CeilingExact` needs no bound on the sizes: a call without a worst case that
is bare of unbounded parts is one of a name already on its path, and the names of
a path each lead to another of it (`BoundedCalls`); in the other direction the
names with a bounded call are closed under reference, so all that is reachable is
among them, and a circle of them would have a last call (`BoundedNames`,
`WorstCaseIs`). `MaxSizeHolds` and `SpansBounded` compare cost and bytes bottom
up: an index costs its element no less than it writes (`IndexHeadersBound`),
an array no less than its elements (`ArrayBound`, `TypeBound`), a struct the sum
and a union the longest, or the sum when it is received (`CallStep`); with
equality while no index of an element has two bytes, which is what "exact" means
in `maxsize.go`. The comparison of a union's options is where an int64 that
wrapped would turn the order around, which is why `Fits` speaks of all of them
and not of the message alone.

**`SofabgenProofs`.** `FailsClosedAlways`, `ZeroMeansWrittenAlways`,
`OneStyleAlways` and `PrefixWrittenAlways`, for any requests, any lists of files
and any number of runs. None of the four is inductive: they speak of a run that
has ended, and have to be carried through its stages. `PassedInv`: what a run
has passed did not fail, and the mode is the one asked for once it is resolved,
which is what connects the formatter that was spawned to the flag that was given.
`FormatInv`: the files are plain until they are formatted, formatted up to the
position while they are, and when they are written they came by their style in
one of three ways (`Settled`). `DiskInv`: the tree is what the run found until it
writes, and then the files before the position are whole and the others as
found. That distinct files have distinct paths is what makes a write leave the
prefix alone.

**`OrdersProofs`.** A finite set of numbers has exactly one ascending sequence, and
it lists the set; ranks of a stable sort are a permutation, so that sorting a list
of a set gives a list of it. Where these need induction - over the size of a set,
the steps of a search - the proof takes a least counterexample: the
well-foundedness of the natural numbers (from the library) gives it, and each
`CHOOSE` its least element. Nothing else is assumed.

## Disagreements found

1. `external.go:73` - the cache holds the live document although two comments
   (`:139`, `:281`) say "as written": a reference back into the document, written
   in an imported file, to a name the document does not define is accepted if
   that name was imported earlier. In run `importer_backref` the document's
   message names `b`'s `Q` and then `a`'s `P`, which refers back to the document's
   `Q`: the import from `b` is taken for it.
2. `validate.go:216` - the report is not deterministic as the comment at
   `:30-31` says: the duplicate of two fields is whichever the map iteration
   meets second, and errors at one location keep the order they were found in.
   `SameProblems` bounds the damage: verdict, number and kind stay. Run
   `id_scopes_report`.
3. `wiresize.go:134` - the decode span widens values, not "every varint"
   (`:102`). In run `wire_size_padded` the span of a string of 16 bytes is 19, and
   36 arrive when the peer pads its header and its length word; `BoundedWhenItIs`
   says what a span does hold.
4. `wiresize.go:281` - the products overflow for accepted schemas, and the
   derived size no longer is one "the message can never exceed"
   (`maxsize.go:19-20`). Run `wire_size_wide`.
5. `rust/visitor.go:1846` - after an element was refused by a cap the location
   stays on the array, and a sequence inside the refused element is judged as an
   element of it: a message that is valid but for the receiver's caps is called
   invalid, although a refused element is said not to be descended into
   (`:290-292`). Run `rust_refused`.
6. `zig/visitor.go:894` - a bare float inside an array of arrays of floats is
   stored into the row placed last; integers and arrays of a field have the
   guard (`:342-344`, `:638-642`) that rows of floats lack. Run `zig_rows`; the
   schema is the one `MCCodecs` leaves out for Zig.

7. `model.go:361` - the body of an enum or a bitfield that refers to anything but
   a definition is taken literally: `enum: {$ref: "#/messages/a/payload/b/enum"}`
   is validated as the constants it points at and generated as one constant
   named `$ref`. The comment at `:150-153` describes this type as the defect of
   an alias, and `schema/README.md:89` says that a reference for a type must
   point into `$defs`, which nothing enforces. Run `enum_ref_elsewhere`. The
   struct and union bodies of the same form are copied, and mean what was
   validated (run `ir_walks`).

## Only model-checked, and not modelled

Only model-checked, and why:

- `Termination` and `RunEnds`: liveness under fairness is out of the prover's
  reach. Of the recursion of `resolve` its depth is proved to be bounded.
- `BoundedWhenItIs` and `NeverExceeded` where a size leaves the range of an int64:
  they are proved within it (`Fits`), and disagreement 4 is what happens beyond. The
  half of `BoundedWhenItIs` that says when there is a size is proved without it.
- The three properties of `Lowering`: it is recursive over types of any depth, and
  what such a definition computes is an induction over data.
- `SpeaksTheFormat` of the ten codecs: it compares a codec with `Meaning`, which
  is recursive over the message.

Not modelled:

- Of the generator: decoding of YAML and JSON, the value rules of single fields,
  the values that pass from the document to the IR unread, the order of fields,
  rendering of code and documentation, the schemas, packaging, CI and test harnesses. These
  convert data without keeping state; reasons stand with each component in
  `PROJECT.json`. Concurrent runs over one tree are not modelled: nothing is
  promised for them.
- Of the generated code: the C backend, which emits descriptor tables the corelib
  interprets - the control is the corelib's. The no_std and C-library profiles of
  Rust, C++ and Zig, and their fixed capacities. Null where a user may put it
  (Java, Kotlin, C#, Python, TypeScript). Values of floats beyond equality, texts
  beyond *is* or *is not* UTF-8, timestamps and enums beyond their number. The
  emitters themselves - how the text of this code is put together - are
  translated as the behaviour of what they write.

## Plan

In the order of what they would tell us:

1. `Compile`: the composition of importer or merge with `Lowering`, and of
   `Lowering` with `UnionBinding` and `IdScopes`: what `UnionBinding` assumes of
   its inputs is what `IdScopes` rejects. `Lowering` then needs default ids.
2. The fixed-capacity profiles of Rust, C++ and Zig, where a capacity taken from
   the schema replaces a growing array.
3. Proofs: `Lowering` the way of `Nesting` and `WireSize`, its expansion as a
   function on the calls of the resolver.
