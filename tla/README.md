# A verification of short

`short` converts Kubernetes manifests to a terser syntax ("Short syntax", in the
code "koki") and back. This directory holds TLA+ modules that model its code, the
TLC configurations that check them on small instances, and proofs that TLAPS checks
for every instance. `PROJECT.json` lists the runs, the proofs, the lines of code each
definition models, the hazards the properties are aimed at, and the findings.

## Running it

    tlc -config MCImports.cfg MCImports      # and so on for the runs below
    tlapm ImportsProofs.tla                  # and so on for the modules of proofs

## The system

| Part | Code | State it keeps | Operations | Correct when |
|---|---|---|---|---|
| command | `cmd/root_cmd.go`, `cmd/short.go` | flags, documents by file, converted objects, an output buffer | validate, read or load, convert, write, print | output is whole or absent; no error is swallowed |
| client | `client/` | none | loops over documents: parse, reject unknown fields, convert, serialise | one document, one result, in order |
| import system | `imports/` | a tree of `Module`s with evaluated flags, params, exports | `Parse`, `EvaluateModule`, `EvaluateImport`, `EvaluateExport`, resolvers | every import has its own params; values do not depend on the order of evaluation; recursion ends unless the files are circular |
| template | `template/`, `AtPathIn` of the vendored `jsonutil` | none | `ReplaceAny`, `ReplaceString`, spreads, path lookup | every hole replaced or an error |
| parser | `parser/` | none | streams to maps, maps to typed objects, extraneous fields | what is accepted is a known kind without unknown fields |
| kind dispatch | `converter/koki_converter.go`, `parser/native.go` | none | choose the converter by kind and apiVersion or by key | a manifest converted once can be converted back |
| converters | `converter/converters/` | none | one pair of functions for each kind | no information lost |
| selectors, affinity | `parser/expressions/`, `converter/converters/affinity/` | none | expressions to strings and back | parse is the inverse of print |
| Short types | `types/` | none | volumes, ports, env and others to strings and back | parse is the inverse of print |
| pager | `pager/` | lines read, window, search, mode | key events, lazy reading, wrapping search | indexes in range; search finds the next line, and ends |
| util | `util/floatstr` and others | none | a number or a text | prints what it has read |
| yaml, version, debugging | `yaml/`, `cmd/`, `imports/debug.go` | none | helpers | not modelled |

The command reads either Kubernetes manifests (converted by `client` document by
document) or, with `--kube-native`, Short files, which go through the import system
first. The evaluator calls `template` to fill holes, `template` calls back a resolver,
and the resolver calls the evaluator again for an import that has not been evaluated:
evaluation is lazy and mutually recursive. An import's `RawToTyped` is the parser's
`ParseKokiNativeObject`. The dispatch chooses a converter for each document. The pager
is a separate library that displays a text.

What is hard about this code is not concurrency: everything is one goroutine. It is

* Go's map order, which decides in what order holes are filled, hence in what order
  imports are evaluated, which of two keys of a declaration is the import's or
  param's name, and in what order files are printed;
* mutable flags and maps behind pointers (`IsEvaluated`, `Params`), written in the
  middle of a recursion that reads them;
* recursion without a test for cycles;
* loops of several steps any of which can fail after others have succeeded;
* indexes computed from three lengths that change as input is read (pager), and modes
  of a key loop that earlier keys have set;
* tables of kinds, versions and enumerations kept in several places that must agree;
* structures that are written as texts and split again, where a part that is missing,
  empty, or contains the separator becomes another part;
* lists that become maps, and structs that are merged into one JSON object.

`PROJECT.json` lists these as hazards, each at its line.

## Modules

| Module | Models | Kind |
|---|---|---|
| `Imports` | import system, `loadKokiFiles` | state machine |
| `LocalFiles` | `ResolveImportLocalPath` | operators |
| `Loader` | what `loadKokiFiles` promises | abstract specification |
| `Template` | template, `AtPathIn` | operators |
| `Short` | command and client loops, over `Loader` | state machine |
| `Kinds` | dispatch, heads of the converters, as repeated runs of short | state machine |
| `Text` | strings as tokens, objects as fields; what the converters do with both | operators |
| `LabelSelectors` | `parser/expressions`, `RSSelector` | operators |
| `Workloads` | selectors and template labels in the bodies of the converters, as repeated runs of short | state machine |
| `Services` | container ports, Service and Endpoints in the types and the converters, as repeated runs of short | state machine |
| `Volumes`, `PersistentVolumes` | `types/volume.go`, `types/persistentvolume.go` and their converters | operators |
| `Placement` | affinity converter, node selectors, tolerations | operators |
| `Containers` | containers, env, mounts, probes, actions | operators |
| `Pods` | the body of the pod converters, over the four above | operators |
| `Policies` | PodSecurityPolicies, webhooks, roles and bindings, autoscalers | operators |
| `Controllers` | controllers, claims and budgets, with strategies, embedded structs and statuses | operators |
| `Resources` | the kinds without pods: certificates, definitions, secrets, events, ingresses, initializers and others; presets and templates of pods | operators |
| `Manifests` | repeated runs of short on any kind of the six above | state machine |
| `Pager` | pager | state machine |
| `Window` | what a reader of the pager sees | abstract specification |
| `ImportsProofs`, `PagerProofs`, `ShortProofs`, `KindsProofs`, `ServicesProofs`, `WorkloadsProofs`, `ManifestsProofs` | | proofs |
| `SequenceFacts` | | lemmas the proofs share |
| `MC...` | | instances for TLC |

Operators introduced by "A variant:" are altered forms of the definition that follows
them, each with a plausible mistake. Nothing uses them in the specification; putting
one in the place of its original must make TLC report the property that `PROJECT.json`
names for it.

### Imports

The recursive calls of `Parse` and of `EvaluateExport`/`EvaluateImport` are the explicit
stacks `pstack` and `estack`, so that a call, a return and the filling of one hole are
steps. A `*Module` is an index in `mods`; `IsEvaluated` of a module is membership in
`DOMAIN exports`, that of an import is membership in `impEvaluated`; `Params` of an
import is `applied` once it has been overwritten. A hole is filled by the param of its
name, or by the first import of its name, which is evaluated first if it has not been.
`MaxDepth` is the stack Go has room for; exceeding it (`overflow`), an index out of
range (`panic`) and an error return (`error`) are the ways to fail.

| Action | Code |
|---|---|
| `LoadFile`, `CollectRoot`, `NextFile`, `Finish` | `loadKokiFiles` in `cmd/short.go` |
| `ParseImport`, `ReturnToImport` | `parseImport` before and after its call of `Parse` |
| `ParseComponent`, `ReturnToLoad` | the loop of `Parse`; its return to the command |
| `EvaluateRoot` | call of `EvaluateModule` for a file of the command line |
| `Resolve` | `ResolverForModule`, called for a hole |
| `ApplyParams`, `ReturnFromImport` | `EvaluateImport` before and after `EvaluateModule` |
| `EvaluateExport` | `EvaluateExport` when all holes are filled |

Holes are filled in any order. The code's order is partly fixed (list items, holes
within a string), so the model has all its behaviours and some more. Within a string
the code fills the remaining holes after one has failed: a file on which the model may
fail with an error or a panic may always panic in the code. Neither matters to the
properties, which do not distinguish the ways to fail.

### Template

`ReplaceAny` follows the code and is a recursive operator. `Imports` needs the holes
one by one (its constants `HolesOf`, `FitsHole` and `FillWith`), so `Template` also
splits the code into `Holes`, `Fits` and `Fill`, their values in `MCImports`; the run
`template` checks that filling in any order gives what `ReplaceAny` gives.

### Short

`cmd` and `disk` are the inputs. Documents are opaque, and operators say whether one
parses, has unknown fields, converts and can be serialised. Files that are loaded with
imports are loaded by a step of `Loader`, whose promise `Imports` is checked to keep.
`fileDatas` is a map: a file named twice is converted once, in any order among files.

### Kinds

A document is its apiVersion, its kind (or Short key) and the names of the metadata
fields that are set. Every kind has an entry with what its rows in the two dispatch
functions, its parser and its two converters say: the versions read, the versions that
can be written, the default, and the version that all others are converted by way of.
A step is a run of the program. The bodies are left out, as is the key `volume`, which
`DetectAndConvertFromKokiObj` returns unconverted.

### Workloads

A document is a selector and what concerns it of the pod template: its labels, whether
there are annotations, whether there is a pod. A label map may be nil, empty or not, and
the code tells these apart. A shorthand selector is the sequence of its segments, so
joining and splitting at `&` is left out and the rest of printing and parsing is not:
operators, lists of values, the empty value that `Split` returns for no value, the order
of labels. There are four groups of kinds: ReplicaSet, Deployment, DaemonSet and
StatefulSet (`controller`), which are serialised and parsed again before they are
converted; Job, which is not; ReplicationController; and PodDisruptionBudget and
PersistentVolumeClaim (`selecting`), which have no template. The operators of the model
return the set of possible results, which is empty when the run fails. Keys and values
have no `&`, `=`, `!` or comma in them, as labels do not. PodPreset, whose selector cannot be
missing, is in `Resources`. The selectors themselves are in `LabelSelectors`, which the affinities
and the webhooks use too.

### Services

Ports are written as text in three places, with three parsers: the `expose` list of a
container, the ports of a Service and those of Endpoints. A text is its prefix before
`://` and the segments between colons; a number is its decimal digits. Printing and
parsing are modelled by which segment means what, which are optional, and which texts
the regular expression accepts; a prefix it does not accept is one more segment. A named
port is a map, whose entries `InitFromMap` applies to one port in any order while it
ignores their errors: `ServicePortInit` therefore returns what is left of the port as
well as whether it succeeded. Of a Service, the fields that decide something (type, name,
affinity and its timeout, traffic policy, ingresses) are themselves and those that are
copied are two sets of names. The addresses of Endpoints are copied and opaque. Numbers
too large for their type, a protocol without slashes (`tcp:80`), and an `expose` item
that is a map with none or several entries are left out.

### Manifests, and what it is made of

`Manifests` is a chain of runs of short: each is given what the one before wrote, in either
syntax. A conversion is an operator that returns the set of its possible results: empty for an
error or a panic, several where Go's map order decides. Two conventions of `Text` make
printing and parsing short to state and still what the code does. A string is the sequence of
its tokens, the separators the code splits at among them, so `Split`, `SplitN`, `Join`,
prefixes and escaping work as they do on characters, and a name may contain a separator. A Go
struct is a function from the names of its fields that are set; `Renamed` and a table of JSON
tags are its marshalling, with `omitempty`.

* **Volumes, PersistentVolumes.** A table (`Forms`) has for each type of volume the fields
  that are segments of its text, those that are keys of an object, and those the code refuses
  to be without; the types whose text has rules of its own (git, flocker, vsphere, azure file, gce,
  claims, config maps with their items, downward API, projected) have operators of their own.
* **Placement.** One list of items in Short stands for six in Kubernetes: hard and soft, of
  nodes, pods and against pods. The items' texts are parsed by position.
* **Containers.** Arguments (`util/floatstr`), environment, mounts, resources, actions and
  probes with their URLs, security contexts.
* **Pods.** `convertPodSpec` moves the security context of a pod into each container and
  merges host name with subdomain, account with its flag, and three flags into `host_mode`.
* **Policies.** The tables of PodSecurityPolicies, the list of webhooks that is a map in Short,
  rules and services as texts, subjects and roles with escaped names, targets of autoscalers.
* **Controllers.** Strategies, templates, claims, statuses and conditions. The structs that a
  Short type embeds are one JSON object: of two fields of one name the one nearer to the top
  is written and read, and the other is lost (`Inlined`).
* **Resources.** Twelve kinds are tables of tags and enumerations that two general converters
  (`ConvertFields`, `RevertFields`) interpret; ingresses, initializers, presets
  and templates have their own, the last two made of those of `Containers`, `Volumes`,
  `LabelSelectors` and `Pods`. The endpoints in the status of an ingress are texts of addresses or
  host names (`convertLoadBalancerIngress`); what `net.ParseIP` accepts and how an address is
  printed is a table (`Addresses`) of two addresses in four forms.

Heads (apiVersion, kind, metadata), selectors and ports of the same documents are in `Kinds`,
`Workloads` and `Services`.

### Pager

`v` is the `ViewBuffer`. A key event and the drawing that ends it are a step; the loop
of `SearchFromLine` is a step for each line it looks at. `ScanUntil` is the loop of
calls of `scan`. The number of lines, the window's height and the page are
independent. Colours, and terminals with a negative number of text lines, are left out.

## Runs

| Run | Checks | States | Result |
|---|---|---|---|
| `imports` | `TypeOK`, `OwnedOnce`, `Isolated`, `OverflowOnlyOnCycle`, `MatchesReference`, `FailsOnlyWithCause`, `EvaluatedIsFinal`, `LoadsInOrder`, `Termination` | 12,370 | hold |
| `template` | `StepwiseIsReplaceAny` | 38,706 | holds |
| `short` | `TypeOK`, `AllOrNothing`, `FailsWithCause`, `Termination` | 16,086 | hold |
| `kinds` | `RoundTrips`, `AcceptedForGood` | 1,900 | hold |
| `workloads` | `KeepsMeaning`, `Settles`, `FailsAtOnce` | 159,575 | hold |
| `services` | `KeepsMeaning`, `ComesBack`, `Settles` | 431,865 | hold |
| `manifests` | `VolumesKept`, `PersistentVolumesKept`, `PlacementKept`, `ContainersKept`, `PodFieldsKept`, `WebhooksKept`, `AccessKept`, `ControllersKept`, `ResourcesKept`, `FailsForACause`, `Settles` | 32,742 | hold |
| `pager` | `TypeOK`, `NeverPanics`, `ViewIsFull`, `IsWindow`, `FindsNext`, `FoundIsShown`, `SearchEnds` | 148,820 | hold |
| `goes_back` | `GoesBack` | | violated |
| `named_port` | `NamedPortAsPort` | | violated |
| `node_selector` | `NodeSelectorIsKept` | | violated |
| `pull_policy` | `PullPolicyKept` | | violated |

**imports.** For three files that import each other in every direction, two of them on
the command line: no two imports share a module (`OwnedOnce`), an import sees only its
own params (`Isolated`), values are written once (`EvaluatedIsFinal`), and whatever the
order of evaluation an evaluated file has the value that a definition without flags
and stacks gives it (`MatchesReference`), failing only if it has none
(`FailsOnlyWithCause`). The stack runs out only where files import each other in a cycle, or
the params of a file's imports need each other in one (`OverflowOnlyOnCycle`).
`LoadsInOrder` is the refinement of `Loader`.

*Bounds.* A main file that uses two imports in each of seventeen ways (of one file with
different params, one computed from the other, mutually, from themselves, hidden by
params, unused but broken, lists, undeclared params, malformed declarations), eleven
libraries (params with and without default, ambiguous names, further imports, cycles,
malformed, without a section, unreadable) and three auxiliary files. An import chain
without a cycle is at most three files, and an evaluation at most two frames a file, so
`MaxDepth` 8 is reached by cycles only. (The bound under which this is proved below is met
too: the files of the instance have at most seven sections and imports.) A third import of one file would meet the same
flags as the second.

**template.** Every string of up to three parts, lists and maps of up to two such items
and one level of nesting, for every choice of two values from a string, a number, lists,
a map, a template-like string and none.

**short.** Every argument list of up to two, file list of up to three with a repetition,
both directions, an output in each format, one of them in capitals, and an unknown one; and files whose first, second or only document fails in
each step. Two files are the least that can be out of order.

**kinds.** All kinds in all versions, in versions that are registered but not
converted, unknown or missing. The state space is closed: runs are repeated for ever.

**workloads.** A manifest the API server would accept selects after a trip what it did,
and its template has the labels it had (`KeepsMeaning`). Any manifest, the unacceptable
ones included, is in a normal form after one trip (`Settles`), and what short has written
it can read (`FailsAtOnce`).

*Bounds.* Two keys and three values, one of them empty, so that labels can be equal,
included, overlapping and disjoint; two expressions in a selector, so that two can meet in
one key and one can become a label that another has set; every operator, one unknown and
none; no, one and two values. Unsatisfiable selectors are excluded from `KeepsMeaning`:
`a=1` and `a in (2)` together are read back as `a=2`, since the last label counts.

**services.** A manifest the API server would accept comes back from Short
(`ComesBack`), the same but for defaults (`KeepsMeaning`), and from then on exactly the
same (`Settles`). All three except what a port in Short does not keep: a UDP port
whose target is a name, of which the run `named_port` shows what becomes, and the address of
a host, which `revertExpose` parses and does not copy.

*Bounds.* Two port numbers and zero, so that port, target and node port can be equal or
different; one IPv4 address and `::`, which prints as empty segments; up to two ports, in
every form alone and in the usual forms together; in Short every text of up to three
segments (number, name, address, empty) after no prefix, a known one, one in capitals and
an unknown one, alone and two in one map. A text with four segments is refused for
the same reason as one with three. Services of type ExternalName with other fields, and
load balancer fields in other types, lose these in the code; Kubernetes ignores or
refuses them, and they are not counted as acceptable.

**manifests.** A Kubernetes manifest comes back from Short as what it was, for every part
of it that Short has a place for, and a text for that reads as nothing else: the predicates
`VolumeFits`, `ContainerFits`, `PolicyFits` and so on, which name every exception. What is
compared is what a manifest means: which nodes a pod may run on and how much it prefers them,
which requests a webhook is called for, which user a container runs as, whether the pod or the
container says so. `FailsForACause` says that short does not refuse what it wrote itself unless
one of these exceptions applies, and `Settles` that what short has written does not change when
it is converted again: what a trip loses, the first one does.

*Bounds.* One part of a manifest varies at a time, the others are blank; no converter relates
parts other than those that vary together here (the security contexts of a pod and its
container, node selector and affinity, pairs of fields that share a text). For every type of
volume: no field, each field alone, each two, all and all but one, with a separator in each
field, and every value of an enumeration with one that is unknown; in Short texts of up to five
segments. Two volumes or files of one name and of two. Up to two terms of each sort of
affinity, with every operator and weights 0, 1 and 5. Handlers with and without host, port,
path and headers. Three webhooks and two initializers of equal and of different names, rules
with no, one and two members in their lists, resources with and without a slash. Names of up to
three tokens with colons and backslashes. Of a controller each field alone and all of them, every
strategy with every set of options, and fields that share a name in Short in every combination.
Presets with every variable, source of variables and mount of the containers, every selector of
the affinities, and two volumes; templates with no, one or all of their metadata and fields.
Every container alone and as an init container before a blank one. Two endpoints of an ingress, with
each way to write an address, none and one that is not valid, beside each of four host names.
Runs are repeated for ever; the depth of the state space, 8, shows that documents stop changing.

**pager.** Eight texts of up to seven lines, windows of 0, 1, 2 and 5 lines and a page
of 2, so that a text, what is read of it, a window and a page may each be the longer.
`MaxToken` 2, a slash and one character, occurs in no, one or several lines; the prefix
is all that is compared. `FoundIsShown` is stated for windows of two lines or more: with
one, the code shows the line above the result.

Deadlock is not checked where the program ends.

### Fairness

short is one goroutine that never waits for another: weak fairness of `Next` in
`Imports` and `Short` says that it keeps running. In `Pager` only the search loop is
fair; keys may stop coming.

### Findings

* `goes_back`: the parser makes an `APIService` of the key `api_service`, the dispatch
  converts `APIServiceWrapper`: no APIService can be converted back.
* `named_port`: short writes `udp://53:dns` for a UDP port with a named target and cannot
  parse it. For a port without a name that is an error; for a named one the error is
  ignored, and the port becomes TCP port 0.
* `node_selector`: a pod with a node selector and required node affinities must satisfy both.
  Short has one list, of which the documentation says that one hard item is enough;
  `convertAffinity` appends the selector to it, and the pod may run on more nodes.
* `pull_policy`: `convertPullPolicy` writes `never` for `IfNotPresent`.

The models also show smaller divergences, for which there is no run. They are visible in
the definitions named here.

* The documentation says that every import name can be used for templating. Params are
  looked up first, and of two imports of one name the first (`Resolve` in `Imports`).
* Metadata other than name, namespace, cluster name, labels and annotations (finalizers,
  for instance) is dropped silently (`Copied` in `Kinds`).
* The selector of a ReplicationController is not converted: the code expects it to be equal
  to the labels of the template; one with fewer labels is legal, and comes back with all
  of them (`RevertRC` in `Workloads`).
* The documentation gives `UDP://...` as a container port; the regular expression
  knows small letters only and the port is refused (`MatchesProtocol` in `Services`).
* The documentation says that the protocol of a port of Endpoints defaults to TCP; without
  it the port is refused (`revertEndpointPort` in `Services`).
* The documentation says of a param without a default that it must be given a value when the
  module is imported; only a hole that names the param fails (`WithDefaults` in `Imports`).
  An import of a file without a section panics (`ReturnToImport`).
* The types say of a missing selector that it has the same effect as in a
  ReplicationController, which keeps the labels of `pod_meta`; the other controllers drop them
  (`revertRSSelector` in `LabelSelectors`).
* The address a container port is bound to is parsed and not copied (`revertExposed` in `Services`).

In `Volumes` and `PersistentVolumes`:

* a colon in a path or a name is misread, or refused where there is one segment;
* a Flocker dataset given by name comes back as one given by UUID, and a vSphere policy ID
  without a policy name is lost;
* the mode of a file that does not have three octal digits becomes part of its key;
  projected sources lose `optional`;
* a claim whose second segment is not `ro` panics;
* the error of an unknown phase is not tested: the status is lost without a word.

In `Placement`, `Containers` and `Pods`:

* the documentation gives 1 as the default weight of a soft node affinity, the code 0 (and 1
  for pods); terms without expressions or without a selector are dropped;
* a toleration with an unknown effect is refused on the way back only;
* arguments that read as numbers change: `0644` to `644`, `1000000` to `1e+06`; `inf` is
  refused. The same goes for the numbers of a PodDisruptionBudget;
* an HTTP handler without a host is given `localhost`; the port of an action becomes a string;
  a query of an action is dropped and that of a probe is escaped once more on every trip;
  headers with a colon in their value are refused; a probe without a handler panics;
* a sub path named `ro` is read as read-only; resources other than CPU and memory, the
  apiVersion of a field reference, the container and divisor of a resource reference, and
  `automountServiceAccountToken: false` are lost;
* init containers are not given the security context of the pod, and statuses of containers
  are lost (they are set in a copy).

In `Policies`:

* the test for SELinux options names the role twice and the type never: options that have only a
  type are lost; `MustRunAsNonRoot` cannot go back;
* a webhook service without a path panics and a path with a colon is cut; a rule for one
  subresource loses it and its operations; a selector that cannot be parsed is dropped; of
  the operations of a rule that is a list in Short only the first counts;
* a role reference without a group, and an autoscaler's target with a colon in its name, are
  refused on the way back.

In `Controllers`:

* start deadline and history limits of a CronJob are documented, and not converted to Short;
* of fields that share a name in Short one hides the other: `activeDeadlineSeconds` of a job
  and of its pods, `replicas` of a StatefulSet's spec and status, access modes and capacity of a
  claim and of its status;
* an unknown strategy of a Deployment or a DaemonSet becomes a rolling update, and an unknown
  `pod_policy`, access mode or phase is dropped;
* a template without a field is refused on the way back.

In `Resources`:

* a rule of an initializer that has several groups is written as one text and misread; so is
  one without a group for a subresource. A rule with no version or no resource is not valid
  JSON, and one with several makes `MarshalJSON` call itself without an end. Initializers
  without rules are dropped;
* a certificate request with extra fields panics, in both directions (a nil map);
* a series of events without a state, an ingress rule that is not for HTTP, an endpoint of an
  ingress whose address is not one, and on the way back an ingress backend without a service name
  are refused;
* an endpoint of an ingress or a load balancer that has both an address and a host name loses the
  name, and a host name that is an address comes back as one.

## Proofs

TLC checks the above for the given files, texts and kinds; the following hold for all. The
assumptions are `ASSUME`s of the modules, and TLC evaluates them on the runs.

**ImportsProofs** (`TypeCorrect`, `ModulesAreOwnedOnce`, `ImportsAreIsolated`,
`EvaluationIsFinal`, `OverflowNeedsACycle`, `ImportsImplementLoader`). Assumed: files are sequences of sections whose
import paths resolve to paths, `Filenames` is a sequence of paths, the empty name is a name,
and the stack has room for a call (`FilesAssumption` to `DepthAssumption`). Nothing is assumed
of templates: `HolesOf`, `FillWith`, `FitsHole` and `AtPath` are arbitrary. The first three
invariants are not inductive alone. That the module `Parse` is about to hand to an import is
not owned yet is a fact about the frames of `pstack`: `ParseInv` says that the modules and
imports held by the frames are distinct, owned by no module, and in order. That `applied` of
an import still equals the `params` its module was evaluated with when the import is marked is
a fact about `estack`: `EvalInv` says that a frame below the top is an import with its params
applied or waits for one, that the calls are nested along the imports, and that a module has
params or an export only if its one owner has applied its own. `OwnedOnce` is what makes that
owner unique. The conjunction of all five is `Inv`, proved an invariant action by action;
`EvaluatedIsFinal` follows for each step from `Inv`: a frame writes an export or the params of
an import only if they were not there.

`OverflowNeedsACycle` is a pigeonhole argument. `DepthInv` adds to `Inv` that a module is made
of a section with all of its imports, and that the stack has run out only when it is full. A
call of the evaluator is known by the section of its module and the number of the import it
is for: on a stack that is longer than there are sections and imports in the files, two calls
are alike. If they are of different modules, a file is evaluated inside itself (`ImportCycle`);
if they are of the same, the calls between them need each other (`ParamCycle`), which `EvalInv`
tells of neighbours. The hypothesis `DeepStack` says that paths and calls are finite and fewer
than `MaxDepth`. Without it the statement is false, since a chain of imports may be as long as
one likes; the instance satisfies it, and so do the stack of a gigabyte that Go allows and files
as they are written.

`ImportsImplementLoader`: every step of `Imports` is a step of `Loader` or a stutter. `OrderInv`
adds to `Inv` that a call of `Parse` holds the modules of the first sections of its file, that the roots are those of the whole file, and that the results are the sections
of the files before the one being loaded and of this one as far as the loop has come.

**PagerProofs** (`PagerTypeCorrect`, `SearchNeverPanics`, `WindowIsFull`,
`PagerImplementsWindow`, `SearchFindsNext`, `FoundLineIsShown`). Assumed: lengths of texts and
heights are naturals, and the page is positive. `Contains` and the keys are arbitrary. The
inductive invariant adds to `TypeOK` that the window is full and in range also between the
steps of a search (`Full`), that a mode has a token (`Modes`, for `Backspace` and `Enter`),
and where the search loop is relative to its stop (`Loop`, which bounds the index). For the
refinement, lemmas say what each scrolling function followed by `CurrentView` does to the
window, and each event is mapped to a step of `Window` or to a stutter. For `FindsNext` the
invariant has to say which lines the loop has already passed, before and after it has wrapped
around, and that none of them contains the token (`SearchInv`).

**ShortProofs** (`ShortTypeCorrect`, `PrintsAllOrNothing`, `ErrorsHaveACause`). Assumed: a
command names files by a sequence, and a file of a disk is unreadable or a sequence of
documents (`CommandsAssumption`, `DisksAssumption`). What a document is, and which parse,
convert and can be serialised, is arbitrary. `ShortInv` says at every step of the three loops
what has been read, converted and written, as the flattening of the documents of the files
done and the part done of the current one, and that none of these has a fault. That a map of
files is visited in an order in which each occurs once is part of it.

**KindsProofs** (`ConversionsRoundTrip`, `ConvertedIsAcceptedForGood`). The table of kinds is
the code's; the scheme `IsRegistered`, the metadata fields and the documents are arbitrary, the
latter of the shape `DocsAssumption` gives them. A lemma for the rows of the table (`Row`) says
that keys and kinds name one row each and that a kind writes the versions it reads; `KindsInv`
says what a document is, given what the first one was and the row that it was taken for.

**ServicesProofs** (`ServicesKeepTheirMeaning`, `ServicesComeBack`, `ServicesSettle`). Port
numbers, addresses, names and the lengths of all lists are arbitrary. Assumed: numbers,
addresses, the empty text and zero are different (`SegmentsAssumption`), the empty text and
`Nil` are none of the words of the two syntaxes (`WordsAssumption`), and documents have the
shape of their types (`DocsAssumption`). Lemmas say of each text what parsing makes of what was
printed (`PortBack`, `ContainerBack`, `EndpointBack`), for one entry of a map by its fold
(`IsFold`), and that it has nothing left to a default (`Normal`). `ServicesInv` is what the
invariants need of the past: a document is the first one or normal (`DocsInv`), and it is a
result of converting `kube` or of converting that back (`History`).

**WorkloadsProofs** (`WorkloadsKeepTheirMeaning`, `WorkloadsSettle`, `WorkloadsFailAtOnce`).
Keys, values, labels, and the numbers of labels, expressions and values are arbitrary, and so is
the order in which labels are written. Assumed: there are finitely many keys (they are bounded
in length) and the empty string is a value (`LabelsAssumption`), `Nil` is none of the things it
may stand for the lack of (`NilAssumption`), documents have the shape of their types
(`DocsAssumption`), and a key and values without an operator between them read as a key
(`JoinedAssumption`). The argument has three parts. A shorthand is the labels in some order and
then the expressions (`IsShorthand`), and parsing it yields the labels and expressions of its
segments (`ParsedLabels`, `ParsedRequirements`). A *normal* selector, with no expression that is
a label in disguise and no empty map, is what its shorthand is parsed to (`NormalAgain`,
`NormalTrip`). Of any other, the parsed selector matches what the segments ask for, provided
that something satisfies them all, for then no label overwrites a different value of its key
(`ParsedMeaning`, `ValidTrip`): this is where validity is needed. `WorkloadsInv` says that what
was written is normal in Kubernetes syntax and can be parsed in Short (`DocsInv`), how it was
made of the document before (`History`), and that the selector of a ReplicationController is
gone after a trip (`NoSelectorOfRC`), without which `Settles` is not implied.

**ManifestsProofs** (`AccessIsKept`, `WebhooksAreKept`, `PodFieldsAreKept`). The rules, subjects, selectors and plugins of a role, a
binding, an autoscaler or a PodSecurityPolicy are of any number, and names, texts, keys and
values are arbitrary. Assumed of the manifests that the first run is given is what the API
server accepts (`AccessAssumption`): they have the shape of their types, groups, kinds and
namespaces are without colons and backslashes, and kinds without dots; a key and values of a
selector without an operator between them read as a key (`KeysJoin`). No list of selectors is
`Nil` (`NilListAssumption`). Texts are sequences of tokens, and the argument is
one of reading back what was written: what `SplitAt` does to a text in which the separator was
put between two parts, that a name with its colons and backslashes escaped is read as the name,
that translating a word there and back with a table of distinct words is the identity, for a
single field and for the list of fields of an embedded struct. Selectors of an aggregated role
go back by `WorkloadsProofs`, instantiated for no documents. `AccessInv` says that a document
has the kind of the first one, that one in Kubernetes syntax stands for the first
(`AccessBack`), and that one in Short syntax is a result of converting the one in `kube`, which
stands for the first. To stand for it is to be equal to it for bindings and autoscalers, and to
grant the same for the others: a role may come back with another selector that matches the same
labels, and without an empty list.

For webhooks `AccessAssumption` also says (`IsWebhook`) that an operation is a word without `/`
and `|`, and that the namespace and the name of a service have no `:` and `/`. The names of the
webhooks are arbitrary, and two may be the same; groups, versions, resources and paths are
limited by `WebhookFits` only, as in the run. Short writes a rule as one text of four parts and a list of webhooks as a map by name.
The argument goes from the text outwards. Splitting a text that was joined of parts without the
separator gives the parts (`SplitJoin`, `JoinBack`). The operations are then read as ones that mean the same, the service
as itself, and the selector as one that matches the same labels, by `WorkloadsProofs`. An entry
of the map is the last webhook of its name, and `AccessBack` says of what came back that it has
the same names, in any order of the Go map, and that the last webhook of a name stands for the
last one that had it (`HooksBack`): a trip may reorder the list, and drops the earlier of two
that share a name.

Of pods `PodAssumption` says (`IsPod`) that the version is there, that a field that is there is
not empty and a flag is set, that host name, subdomain and account are texts, and that no address
or name of a host alias has a space; values, names, conditions, registries and
aliases are arbitrary, and of any number. `PodFieldsFit` is the condition of the property, as in
the run: no dots in a subdomain, for `subdomain.hostname` is split at the first; no colon in an
account; an alias has an address and names. The argument is again one of reading back. `FieldsBack`
is about any two tables of names and of values that agree: fields that are translated, renamed,
mixed with fields of other names, renamed back and translated back are what they were, and it
serves policies and pods. The host name and the account come back from a text each
(`HostnameBack`, `AccountBack`), the flags from a list (`HostModesBack`), an alias from its text
by `JoinFirst` and `JoinBack`. `PodInv` is `AccessInv` for pods: one in Kubernetes syntax has the
fields of the first (`SamePod`), and one in Short syntax is a result of converting such a one.
The fields of a pod's security context are not among them: the first trip moves them to the
containers, and that is a matter of `ContainersKept`.

**SequenceFacts.** What `FlattenSeq` returns is needed for all sequences. The library's
induction theorems take an operator; `InductionOnSet` says the same of a set of numbers, from
the well-foundedness of the naturals, and serves for every recursive function.

**Only model-checked.** `Termination` and `SearchEnds` (liveness); `StepwiseIsReplaceAny`,
`MatchesReference` and `FailsOnlyWithCause`, whose references are recursive operators; the
properties of `Manifests` but `AccessKept`, `WebhooksKept` and `PodFieldsKept`, for which see the plan.

## Not modelled

Text: YAML and JSON encoding (`yaml/` is an adapted copy of a library for it), error
messages, logging, colours, `TrimToDepth` and the debugging output of imports, the version
command. Vendored code: the Kubernetes types and the scheme (what `Kinds` needs to know of it is
its constant `IsRegistered`), `net/url` but for what the handlers use, and quantities.

One kind is modelled by its head only: APIService, which cannot come back at all (run
`goes_back`). Of a PodTemplate, and of the templates of controllers, the fields are modelled and
not the volumes, containers and affinity, which are converted as those of a pod. Of a Kubernetes
manifest that no Short field stands for, and that the converters do not copy, nothing is
modelled: it is lost.

## Plan

Done, in this order: `Imports` with `Loader` and `Template`; `Pager` with `Window`;
`Short`; `Kinds`; the proofs of the first two; `Workloads`; `Services`; `Volumes`,
`PersistentVolumes`, `Placement`, `Containers` and `Pods`; `Policies`, `Controllers` and
`Resources`, all run by `Manifests`; the proofs of `Short`, `Kinds`, `Services`, of the search
of the pager and the refinement of `Loader`; those of `Workloads`, and of `AccessKept`,
`WebhooksKept` and `PodFieldsKept` of `Manifests`.

Next, proofs of the other properties of `Manifests`: `PlacementKept` can use what is proved of
selectors and of `SetToSeqs`, and `ControllersKept` what is proved of a pod's fields; then volumes and
containers, whose texts have more forms.
