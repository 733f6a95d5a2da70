# Verification of forensic-deepdive

`forensic extract` turns a repository into a knowledge graph, a search index and
a set of Markdown artifacts; an MCP server, an interactive shell and a local web
view answer questions from them, and agents leave what they learn in a memory
beside them. This directory holds TLA+ models of the parts of that program whose
correctness depends on order, failure, sharing, limits and rules that have to fit
together, the TLC configurations that check them on small instances, and TLAPS
proofs of what matters most for every instance. All paths below are relative to
`src/forensic_deepdive/` of the repository (PROJECT.json names them from the root).

Run a check with `tlc -config Extract_resume.cfg Extract`, a proof with
`tlapm ExtractProofs.tla`.

## 1. Inventory

| Part | State it keeps | Operations | Why it is hard | What makes it correct |
|---|---|---|---|---|
| Extract run and run cache (`pipeline/extract.py`, `cache.py`) | `.forensic-deepdive/last_run.json`, artifacts in `--out`, graph and search index | hash, hit test, run the phases, record | killed at any point, files edited under it and read several times, `--force`, another `--out` | a hit means a finished analysis of the files hashed |
| Phase runner (`pipeline/runner.py`) | execution order, context of outputs, timings | build (sort), run with seeds | repeated, unknown and cyclic dependencies; failures in the middle | order sound and stable; every run ends |
| Pipeline phases (`pipeline/phases.py`) | outputs of each phase | inventory, parse, static, contracts, flatten, history, build graph, emit | wipe and refill in place; several artifacts | all or nothing is recorded |
| Parse cache (`static/parse_cache.py`) | entries by content hash, manifest | get, put, write_manifest, parallel parse | shared by extracts; files read twice; crashes in a write | a warm run returns what a cold one does |
| Agent memory (`insights/`) | JSONL log, SQLite recall index, git shadow ref | record, recall, push | one server per client, no lock; torn appends; crash in a rebuild | what was recorded is recalled |
| Graph store (`graph/`) | database file and its write-ahead log | connect, upsert, query, close | deleted and refilled in place while others have it open; Windows keeps open files | a graph is of one extract; readers see a whole graph or know why not |
| MCP server (`mcp_server/server.py`) | a store per call | impact, context, flow, trace, query, visualize, record, recall | cyclic graphs, caps, an extract underneath | answers bounded, and complete up to the caps |
| Interactive shell (`cli/interactive/`) | a store kept over commands | questions, tools, extract | replaces the graph it holds | sees its own extracts, is not in its own way |
| Local web view (`serve/`) | a store per request | graph payload, static files | threads; caps and filters | a payload names only what it contains |
| Diagrams (`emit/mermaid.py`) | none | four kinds of diagram | slices that leave room for a node | says what it leaves out |
| Query (`query/`) | the search index | lexical tiers, structure, fusion, shaping | scores multiplied in turn | a hit by name is above the others |
| Contracts (`contracts/base.py`, `reconcile`) | per-run lists of endpoints and calls | extract, reconcile, join | one endpoint known twice | a link is as sure as its tier says |
| HTTP providers (`contracts/http/providers/`) | declarations of a repository | routes of FastAPI, Flask, Express, Spring, NestJS, Flask-AppBuilder, JAX-RS, Django | prefixes over several files, paths that are computed, locators and includes that go in circles | what a framework serves is what is found |
| HTTP clients (`contracts/http/consumers/`) | none | eight extractors of the calls of nine clients | one call in several shapes | a call is read alike by all who claim it |
| gRPC, dispatch, MCP and messaging extractors | none | keys of stubs, registries, tools, channels | names derived in several ways, caps | what belongs together has one key |
| Name resolution (`static/resolver.py`, `imports.py`, with the naming of `tags.py`, `inheritance.py`, `injection.py`, `persistence.py`) | indexes of symbols | resolution ladders, import paths of eight languages | evidence falls through step by step; four extractors name one place | an edge is as sure as its evidence; a site lands on its symbol |
| Registry (`registry.py`) | `~/.deepdive/registry.json` | load, register, save, prune | several processes; a torn file reads as empty; one name for several paths | what every update has seen is kept |
| Editor shims (`emit/shims.py`) | generated files at the repository root | write, refresh | releases, hand edits, kills, a look before a write | a file of the user that was seen is not rewritten |
| Artifact emitters, history, inventory, static queries | none beyond a run | pure functions of their inputs | volume, not order | not modelled |

How they interact: the extract run calls the runner, the runner the phases; the
parse phase uses the parse cache, the build phase the graph store and the search
index, the emit phase writes artifacts and shims; the run registers the
repository. Server, shell and web view read the graph that runs replace. Nothing
takes a lock of its own; processes meet on disk. PROJECT.json lists the hazards
that follow, each at its line with the properties that would catch it.

## 2. Modules

A module is modelled after the part of the code it names, at the grain at which
others can see it: a run, a server or a phase is a process with a program counter,
a step is what another process or a crash can come between. File contents are
version numbers or model values: nothing below depends on what is in them.

**Files and processes**

| Module | Models | State ↔ code |
|---|---|---|
| `Extract` | one repository and the runs over it | `lastRun` = last_run.json, `store` = graph and index, `art` = artifacts per output directory, `pc` = where a run is; `unread`, `taken` = the passes over the files: the parser, then each contract extractor, then the row of a file, each reads them for itself, one at a time; `Hash … WriteLastRun` are the steps of `run_extract` in its order, `Abort` a kill or an exception |
| `ParseCache` | ParsePhase and the cache | `entry` = the cache directory, `manifest`, `seen` = pass 1's hashes, `result` = ParseResults; an entry is found by the hash in its name and says itself of which content and language it is, which `Get` compares |
| `PhaseRunner` | PipelineRunner | `indeg`, `ready`, `ordered` of `_toposort`; `outputs`, `timed` of `run` |
| `DependencyOrder` | what the runner promises its phases | implemented by `PhaseRunner` (`OrderSpec`) |
| `InsightLog` | log, recall index and shadow ref, and the calls on them | `log`, `cut` = the JSONL lines and whether the last one lacks its newline; `index`, `newer` = insights.db and the comparison of modification times; `ref` = commits; `asked`, `written` = what record calls were made for, and what they appended on a line of its own |
| `InsightStore` | what the memory promises: `Ask`, `Learn`, `Answer` | implemented by `InsightLog` (`StoreSpec`): `learned` = `written` |
| `Participants`, `GraphFile` | who shares the files; the graph file | `files` = contents by file number, `db`, `wal` = the names, `handle` = open stores: an unlinked file lives on for its handle on POSIX and cannot be unlinked on Windows; `index` = the search index |
| `Registry` | the registry | `registry` = the file (or `Torn`), `loaded` = what a process has read; `NameOf` = the last part of a path, by which an entry is known and replaced; `owed` = what it must still list |
| `Shims` | files for editors and agents | `text` = nothing, the user's without or with our mark, torn, ours of some release, or ours with edits; `targets` = the loop of `write_shims`, `aim` = the file it is at: `Choose` (is it there?), `Inspect`, `Empty`, `Fill` are steps of their own |
| `Workspace` | composes the four above: extracts, server calls, web threads, shells, `list --prune`, a user | `pc` = where a command is; `run` = its extract and options; `answer` = what a query read; `recorded` = last_run.json fits the sources |

`Extract` and `Workspace` both have the run, for two questions: what it computes
when files change under it, and what it does to those who use its files.

**Building the graph**

| Module | Models | State ↔ code |
|---|---|---|
| `Contracts` | ContractPhase, the joins of `contracts/base.py`, the contract rows of BuildGraphPhase | `code` = the sites found; `providers`, `consumers`, `links` = the lists of the phase; `endpoints`, `handles`, `calls`, `routes` = the rows; one action per function that rewrites a list |
| `AmqpTopic` | `amqp_binding_matches`, `amqp_match_kind` | the regular expression as the set of word sequences it accepts, beside the broker's own rule |
| `SymbolNames` | the names four extractors give to a place of a file | a place = the classes and functions around it |
| `ImportPaths` | `_resolve_import_to_file` | `Asks` = the candidate paths of a language in order, `Target` = the first file that fits |
| `Resolver` | `resolve_calls`, `resolve_method_calls`, `resolve_name_to_files` | `SameFile`, `Imported`, `Elsewhere` = the steps of the ladder |
| `GraphBuild` | BuildGraphPhase: wipe, resolution, rows, batched writes, index | `rows` = the lists it assembles, `nodes`, `edges` = the database, `written` = batches in it |
| `HttpPaths` | `contracts/http/normalize.py` and `join_path` | a path = its tokens; each `re.sub` is an operator, in the order of the code |
| `Mounts` | FastAPI, Flask and Express providers | mounts by variable name over all files, then routes |
| `Controllers` | Spring, NestJS, Flask-AppBuilder and JAX-RS providers | how each joins a class and its methods, and what a path that is computed counts as; locators followed to a depth |
| `UrlConfs` | Django provider | includes by module and by variable, DRF routers, views that are no names, what is a root |
| `ClientCalls` | the eight extractors of HTTP calls, for nine clients | which shapes each claims, the verb and path it reads |
| `Channels` | gRPC, dispatch, MCP and messaging extractors | identities, keys and caps |
| `Extractors` | composes the last six | `repo` = a repository as far as one kind of extractor looks at it, `found` = what it finds |

**Reading the graph**

| Module | Models | State ↔ code |
|---|---|---|
| `CodeGraph` | rows, their order and LIMIT, and name lookup | an edge = both ends, a confidence and the number of its row: a call has one row for each place it is made at; rows of one name come in any one stored order |
| `Traversals` | impact, context, flow, trace of the server | `walk` = the breadth-first loops, `stack`, `results` = the depth-first one; a turn of a loop is a step |
| `GraphPayload` | `serve/graph_api.py` | the rows of each edge type, focus, filters, `CapNodes`, `CapEdges` |
| `Diagram` | `emit/mermaid.py` and the searches that feed it | Python slices, negative ends included |
| `Ranking` | `query/nl.py`, `query/lexical.py` | tiers, reciprocal ranks, boosts and factors in millionths |
| `Queries` | composes the last four | one question about one graph |

`MC*` are instances for TLC, `*Proofs` hold the theorems, one module per component.
An operator marked "Mutant" is a plausible slip in the definition it stands
before; PROJECT.json names the property it breaks, which shows that the property
is about the code.

## 3. Runs

| Run | Shows | Distinct states |
|---|---|---|
| `resume` | Files edited between any two of the times a run reads them and runs killed anywhere, no content coming back, no `--force`: a hit is a finished analysis of the files it hashed, in one content each (`HitIsCurrent`), a recorded run left one run's analysis, of the contents on record unless a file has moved on (`RecordedRunIsWhole`) | 7 829 482 |
| `forced` | Violated: a `--force` run killed after the wipe leaves the old record and artifacts, and the next run hits over no graph | - |
| `shared` | Two extracts, two languages of the same bytes, kills, failed writes, an entry that is spoiled or has the name of another: warm = cold (`WarmIsCold`), what was hashed has records under its own path and language (`NothingDropped`) | 3 176 019 |
| `runner` | Default phases in both orders and 1025 small lists, every set of seeds | 881 920 |
| `memory_alone` | One server, torn appends, kills outside the build of the index: index fresh when it looks so (`IndexFresh`), what got a line of its own is in every later answer (`StoreSpec`) | 80 805 |
| `memory_heals` | Two servers, kills anywhere, torn appends: a record call that runs alone leaves a complete index (`Heals`) | 600 253 |
| `contracts` | Every choice of a few HTTP, gRPC and AMQP sites, OpenAPI operations and symbols in the graph | 92 816 |
| `graph` | 1302 small repositories, each built by a run that is killed anywhere and started again after an edit | 38 557 |
| `queries` | Every question of a few shapes about small graphs with cycles, self-calls, calls made at several places and routes | 446 722 |
| `workspace` | Twelve casts of extracts, server threads, a shell, a prune and a user, on both platforms, with kills | 826 558 |
| `advised` | Violated: the run that reported stale shims is repeated with `--refresh-shims` as it advised, is a cache hit, and refreshes nothing | - |
| `extractors` | A family of small repositories for each kind of extractor: what a framework serves or a broker delivers, and what is found | 317 436 |

Properties that state one thing in several parts are one definition:

- `RunIsSound`: phases run after what they need, ties in declaration order, a
  reported cycle is one, phases find their inputs, timings are exactly what ran.
- `CertaintyIsEarned`: two handlers make a link ambiguous and nothing makes it
  sure again, a specification does not make its own handler ambiguous, an EXTRACTED
  route has an unambiguous literal on both sides.
- `CallsAreRouted`: a call whose handler is in the graph has its route, and no edge
  lacks an end.
- `KeysDecide`: an AMQP link joins nobody to whom a broker delivers nothing; the first
  sites of one exchange in two functions are linked where it delivers, but for one shape
  of binding. What it leaves out is `MatchesAreLinked`, below.
- `BuildIsConsistent`: only members of types declared in another file are lost,
  nothing of a killed run stays, co-changes are what the TOUCHED_BY edges say.
- `NamesLandRight`: inner declarations shadow outer ones, relative imports are found
  where the language looks, an import that decides keeps coincidences out, injection
  lists every implementation, sites land on their symbol.

What `workspace` shows needs its qualifications, which are the code's: rows under a
graph's name are of one extract from the first batch on (`GraphOfOneExtract`: of
two extracts at once, one fails on the other's keys, on a lock, or fills a file that
has lost its name); a query that sees less opened its store while the graph was
missing (`AnswersAreWhole`, for up to two extracts on one graph); a shell sees its own extract if nobody else
extracts the repository (`OwnExtractIsSeen`) and is not kept out by its own store (`NotInItsOwnWay`, on
Windows the reason why commands hand it back). `RegistryOwes` says which entries of the
registry are kept: one that every update under way has loaded, until a repository of its
name is registered, its graph is found gone, or a process dies alone in a save; an update
that had not loaded it takes it away. `UserTextIsKept`: what a command found without our
mark it leaves alone; between its look and its write a file can be put there, and is
overwritten.

`queries` compares walks with reachability, which is defined without the loops:
`ImpactIsReach` and `TailIsReach` (trace) say that each symbol is told once, at its
distance, with the surest edge, and that none is missing unless a cap was met.
`FlowIsFaithful` says it of paths, but a path is told once for each choice of the places
its calls are made at, since the graph has a row for each and flow tells rows; and the
caps count rows. `PayloadIsSound` and `UncutIsComplete` do so for the web view,
`DiagramIsHonest` for diagrams of two nodes or more (a class may have its members on top
of its own node; the most called symbols are as many as were asked for if any is missing,
and none of them is called less than one that is left out), `NamesFirst` for the query, as
long as the pool of the first stage holds every name hit: one that is cut from it
and found again beside an exact hit comes without its bonus.
`Returns`: every question is answered.

`extractors` puts a statement of what a framework, a client or a broker does
beside what the code collects: `KeysAgree` (a route and a call have one key
exactly if their parts are alike, in whatever notation), `ServedIsEmitted`
(mounts), `MethodsAreServed`, `ResourcesAreReached` (locators), `RoutesAreServed`
(includes), `CallersAgree`, `CallsMeetServices`. `NamesMeet` is two statements. `KeysMeet`:
a literal key meets every handler that is known to be registered under it, and else only
one whose key is computed, which the extractor takes for the function's name; a computed
key meets handlers up to `FanoutCap`, and misses one only if so many registrations of
handlers it meets stand at or before it. `ToolsMeet`: a tool is met by its very name, and by names
of the same words. `ChannelsMeet` has a statement of what a broker does in three
values: `Comes` (a message is known to arrive), `MayCome` (it may, as names are computed),
and neither; a link needs the second, and the first makes one, unless an earlier call
of either function names the exchange. Where
the code is right only under a condition, the condition is in the property: one
slash between a prefix and a path, paths that are literals, one path for a Spring method,
mounts whose names are unambiguous, views that are names.

### What does not hold
Each of these is stated in the modules, and ends in a counterexample when the run
of the last column is given the setting before it. Those whose text the code or
its documentation gives are findings when a run checks them.

| Property | Why it fails | Setting | Run |
|---|---|---|---|
| `HitIsCurrent` | two output directories share one record | `OutDirs` of two | `resume` |
| `HitCoversAllInputs` | history, specifications or tool version change, files do not | as it is | `resume` |
| `OneReading` | the parser, each contract extractor and the row of a file read it for themselves, and an edit in between puts two of its contents into one graph | as it is | `resume` |
| `WarmIsCold` | an edit between pass 1 and the worker files new records under the old hash, for every later run | `MidRun = {c1, c2}` | `shared` |
| `LookupNeverFails` | an entry that is not UTF-8 ends the run | as it is | `shared` |
| `SavingNeverFails` | `mkdir` and `mkstemp` stand before the `try`: "a failure here must never break extract" is not so | as it is | `shared` |
| `IndexFresh` | a kill between creating insights.db and committing leaves an empty index newer than the log, which no recall rebuilds | `KillPoints <- Anywhere` | `memory_alone` |
| `IndexFresh` | two servers rebuild at once and leave an index without rows | two `Procs` | `memory_alone` |
| `RecordedIsKept` | the append after a torn one continues its line, and both are lost though the call reports success: `insights/jsonl_store.py:96-98` says "the affected line is lost but the rest is recoverable" | as it is | `memory_alone` |
| `BadLinesAreSkipped` | a line torn inside a character makes every later record fail | as it is | `memory_alone` |
| `RefKeepsHistory` | two pushes, one commit lost: `insights/shadow_ref.py:45-46` has it that "the ref keeps a history" | two `Procs` | `memory_alone` |
| `MatchesAreLinked` | of two bindings of one subscriber, or two keys of one publisher, on one exchange the second is deduplicated away before it could match; of a binding with two # in a row the regular expression wants a dot no message has (`KeysAreDecided` shows that one which starts so and goes on to a word is the only one: `Repeats`) | as it is | `contracts` |
| `BareMappingsStillJoin` | a specification that names the verb hides a verb-less handler from its callers | as it is | `contracts` |
| `LexicalScope` | a function inside a method is named like a member, and takes the calls of a module-level function of its name | as it is | `graph` |
| `SitesAreLinked` | a handler inside an app factory, or a class inside a Java class, has one name as a symbol and another as a site, and its edge is dropped | as it is | `graph` |
| `PathsAreToldOnce` | a function that calls another at two places has every path through the two told twice | as it is | `queries` |
| `CapIsKeptAndTold` | a class box has its node on top of `max_nodes` members, which `cli/app.py:523` calls a "Node cap"; the diagram of the most called symbols never says that it was cut (`:572`) | as it is | `queries` |
| `EveryExtractIsListed` | of two extracts that end at once, or two repositories with one name, one is lost: `registry.py:3-4` "records every repo that has been analyzed" | as it is | `workspace` |
| `HandEditsAreKept` | an edited shim keeps the mark, and a file of the user's may contain the word; both are rewritten by `--refresh-shims`, of which `cli/app.py:109` says "hand-edited files are never touched" | as it is | `workspace` |
| `ComputedPathsAreDropped` | a method whose path is computed is shown at the path of its class, though `spring.py:8` and `nestjs.py:15` have it dropped | as it is | `extractors` |
| `EveryRouteIsShown` | a Django route whose view is a lambda or wrapped has no endpoint, though `django.py:41-43` promises an unmatched one | as it is | `extractors` |
| `HandlersFillTheCap` | `registrations.py:252` says that handlers are deduplicated; a handler registered on two lines counts twice, and another is missed below the cap | as it is | `extractors` |
| `ExactFirst` | a name that contains a word outranks the exact one by the role of its file, which query/nl.py:112-116 rules out | as it is | `queries` |

### Seen on the way
Where the code and its words, or two parts of the code, differ in what the models
take as it is. None of these has a run of its own.

- A declared route with a number in it keeps it (`contracts/http/normalize.py:95`), a
  call's number is always a parameter: the two never meet. `${BASE}/users` is read as
  a path that begins with a parameter.
- Routers of one variable name in different files share their mounts; a router that is
  included in a router loses the outer prefix; a computed `url_prefix` of Flask falls
  back to the blueprint's own; Spring joins a prefix and a path without a slash as they
  are, and of several mappings of one method takes the last path for all verbs. Django configurations that include each other in a circle have no root and
  emit nothing, and JAX-RS drops the application's path when there are several.
- `$.get({url})` and `this.http.get({url})` are claimed by two extractors each, so
  that one call is two contracts.
- A Python stub (`.pyi`) is parsed, and no import finds it (`static/resolver.py:623-640`).
- A call in the body of a class goes to a top-level function of its name, although the
  class has a member so called: at `static/resolver.py:397` there is "no class to look
  inside of". A call in a method of a class inside a function is looked up in a
  top-level class of the same name. A class that is given an interface to inject loses
  the edge when the only implementer is a nested class of Java (`pipeline/phases.py:852-878`).
- An abstract class of TypeScript has its parents read (`static/inheritance.py:175`) but
  is not among the declarations of `static/tags.py`, so its edges have no start and are dropped.
- A registry key that is itself `"*"` is taken for any key; `contracts/dispatch/normalize.py:26`
  says that `*` is no valid id.
- A gRPC module that is imported by its package and the same one imported relatively
  are two services.
- A message published to an exchange in a variable under a literal key is taken for one
  to the queue of that name. A decorator whose key is computed, and a tool whose name is
  computed or given by position, go by the name of the function.
- A shim torn by a kill is nobody's, and stays.
- A query that opens the graph between wipe and connect creates an empty one, which
  the extract then fills; a shell that asks while another process extracts puts the old
  graph and the new index together.
- `truncated` of the web view is silent about seeds and co-changes cut before the
  caps. The comment of `serve/graph_api.py:415-416` has parallel edges of two
  confidences ruled out by the store; the store keeps both, and the payload drops one.
- Diagrams of zero or one node slice from the end. A file that imports a module twice has
  two IMPORTS edges (`pipeline/phases.py:679-690` keeps both) and the module twice in its
  diagram.
- Three extracts of one graph at once can leave a log of one beside the file of
  another; a reader that opens them sees rows of two. With two threads of one server
  among them, which share what they have open, even the rows under the name can be.

### Bounds, and why they suffice
- `Extract`: one process, two files, three contents, two artifacts. A mix of old
  and new needs two files or artifacts, or two readings of one file; "content that comes
  back" needs two contents, "another in between" a third. One output directory.
- `ParseCache`: two files, two contents, two processes, two languages, so that one
  content has two keys. `Misnaming`: an entry of the second file's language may get the
  name of another content, once it is there, so that what an entry is called and what it
  says of itself differ. One build of the parser: `get` does not compare an entry's
  parser version with its own, the name alone tells builds apart.
- `PhaseRunner`: three phases suffice for every shape of cycle with a bystander;
  the eight real ones are checked as declared.
- `InsightLog`: two insights, at most three lines (`MaxLines`) and two commits
  (`MaxCommits`): one line before a torn one, and one after it. `memory_heals` has two
  lines and no commits, since what it asks about are the log and the index.
- `Contracts`: one HTTP path with an id for a verb and the verb-less one, one rpc,
  one exchange with bindings and routing keys of up to three words; two calls, two
  handlers, one specification: ambiguity needs two handlers, the fallback a verb-less
  one, each reconciliation a specification beside a handler.
- `GraphBuild`: a repository is one of a family for each thing that is resolved:
  Python modules with a package and a second root, a callee declared in any of
  several scopes and files, calls of it from a method, a class body, a class inside a
  function and a scope that is no symbol, ten ways of importing it; Java classes and an interface
  in one or two packages, up to two of them injected at one place, the one an
  implementation of the other or nested; FastAPI handlers of a module, a class and an
  app factory; an abstract class of TypeScript; one import in each language with a decoy
  beside the target; three commits over two sources and a file that is gone, with a
  threshold of two. The families do not interact: a label is resolved from its own
  inputs, except injection from inheritance, which are in one family. `MaxRuns` = 2:
  what a third run finds, the second found.
- `Workspace`: eight actors, of whom up to three play at a time: an old and a new
  release, a second repository, a third with the name of the first, two threads of one
  server, a shell and a prune. Two batches make a graph that is half there; one shim, at
  which two commands or a command and a user meet between any two steps; `MaxEdits` = 1 a
  change between any two steps. A shell has up to four commands: extract, ask, extract, ask.
- `Queries`: all call graphs on three symbols with sure, unsure or both edges, all on
  four with sure ones (for flow, those where the last symbol calls the first only), and
  self-calls: the smallest with a cycle and a way around it; on three symbols, some calls
  are made at two or three places.
  The caps are small enough to be met and to be missed: three matches and rows, one
  sibling, two callees, four paths, a bound of three in trace, views of zero, two,
  four and nine nodes, diagrams of two to four. `RrfK` is the code's 60, since the
  property rests on its size beside the boosts.
- `Extractors`: paths of up to three parts in every notation; applications of three
  files, whose routers have one name or two; one controller with two methods, or one with
  two annotations, and six ways to write each path, a computed one among them; three JAX-RS
  classes with `MaxSubresourceDepth` 1, so that the depth is reached; three Django
  configurations that lead to each other in every way, with views that are no names; a
  registry beyond its `FanoutCap` of two, keys that are `*` and handlers that are
  registered twice among them; a tool named in each way; one client call; two publishes
  beside a subscription, and two bindings, with exchanges that are literals, variables or
  absent.

Symmetry is used over processes and contents (cache, insights), which no definition
tells apart, and only in runs without liveness properties. `shared` has a VIEW
without the manifest, which no guard reads and no property mentions.

### Fairness and deadlock
Two runs have a liveness property. `Ends` of `runner`: weak fairness of the whole
next-state relation, since one thread runs phases that return or raise. `Returns` of
`queries`: weak fairness of the walk's steps, since a call runs in one thread and each
turn of a loop is a bounded query; that the loops end is what is checked. Elsewhere
processes may be killed or idle, and nothing is promised to happen. Deadlock checks
are off because commands end and calls return.

## 4. Proofs

Every theorem is for all values of the constants, within the assumptions the
component's module names. Each component's `TypeCorrect` comes first; the workspace's, below, has none.

- **ExtractProofs** (one run at a time in one output directory: `OneRun`, `OneDir`).
  `RecordedRunWhole`: a recorded run left the artifacts, graph and index of what it has
  read in its three passes, and without reverts of the very contents on record unless a
  file has moved on since it was hashed; edits may fall between any two of its readings.
  `ResumableHits` and
  `SettledHits`: a hit is current, under the environment of `resume`, and under one
  with reverts, `--force`, deleted artifacts and history changes between runs that
  nothing disturbs. A hit compares a fingerprint taken now with one taken
  by some earlier run, so the invariant has to say what the record on disk is
  worth while later runs are part of the way through: as long as last_run.json
  holds a fingerprint that can still match, what a run has wiped it has read
  newer content for (without reverts), or it has been followed to its end
  (without aborts). The invariants follow a run step by step: what it has read,
  then which stores, then which artifacts hold its snapshot.
- **ParseCacheProofs** (any number of processes). `NeverDropped` with files changing;
  `FaithfulCache` (an entry has the records of what it says it is of, by the parser its
  name stands for) and `WarmRuns` without edits in the middle of a run, for any number of
  parser builds, and entries that are spoiled or misnamed. The invariant
  ties what a worker parsed to what pass 1 hashed: equal as long as the tree rests.
- **PhaseRunnerProofs** (any list of phases). `SoundOrder`, `StableOrder`,
  `RealCycles`, `ExactProduction`, `InputsThere` (phases read what dependencies
  reach), together `SoundRuns`; `RunnerImplementsOrder`. The invariant counts: an
  in-degree is the number of mentions of phases not yet emitted, so it is zero
  exactly when all dependencies are in the order, repeated names included.
- **InsightLogProofs** (any number of servers). `RecordHeals` needs only a clock
  that tells two writes apart: its invariant `Tracked` follows a call that nothing
  overlaps through the rebuild, from files in any state. `FreshIndex` (one server,
  no kill between creating and committing the index) from `Solo`: an index nobody is
  writing is whole, and complete unless the log is newer. `LogImplementsStore`: then, with
  appends torn in every way, a step asks for one insight, learns the one it has appended on
  a line of its own, answers one server, or is invisible to `InsightStore`. Its invariant
  `Kept`: such a line is in the log for good, and what is readable there somebody asked for;
  an append can only add to the last line, and only when that was cut off.
- **ContractsProofs** (any repository whose sites of an id in a symbol are found one
  after the other). `KeepsAmbiguity`, `SureDocumentation`, `SureRoutes`, together
  `EarnedCertainty`; `HandledCalls`, `EdgesHaveEndpoints`, together `RoutedCalls`. The
  invariant follows the pipeline: `Reconciled` says that before the join an id has one
  provider for each handler, marked when a specification describes it, and an unlocated
  one only if nobody handles it; `Linked` that links are what the join made of these,
  AMQP ones pruned, and that consumer, provider and id tell links apart; `GraphInv`
  what rows were made of them. None of the properties is inductive alone: each
  reads lists that an earlier step rewrote. `KeysAreDecided`
  (`KeysDecide`): no AMQP link joins what a broker would not, for any keys and any number of
  sites, and between the first sites of an exchange none is missing unless a binding starts
  with two `#` and goes on to a word (`Repeats`). The
  regular expression is a set of sequences, the broker's rule a function of two
  positions, so the proof goes word by word. Assumed: `CodebaseAssumption` (what a site
  is) and `IdAssumption`: a key is a finite sequence of words, an http id has a verb-less
  one, and the mark for no symbol is none.

  The extractors share the module. `ScannedAlways`: what is found is what the
  repository has (`Scanned`), so the properties are statements about operators.
  `ChannelsAlwaysMeet`: a link is of one exchange and of keys that are equal or unknown, so
  a message may come; a first call is not deduplicated away, so its key is there to be
  compared. `CallsAlwaysMeetServices`: the module path of a stub is a
  sequence from which directory, package and module can be read back.
  `CallersAlwaysAgree`: of nine clients that could claim one call, each pair is shown to
  claim different shapes or to read the same off it. `KeysAlwaysMeet` (the registry half of
  `NamesMeet`): a site of unknown key meets the first `FanoutCap` registrations of a strict
  order, whatever the cap, so the handlers that are missed stand behind that many. Assumed: `ReposAssumption`,
  that what is a list in the source is a sequence, and a dispatch has at most one literal key.
- **GraphBuildProofs** (any repository, history and threshold, any number of runs).
  `NoOtherRowIsLost`, `NothingIsLeftOver`, `CoChanges`, together `ConsistentBuild`;
  `PreciseCalls`; `Candidates`, `GivesWay`, `PlainSitesLinked`, `ImportsDecideCalls`,
  `RelativeImports`, `NamesAreShadowed`, together `NamesLand`. Lemmas first say what
  each step of the ladder returns (`BareFacts`,
  `ReceiverFacts`); the invariant `Inv` then follows a build: the store is empty until
  the first batch, the rows are those of the repository with both ends among the
  nodes (`RowEnds`), and the store holds exactly the first `written` batches
  (`Stored`), the edges among them cut down to those whose ends are nodes. A stored
  edge is thus a row, and a row is lost only for want of an end. `CoChanges` is a
  bijection between commits and their hashes. For injection, `InjectRows` and
  `InjectOrigins` tie the rows to the classes that implement the type, and survive that
  rows without both ends are left out only together. For the rest of
  `NamesLandRight`, `Resolved` says for calls, heritage, injection and tables that the rows
  which join two symbols are all those the resolver made: a property of where a call
  lands needs that nothing is missing as much as that nothing is wrong. Under it stand
  lemmas on the names of `SymbolNames` (two plain places of one file have two names, four
  extractors one name for one) and on the candidates of an import, of which the first
  that exists is taken. Assumed: `RepoAssumption`, that files are listed once and what is found
  in a file has a place in a source.
- **WorkspaceProofs** (any actors, repositories, casts and number of batches, both
  platforms). `UserTextKept` from `Aimed`: a command that is about to empty or fill a file
  has found nothing there or a text with our mark, whatever releases, kills and edits came
  before and come in between. `NobodyInItsWay` from `Hands`:
  a command holds a store only where its `pc` says so, so what refuses it is
  another's; a shell that waits for a tool has given its own back. `OwedIsListed` from
  `Ledger`: what is owed is in what every update under way has loaded, and in the file
  while it is whole, so whoever saves next saves it. Assumed: `RepoOf` maps actors to repositories, none of which is
  called as the two marks for a torn and for an unread registry (`RegistryAssumption`);
  a cast gives each actor a number of commands (`CastAssumption`).

  `GraphIsOfOneExtract`: `GraphOfOneExtract`, for casts in which no two actors on one
  repository share a process (`Apart`). The property is about two names; its invariant
  is about every file that a name or an open store still reaches. `Numbered` and
  `Parted`: numbers are given once, and belong to one repository. `LogsSound`,
  `NamesSound` and `StoresSound`: what can still be reached is of one extract, alone
  and together with the log it would be opened with. `Alone`: a file has one writer,
  because an open file is locked against every other process. `Writers`: who fills a
  file has put its first batches there and nobody else has, or will fail on a key or a
  lock. Without `Apart` the statement is false, from four extracts on: threads of one
  process are not kept out by its own lock. The runs' casts have no such overlap.

  `OwnExtract` and `LoneAnswers`: what a query sees of a graph that one actor extracts,
  in any process, once or often, is whole, and its own if it is the one that asks. The
  first is `OwnExtractIsSeen`; the second is `AnswersAreWhole` for at most one who extracts
  a repository, the case of a user with one shell (a command run after one that was
  killed is another actor's, and beyond them). An answer depends on when its store
  was opened, so the invariant `Lone` follows files and not names. `Seen`: what a store
  opened on a whole graph holds is a whole extract, no log that would join it has rows,
  and it is not the file that is being filled. `Kept`: as long as no removal is on the
  list `wiped`, the named file is the last extract that ended. `Fresh`, `Filled` and `Stays`
  follow an extract: it finds nothing, has put its first batches in, and then what has
  the name is its own, unless the graph was removed after it was opened (`Later`).
  `Logged`: only the log of who fills has rows, or that of who died, which no extract
  is there to come after. `Own` and `Indexed` tie the shell's store and the index to the
  last extract it ended. Most steps are alike for this purpose: `LoneKeeps` shows that
  whoever opens, closes, dies or removes in the way that `Handled`, `Marked`, `Listed` and
  `Passes` say keeps all of it; opening to fill, a batch, the index, the last close and the
  end of an extract are a lemma each. A key never collides there (`NoCollision`).

- **QueriesProofs** (any graph over finitely many symbols, any caps). `ImpactIsExact`
  and `TailIsExact`: a breadth-first loop lists what is reachable, at its distance. The
  invariant of a hop: `seen` is what at most that many steps reach and the frontier what
  exactly that many do (`ReachedBy`, in the code's `depth` bound), and of an edge within
  a hop: the row told of a symbol has the surest edge so far. `PayloadIsAlwaysSound` and
  `UncutIsAlwaysComplete`: the cut of nodes and edges takes the first members of a strict
  total order, so that what is kept is counted and what is dropped is last; a payload
  that is not marked has dropped nothing, from the seeds on. `DiagramsAreHonest`: the
  levels of a search are those of reachability (by the least level at which they would
  not be), a list of nodes has no repetitions, so that a slice shorter than it leaves
  something out. `NamesComeFirst`: a name hit weighs at least 10^6 times the smallest
  factors, everything else at most twice 10^6/7 times the largest ones; the two do
  not meet, whatever the roles and kinds. `FlowIsExact` (`FlowIsFaithful`): what is on the
  stack of the depth-first walk can go on and what was told ended for a reason (`FlowShape`),
  no path begins another (`FlowApart`), and until a cap is met every chain of rows of calls is
  still to be entered, under way or told (`FlowMisses`). The code accepts a negative depth and then tells
  the entry alone; the property says so since the proof asked for it, and `queries` has a
  case of it. Assumed of the constants: `GraphAssumption`,
  `CasesAssumption`, `CapsAssumption`, `RankingAssumption` (the constant of the
  reciprocal rank is at least 6; the code's is 60) and `ViewsAssumption`, that is, what the questions are.

Only model-checked: `ToolsMeet`, over the names of the instance; and `KeysAgree`, `ServedIsEmitted`, `MethodsAreServed`, `ResourcesAreReached`
and `RoutesAreServed`. They compare what recursions over data return: paths rewritten one
token after the other, mounts, locators and includes followed through files, and that is
induction over data, which the prover does not do. Only model-checked, too: what
answers see of a graph that two extract at once (`AnswersAreWhole` beyond `LoneAnswers`),
and runs of `Extract` that overlap. Liveness (`Ends`, `Returns`) and `ENABLED` are beyond the prover.

## 5. Assumptions about the world
- A changed parser or query file always changes `PARSER_VERSION` or the hash of the
  .scm files, so a build stands for both; what a parse yields depends on content,
  language and build alone.
- Files behave as POSIX has them: `replace` is atomic, a deleted file lives on for
  who has it open, one `write` may stop anywhere. In `GraphFile` also as Windows has
  them: a file that is open cannot be unlinked.
- LadybugDB: `connect` creates a missing file and replays a log that is there; another
  process that has the file open is refused it, on Windows the same process too; a
  batch is one transaction, in which a key that is there already is an error; `close`
  merges the log and removes it.
- SQLite: `connect` creates the file at once; table definitions commit on their
  own; the rows are one transaction; a writer whose file was deleted fails unless
  its transaction had begun; the modification time is that of the commit.
- `CoarseClock` is FALSE in the runs: two writes have different modification times.
  With it TRUE a write in the same tick as the build goes unseen.
- Rows that a query leaves unordered come in one stored order that does not change
  during a call.

## 6. Not modelled
- Walks over syntax trees: which declarations, calls and sites a file has is an input
  of `GraphBuild`, `Extractors` and `Contracts`, as are content types and the markers
  by which an extractor passes over a file.
- Artifact emitters and rendering (text), parsing of command lines, prompts,
  completion, the repomix subprocess, the inventory's classification and the parsing of
  git's output: pure functions of one input each.
- PageRank, embeddings, the ranking of recalls, decay of memories and `archaeology`
  (a sum of percentages): numbers in which no state is kept.
- Optional memory backends need packages that are not installed. The remote half of
  `insights push` is git's.
- `registry.remove`, `load_from_shadow_ref` and the single-row writers of the store
  have no caller in the program.
- Node ids and line numbers. `GraphBuild` makes one row of a call that occurs at several
  places of a function; `CodeGraph` has a row for each, numbered, as the store does.

## 7. What is left
1. The search of artifacts beside symbols, and what a question answered from a new
   index and an old graph returns, as part of `Queries` over a `Workspace`.
2. Theorems about HTTP paths and mounts for bounded paths, since what a recursive rewriting
   returns for every path is induction over data.
3. `AnswersAreWhole` as a theorem for two who extract one graph: `Lone` and `Sound` together,
   with what the second leaves in files that have lost their name.
4. A cold extract as a function of its inputs, as an abstract specification that
   `Extract` and `ParseCache` together implement.
