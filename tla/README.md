# PowderLine in TLA+

PowderLine turns a recipe for a powder-diffraction refinement into a run of one
of three engines (GSAS-II, TOPAS, easydiffraction) and reports every run in the
same form. What is hard to get right, and hard to test, is in six places:

* a per-user GSAS-II server that several processes start, stop, use and clean up
  at the same time;
* a client that must reach an engine whatever becomes of that server;
* the requests between the two, on a port anybody on the machine can reach;
* an output directory that is used again and again and must never show one run's
  results as another's, with `tc.exe` as a second process that writes into it;
* the refinable parameters on their way from a recipe through validation, an
  engine and the output recipe into the next recipe, under the ties of symmetry;
* the GSAS-II project, in which one flag stands for several of the recipe's and
  what is not to be refined must be held term by term.

The modules here model those, TLC checks them on small instances, and TLAPS
proves the properties that matter most for every instance.

Paths below are relative to the repository root.

## 1. The system: components, state, operations

| Component | Source | State it keeps | Operations | What makes it correct |
|---|---|---|---|---|
| GSAS-II server life cycle | `src/powderline/gateways/gsasii/server.py` | kernel lock on `server.lock`, `server.pid`, `server.json` (endpoint: PID, port, token), `job-*` scratch directories, signal handlers | `gsas-server start`, `stop`, `restart`, `status`; clean-up at exit | one server at a time; nobody takes away a live server's files; a running job keeps its directory; stop stops, start settles |
| GSAS-II server jobs | same file, `create_app`, `_run_simulation` | `run_lock`, the job's scratch directory, the console tail | `/simulate`, `/health` | one job at a time; every job is answered by an envelope with its files |
| GSAS-II client | `gateways/gsasii/client.py` | nothing between runs; within one: the endpoint it read, the child it spawned, its tries | look, compare checkouts, start a server, submit, retry, write the files, fall back | a recipe runs once; a timeout never doubles the work; a directory gets one run's files; every run ends |
| Signed requests | `server.py` (`SignedRequestMiddleware`), `client.py` (`_signed_request`) | cache of used nonces | sign, check, remember, forget | a request counts once, an answer belongs to its request |
| Runner | `api.py`, `results.py`, `exceptions.py` | the output directory | validate, clear, dispatch, record a failure | a refused run costs nothing; a failed one is recorded; no file of an earlier run survives under a fixed name |
| Tables, output recipe files | `reports.py`, `roundtrip.py`, `fitstats.py` | files | write | written by the run they are found with |
| GSAS-II gateway and executor | `gateways/gsasii/gateway.py`, `executors.py`, `extractors.py` | GSAS-II project in memory and on disk | refine in stages, check, extract | checks before tables |
| TOPAS gateway and run | `gateways/topas/gateway.py`, `native_run.py`, `runner.py` | engine files on disk, the `tc.exe` process | write input, forget old results, run, background run, read, write tables | reads only what this run wrote; refuses before it writes |
| easydiffraction gateway and run | `gateways/easydiffraction/` | project in memory | fit, check, write tables | refuses before it writes |
| Recipe schemas, symmetry, tie groups | `schema_core.py`, `symmetry.py`, `gateways/*/schema.py` | none | validate | accepted recipes are consistent |
| GSAS-II project building | `gateways/gsasii/project.py`, `setters.py`, `constraints.py`, `sites.py`, `fit_report.py`, `paths.py` | the project's flags, Hold constraints, indices | add histogram and phases, set flags, hold, read back names | varies what the recipe asks, names what it could not vary |
| Output recipe | `roundtrip.py` | none | write refined values back, give each parameter its disposition | what is returned keeps its ties, and the next run accepts it |
| Registry, versions, configuration, command line | `registry.py`, `compat.py`, `config_loader.py`, `doctor.py`, `kicker.py` | instance cache, files read | resolve, compare, report | the gateway asked for is the one used |

How they interact: `powderline.run` calls a gateway by the recipe's engine. The
GSAS-II gateway calls the executor in its own process or the client; the client
finds the server through `server.json`, talks HTTP to it, and may spawn it. The
server and every `gsas-server` command share the state directory and nothing
else: the lock is their only synchronisation. The client and the server share no
file system; output files travel in the answer. TOPAS is a child process that
communicates through files in the output directory.

A recipe's parameters meet the same rules at both ends: `schema_core.py` derives
tied values and bounds from the representative of a tie group, each gateway frees
one parameter per group in its engine, and `roundtrip.py` derives the group again
from whichever member the engine reported.

The behaviours that are hard: processes that race over the lock and three files;
a crash at any instant, which frees the lock and leaves the files; PIDs that are
used again; signals to a PID read earlier; timeouts with the work still going on;
a retry after a refusal; transfers that stop half-way; a directory found in any
state an earlier run left it. Each is listed, with its line and the properties
that cover it, under `hazards` in `PROJECT.json`.

## 2. The modules

**`SingleServer`** - the abstract specification of what the lock on `server.lock`
promises: an `owner` that claims, opens, closes and leaves (or vanishes), and a
`card` (the endpoint file) that is put up by the owner, stays unchanged while it
is open, and is replaced only after it was taken down.

**`ServerLifecycle`** - `server.py` in detail. A process is a PID; `pc[p]` says
where it is. A start goes `claim` (one try of `_claim_server_lock` per step),
`dropEndpoint`, `writePid`, `listen`, `load`, `sweep`, `publish`, `handle`,
`serving`, `draining`, and out through the three steps of
`_release_state_files`. The commands are the steps of `stop_server`,
`_probe_lock`, `_clear_stale_state_files` and `_run_action`, one action for each
system call another process can see. A probe that gets the lock holds it until
its next step, so that other probes and starts can run into it. `Gone` is the
kernel's part: the lock is dropped, the files stay. `serial[p]` numbers the
server incarnations a PID has been and stands for the token. `Recycle` lets a
PID that was a server's be given to another process; `Fragile` says where a
process may crash. `ImplementsSingleServer` maps the lock holder's place to the
phases of `SingleServer`, its serial to `owner`, and the token in `server.json`
to `card`.

**`GsasDispatch`** - `client.py` against servers that behave as `SingleServer`
promises (its actions are those of the abstract module, so the two modules
compose along the refinement checked and proved in the first). Per client: `Look`, `CheckStale`,
`AutoStart`, `PollStart`, `LookAgain` follow `_dispatch` and
`_start_server_background`; `ReadEndpoint`, `Send`, `Refused`, `Receive`,
`LoseConnection`, `ReadTimesOut`, `WriteFile` follow `_submit_to_server`,
`_server_attempt` and `_materialize`; `RunLocally` is the in-process run.
`StartJob` and `FinishJob` are the server's `run_lock` and job. `Look` and
`LookAgain` may find a server silent although it is up: `/health` has two
seconds. Likewise a server that is up may not tell its checkout (`"silent"` in
`Environment`): `server_is_stale` returns None, and the client goes on. A request sent to a successor that got the same port is refused.

**`OutputDirectory`** - one output directory, run after run, with each engine. A
file is abstracted to the number of the run that wrote it. `Begin`, `Check`,
`Clear`, `Gateway` and `Record` are `api.run`; `Dispatch` and `Transfer` the
client; `Refine` and `Extract` the GSAS-II executor; `WriteInput`, `Discover`,
`Forget`, `RunTc`, `Background` and `Read` the TOPAS run; `Fit` easydiffraction;
`WriteTable` the writers of `reports.py` and `roundtrip.attach`. Any run may be
interrupted at any point, and with the fault `"write"` any write may fail.

**`TopasRun`** - the TOPAS part of an output directory in detail, with `tc.exe` as
a process of its own (`native_run.py`, `runner.py`). `Begin` takes a recipe and the
settings that decide the time limit; `WriteInput`, `Discover`, `Forget`,
`StartTc`, `TimeOut`, `Check`, `Background`, `StartBackground`,
`BackgroundTimesOut` and `BuildResult` are `run_native` in order. `TcWrites` and `TcEnds` are
`tc.exe`: it writes each file once, in any order, whole or cut off, finite or
not, and may hang. `Kill` ends the Python process and leaves `tc.exe` behind as
an orphan, which goes on writing into the directory of the next run. A file is
the run that wrote it, the fit it describes, and whether it is finite and whole.

**`SignedRequests`** - `_signed_request` and `SignedRequestMiddleware`. A client
`Sign`s a request with a fresh nonce, the time and the token it read. The network
and whoever else is on the machine may deliver it late, again, next to itself,
altered or at another server: the request's place does not change by delivery.
A handler takes the headers (first check of nonce and time), waits for the body
(`await`), and checks the nonce again before it makes the entry. The clock may be
set back or forward by `Drift` between a stamp and its check. The server may
be stopped and started again with an empty cache and a new token. Answers are
signed over the nonce.

**`RecipeModel`** - what validation does with the refinable parameters: ties
(`member = K * representative + C`), fixed values, derived values and bounds, the
rules on flags and bounds (F1, F2, F4, A106 in the code's numbering), the groups of cell
parameters GSAS-II cannot hold apart, and `parameters_requested`.

**`OutputRecipe`** - `roundtrip.build_output`: what the engine reported is written
back, ties are propagated from whichever member was reported, each parameter
gets its row with its disposition in the order of precedence of the code, and the result is validated.

**`Journey`** - composes both with the three gateways: `Validate`, `Build` (what
each gateway frees), `Fit` (what an engine may end with), `Diverge`, `ReadBack`
(what each gateway reports), `WriteOutput`, and `NextRun`, which starts the next
run of a chain from the output recipe. A report may lack values: GSAS-II's table of
refined parameters, or rows of it, may be lost in a run that is a success all the
same, and TOPAS's results file may miss a parameter.

**`GsasBuild`** - `run_refinement` call by call: histogram and phases are added,
each setter of `setters.py` writes its flags, `constraints.py` adds its holds,
GSAS-II refines what the flags less the holds leave free, may drop singular
parameters, leave a message, stop or diverge; the fit is checked, the result extracted, and
`paths.py` reads GSAS-II's names (`1::AUiso:0`, `:0:Back;1`) back onto paths of
the recipe. `rows` is what the result carries of the refined parameters: every
variable, all but one (a row without a value), or none, when `ExportRefined` meets an error, which the
code swallows. `ReadBack` finds the phase and the atom of a row by the names the
project has at their indices. What GSAS-II moves with a variable (`Moves`) is
defined apart from `PathOf`, by the places in the project, so that the two can disagree. The choice of which calls are made, with which arguments, follows the
recipe's kind (Rietveld, peak fit, simulation).

**`MC...`** give the constants values for TLC; **`...Proofs`** hold the theorems, and
**`GsasBuildVariables`** the lemmas on what a built GSAS-II project varies.

A definition is mapped in `PROJECT.json` to the lines it stands for. An operator
whose comment describes a different order or a missing guard (`ClearFilesUnlocked`,
`CheckTooLate`, ...) is the form the definition below it would take with a
plausible bug; no specification uses it. Each property is checked to fail when
the definition is replaced by such a variant.

## 3. The runs

| Run | Checks | Result |
|---|---|---|
| `server_safety` | `TypeOK`, `LiveFilesIntact`, `JobDirIntact`, `ImplementsSingleServer` | hold |
| `server_liveness` | `StopRemovesTarget`, `StartSettles`, `StopEnds` | hold |
| `server_stale_pid` | `StopReadsHolder` | violated: see 6 |
| `dispatch` | `TypeOK`, `NoDoubleWork`, `SubmittedOnce`, `DirectoryOfOneRun`, `ClientSettles` | hold |
| `dispatch_stale` | `StaleServerRunsNoJob` | violated: see 6 |
| `output_directory` | `TypeOK`, `OneRunPerDirectory`, `RefusedKeepsResults`, `OkIsComplete`, `FailureIsRecorded`, `NativeFailsClean`, `ReadsOwnFiles` | hold |
| `failed_tables` | `TablesComeFromSuccess` | violated: see 6 |
| `topas_run` | `TypeOK`, `OkIsThisRuns`, `BackgroundFollowsFit`, `RunEnds` | hold |
| `signed_requests` | `AtMostOnce`, `AnswerIsOwn` | hold |
| `journey` | `TypeOK`, `VariedIsWritten`, `FreesWhatIsAsked`, `RequestedIsFreed`, `HeldStays`, `InsideIsValid`, `ModelStatesRecipe`, `LimitIsMarked` | hold |
| `not_varied` | `NotVariedWasNotVaried` | violated: see 6 |
| `gsas_build` | `TypeOK`, `VariesWhatIsAsked`, `NothingSilentlyHeld`, `ReadsBackWhatMoved`, `RejectedLeavesNothing`, `UnusableSiteIsRaised` | hold |

Bounds, and why they are enough:

* `server_safety`: three PIDs, up to three server processes in one behaviour, two
  claims and two polls, every command, crashes everywhere, PIDs reused. The races of this
  protocol need a server, a command that acts on it, and a third process that
  comes between two steps of the command; a fourth only waits for the same lock.
  PIDs are interchangeable, so `SYMMETRY` is sound: nothing orders or names them,
  and all properties of the run are safety properties. About 3.0 million states.
  Deadlock is checked in this run: a process can always be spawned or end.
* `server_liveness`: no symmetry, crashes of servers only, two server processes,
  no reused PIDs (with reuse, `stop` may wait for another process that has the
  PID: the properties would then say nothing of the server). Here and in all
  other runs `CHECK_DEADLOCK FALSE`: the bounds on processes, servers and runs
  let the system come to a legitimate end.
* `dispatch`: one client that may fall back and has a `server_timeout`, one in
  mode `server` without one and from another checkout, two servers, two files.
  Two servers are what a retry, a restart or a mistaken successor needs; two
  files are what a half-finished transfer needs. `ConnectTries` is 2 for 3 in the
  code and `StartPolls` 2 for 30: the first, the repeated and the last try differ,
  more of the repeated do not.
* `output_directory`: two runs in one directory, of any engine and workflow, with
  interruptions and failing writes. A directory remembers the earlier runs only as
  files that are or are not of the current run, so two runs show every
  combination; that any number of runs behaves the same is proved.
* `topas_run`: two runs, of six kinds: a Rietveld recipe and a single-peak one, with
  and without background, under a limit and under none, and those that never reach
  `tc.exe`. The second run meets every directory and every orphan the first can
  leave. About 264 000 states.
* `signed_requests`: two requests, two handlers (two copies side by side, or two
  requests), a skew of two ticks with bodies that follow their headers within one
  and a clock that is set by up to one,
  five ticks, two server starts. `CacheLimit` is 0 for the code's 1024: the cache
  forgets by age as early as it ever may. Requests and handlers are
  interchangeable and both properties are safety, so `SYMMETRY` is sound. About 7.4 million states.
* `journey`: nine parameters of two phases and two runs with each engine. They are
  the cases that differ: a monoclinic cell of which GSAS-II cannot separate `a` and `c`
  and the recipe holds `b`; a hexagonal one with two equal lengths; a coordinate tied to another by `y = -2x + 20`, which turns the bounds round and enlarges a
  rounding, and of which easydiffraction frees
  the other member, one unit cell away; a fixed one; a special position nearby; one that the
  recipe may leave out. Recipes are stated exactly, within the tolerance and beyond
  it, with and without bounds, with every choice of flags. A second run is what an output
  recipe is for; a third repeats it (and the theorems hold for any number). GSAS-II reports
  a phase's whole cell, off by rounding or by more in no cell parameter, one, or all
  (`Off`), and any part of what it varied otherwise. About 786 000 states.
* `gsas_build`: every crystal system and unique axis with every choice of cell
  flags, beside a cubic phase, in both orders; an anisotropic atom on `(x, x, z)`
  with every choice of its flags; sites GSAS-II reads differently or cannot name;
  histogram, background, peak and size terms; peak fits; a result with all rows, all but one, or none. About 561 000 states.

Fairness. `topas_run` assumes weak fairness of PowderLine's own steps, the time limit
of `subprocess.run` among them, and nothing of `tc.exe`, which may hang; `RunEnds` is
claimed of runs under a limit only (`timeout: 0` waits for ever, as the code says).
`server_liveness` assumes weak fairness of each process's own steps and
nothing of the environment: commands may not come, jobs may never end
(`FinishJob` is not fair), crashes need not happen. The operating system's
scheduler justifies it: every step is a system call or a statement that is
enabled until it is taken. `dispatch` assumes weak fairness of each client's steps
and of its own timer (`ReadTimesOut`), and none of the servers: they need not
start, answer or stop. That the client comes to an end all the same
(`ClientSettles`) rests on its polls, tries and timeouts alone; without a
`server_timeout` (the default) it may wait for ever for a job that never ends,
and the property says so.

## 4. What is proved

The `...Proofs` modules are checked by TLAPS to the last leaf, for every value of the constants that meets the named assumptions
(`NoPidAssumption`, `BoundsAssumption`, `ProgramsAssumption`;
`EnginesAssumption`, `MaxRunsAssumption`, `FaultsAssumption`; `TiesAssumption`,
`EngineTies`, `BoundsAssumption` of the journey; `SkewAssumption`,
`DelayAssumption`, ...; `RecipesAssumption`): any set of PIDs, any number of tries and servers, any
number of runs, any finite set of parameters and any ties, any number of requests and handlers,
any number of phases, atoms, peaks and coefficients. Every safety property of a passing run is
proved.

*Server.* `LiveFilesIntact` is not inductive: it says nothing of the steps before
a server is open. The inductive invariant `IInv` adds `LockHeld` (whoever is
past the claim, or between a probe and its end, holds the lock), `FilesAsLeft`
(what `server.pid` and `server.json` are at every place of the holder: absent,
its own, or still those of a dead server), `JobsAsLeft` (a running job belongs to
a serving or draining server, and its directory exists), `ServersNumbered` (a
process that is a server, or will be, has a positive serial, so that its token
is never that of an absent endpoint) and `StopsBounded` (a stop that signals has a PID, and its
polls stay within the budget). From it follow

* `TypeCorrect`, `LiveFilesStayIntact`, `JobDirsStayIntact`, and
* `Implementation`: `Spec => Abstract!Spec`. Each step of the detailed protocol is
  mapped to a step of `SingleServer` or a stutter; the step that needs the
  invariant is `Publish`, which may open only because `DropEndpoint` took the old
  card down under the same lock;
* `StopsSignalOnlyServers`: where no PID is used twice (`Recycle` false), a stop
  signals a server or nobody, whatever PID file races and crashes have left. The
  invariant is `KnownServers`: `server.pid`, and the PID each stop has read, are
  those of servers. With PIDs used again it fails, as section 6 has it;
* `ProcessesComeForward`: `Left(p)` counts the steps a process has before it at most,
  its remaining claims and polls and the start of a restart included. Every
  step of its own lowers it, and nobody else's raises it. That is all of `StopEnds`
  and `StartSettles` that does not depend on fairness: what TLC adds is that a
  process which has steps before it can take one. It needs `ClaimsBounded` (tries are
  counted from zero) beside `IInv`.

*Output directory.* `DirInv` adds to the properties what holds between them:
`Listed` and `Numbered` (what is written, and by which runs), `Untouched` (until
the clearing the directory is as the run found it), `Cleared` (from the clearing
on, PowderLine's files are of this run), `Stages` and `TablesLast` (which engine
is at which place, and no table of a native engine before the last stage),
`Fresh` (TOPAS's expected files are absent or this run's after `Forget`),
`ReadsOwnFiles`, and `Outcomes`. From it follow `TypeCorrect`,
`DirectoriesAreOfOneRun`, `RefusalsKeepResults`, `FailuresAreRecorded`,
`NativeFailuresAreClean` and `ReadsAreFresh`. A second invariant over it, `Pending`,
says that every file a run owes is there already or waits in its list; at the end
of the list that is `OkRunsAreComplete`.

*Dispatch.* `DispatchInv` says what a client may still have on a server at each of
its places: `NothingSent` (before a request has gone out, and between two tries, no
server has a job of it), `Afterwards` (nor once it has an answer or falls back) and `Whole`
(what its directory and the files still to write amount to). From it follow
`DispatchTypeCorrect`, `FallBacksDoNotDoubleWork`, `JobsAreSubmittedOnce` and
`DirectoriesHoldOneRun`, under `ClientsAssumption` (there is at least one checkout
of the code, and each client is of one) and `BoundsAssumption`. Three more speak of
how the parts fit:

* `DispatchUsesSingleServer`: seen through its servers, `GsasDispatch` is a behaviour of
  `SingleServer`, which `ServerLifecycle` implements; so what is shown of the
  dispatch is shown over what is shown of the lock;
* `UnfinishedJobsAreOnTheOpenServer`: a job that waits or runs is on the server that is
  open now, and one at most runs;
* `ClientsComeForward`: the count of the stages, tries and polls a client has
  before it falls with every step of its own that does not write a new file, and
  nothing else raises it: the part of `ClientSettles` that does not depend on
  fairness. It needs `TriesWithin` (each stage starts to count at zero).

*TOPAS run.* `TopasInv` follows `tc.exe`: `ChildIsOwn` (the one a run waits for is its
own, writes only the files of its stage, and works at its fit), `NoOrphans` (a run
that removed the old files when nobody else wrote still has nobody beside it),
`FilesOwn` (from the removal on, an expected file is absent or this run's, and
there once `tc.exe` was checked) and `BackgroundOwn` (the background run starts
from this run's results, its profile is absent or its own). From it follow
`TopasTypeCorrect`, `OkResultsAreThisRuns` and `BackgroundsFollowFits`, under
`RunsAssumption`, `JobsAssumption` and `NamesAssumption`.

*Journey.* The invariant relates each stage to the one before: `ModelOK` (the model
is what validation makes of an accepted recipe), `FreedOK` (what the gateway frees
of it), `FitOK` and `ReportIsOK` (a fit moves only what was freed; a report
speaks only of free parameters, and of held ones only in GSAS-II's cell), `ReadOK`
(what each gateway reports of a fit), `OutOK`
(the output recipe is written from these). The lemmas are about the
operators: derived values obey every tie (`DerivedTied`), so does what is written
back from whichever member was reported (`OutputTied`), an accepted recipe's flags
name whole groups (`FreesFlagged`), a tie keeps the order of values or turns it
round (`TiedOrder`). From them follow `JourneyTypeCorrect`,
`JourneyVariedIsWritten`, `JourneyFreesWhatIsAsked`, `JourneyHeldStays`,
`JourneyModelStatesRecipe`, `JourneyRequestedIsFreed` (the flags less those beyond
the first of each group are as many as the groups: a bijection between the first
members and the representatives), `JourneyLimitIsMarked` and `JourneyInsideIsValid`.
The last two go through the member an engine reports to its representative and
back, for coefficients of any size and sign; `JourneyInsideIsValid` also needs
that rounding by one step, carried through a tie, stays within the tolerance of the
schema (`ToleranceAssumption`: no coefficient exceeds the tolerance by more than one
step; those of a space group are at most 2, and the tolerance is several steps).

*GSAS-II project.* The invariant of `GsasBuildProofs` says what the project is at each
step, exactly: `Staged` gives it as a function of the recipe and of the steps taken so
far, and `Built` is what it is when the refinement begins; `Shape` is what is
left of that where a step fails, and `FitOK`, `SitesOK`, `CountOK` and `ReadOK` relate the
fit, its warnings and what is read back to it. `GsasBuildVariables` then shows what such a
project varies: `CellFacts`, for each Laue class, that the terms the whole-cell
flag varies, less those held, move the flagged cell parameters and no other;
`Determined`, that a tie has one variable and a variable one tie; `VariesAsked` and
`MovesAsked`, that the variables are those of the ties asked for; `BuiltCount`, that
they are as many. From it follow `GsasBuildTypeCorrect`,
`GsasBuildVariesWhatIsAsked`, `GsasBuildNothingSilentlyHeld` (counting variables
against ties is sound because of the one-to-one correspondence),
`GsasBuildReadsBackWhatMoved` (the path of a variable, found by names, lies in the
tie it moves, found by places), `GsasBuildRejectedLeavesNothing` and
`GsasBuildUnusableSiteIsRaised`, for every recipe that is `WellFormed` (the schemas' own rules:
unique names of phases and of their atoms, a unique axis of a monoclinic cell,
no phase in a peak fit) and `Accepted`.

*Signed requests.* `AtMostOnce` needs that every request the application was given is
remembered as long as it would be accepted (`DoneIsRemembered`), which in turn
needs that entries are no older than the headers they come from, that bodies
follow within the skew, and that the clock is set by less than it between a stamp and its
check (`ReadingSent`, `CopyIsRemembered`, `DelayAssumption`, `DriftAssumption`). `AnswersAreDone` and
`AnswerIsOwn` tie an answer to the request it was made for. With `SentBefore` and
`SeenAfterSent` this is the inductive invariant; from it follow
`SignedAtMostOnce` and `SignedAnswerIsOwn`.

Only model-checked: the liveness properties (`StopRemovesTarget`, `StartSettles`,
`StopEnds`, `ClientSettles`, `RunEnds`), of which the provers cannot reach fairness and
`ENABLED`; and the four violations of section 6. That `TopasRun` implements the TOPAS
part of `OutputDirectory` is not claimed: it is false, because `OutputDirectory` knows no
`tc.exe` that outlives its run (section 5).

## 5. Abstractions and what is not modelled

* POSIX only. On Windows the lock is a byte-range lock, stop is a
  `TerminateProcess`, and writes are retried on sharing violations.
* Removing and writing files in the server's state directory succeeds, except
  where the code reacts to a failure (`Publish`, `Listen`). A scratch directory
  that cannot be removed (`rmtree(..., ignore_errors=True)`) is not modelled.
* `os.kill` on a PID that now belongs to another user (`PermissionError`).
* uvicorn is external: it refuses new connections, finishes the requests it has
  (also those that wait for `run_lock`), then runs the signal handler.
* `POWDERLINE_NO_SERVER` and `use_server=False`, which lead to the in-process run
  without any of the above.
* Contents of envelopes and tables beyond the parameters' values, flags and
  bounds.
* In `GsasDispatch` signing is reduced to its effect, which `SignedRequests` shows: a server
  answers only requests made with its own token. There a signature cannot be made
  without the token, both ends read one clock (they are on one machine) that may be
  set by less than the skew in between, and a body follows its headers sooner than the skew: a body held back longer would meet
  the second check after its entry could have been forgotten.
* `OutputDirectory` knows only the interruption Python handles, in which `subprocess.run` stops
  its child; that a killed PowderLine leaves `tc.exe` writing is in `TopasRun`. Its
  properties of an ok result (`OkIsThisRuns`, `BackgroundFollowsFit`) are claimed when
  no orphan was left as the run removed the old files. With an orphan they may
  fail: the code does not look for one.
* `TopasRun`: a results or reflection file cut off between two lines is not noticed
  by the code, nor by the model.
* `RecipeModel`: values are whole numbers of the smallest step; rounding errors
  at a limit, and fractional coefficients of ties, are left out. Which ties a space
  group imposes (`symmetry.py`'s algebra) is a constant; `MCJourney` gives typical ones.
* `GsasBuild`: flags, holds, names and checks; values, units and the pattern
  calculation are left out. GSAS-II's own reading of a site is taken to be core's,
  misread or unnamed, as `sites.py` distinguishes.
* GSAS-II's `peak_convergence_diagnostics.txt` has no fixed PowderLine name and is
  not cleared; `OneRunPerDirectory` excludes it, as the code does.
* Not modelled, with the reason: the gateway registry (three dictionaries, used by one
  thread); versions, configuration and `doctor` (comparisons of what is read
  once); the console tail (a pure function of its input that has its own unit tests);
  the command line (maps outcomes of `powderline.run`, modelled, to exit codes); space-group tables
  and scattering look-ups (data); the text of INP files and the numerical parts of
  the extractors; scripts. `PROJECT.json` lists every component.

## 6. Where code and documentation disagree

Four runs expect a violation; the behaviour is the code's, the statement the
documentation's.

* `server_stale_pid`. The docstring of `read_pid` says it returns the PID recorded by
  the server that holds the lock, or None. `stop` asks the lock and then reads
  `server.pid`. Between a new server's lock and its own `server.pid` the lock is
  held and the file still names the server that crashed: `stop` addresses the
  dead one's PID and leaves the new one running.
* `dispatch_stale`. `docs/development/architecture.md` says a stale server is
  skipped or refused. The branch that starts a server uses whatever answers
  afterwards, and does not compare checkouts: a server that another client, of
  another checkout, started meanwhile gets the job. (A server that does not tell its
  checkout is not skipped either; the run leaves that out.)
* `failed_tables`. `docs/concepts/results.md` says a table in the folder comes
  from a run that succeeded. The GSAS-II extraction writes tables one after the
  other and may fail in between; the tables written so far stay beside
  `failure.json`.
* `not_varied`. `docs/concepts/results.md` says `requested_not_varied` means that the
  engine did not vary the parameter. The TOPAS gateway tells by the
  missing ESD, once the engine varied fewer than requested: a parameter that was
  varied but has no ESD, beside one that was not, gets the same disposition. The run has
  TOPAS only. (The gateway of easydiffraction has the same rule, but lmfit varies what it is
  given, and its count never falls short. A GSAS-II run that lost its table of refined
  parameters also gives what it varied this disposition.)

## 7. Plan

Done, in this order: `SingleServer`, `ServerLifecycle` with its refinement and
proofs, `GsasDispatch`, `OutputDirectory` with its proofs, `RecipeModel`,
`OutputRecipe` and `Journey` with proofs, `GsasBuild`, `TopasRun`, `SignedRequests`
with proofs, the proofs of `GsasDispatch` and `TopasRun`, and those of `GsasBuild`.

What is left, in the order of what it would add: an orphaned `tc.exe` in
`OutputDirectory`, so that `TopasRun` can be shown to implement its TOPAS part; an abstract
specification of signed requests (each is carried out at most once, and answered as carried
out) for `GsasDispatch` to rest on as it rests on `SingleServer`; the site-symmetry algebra of
`symmetry.py`, which gives the ties that are constants here, checked against the
definition of a site's stabiliser on small groups.
