# Formal model of the monasca-agent Kubernetes and Windows checks

This directory holds TLA+ models, TLC configurations and TLAPS proofs for the
collector checks under `src/monasca_agent/collector/checks_d/`:

- `kubernetes.py` (475 lines). It is the `Kubernetes` plugin, and most of this project is about it.
- `windows_cpu.py` (71 lines).
- `windows_disk.py` (162 lines).

## 1. The system

At every collector interval, `Kubernetes.check()` makes one *cycle* against the
kubelet of its node and against cAdvisor. The cycle has these parts:

1. **Health probe** (`_get_api_health`, 145–157). It sends GET `/healthz` and
   emits the gauge `kubelet.health_status`. The gauge is 0 when some line of
   the body equals `'ok'`, else 1.
2. **Pod list** (`check`, 118–131). It sends GET `/pods`. If this fails, the
   exception is logged and the cycle ends: `_process_containers` sits in the
   `else` branch.
3. **Pod dimension builder** (`_process_pods`, 159–198, with
   `_get_pod_dimensions`). Pods without containers or statuses are skipped.
   For each remaining pod it does the following:
   - It computes `pod_key = pod_name + namespace` and fills
     `pod_dimensions_map[pod_key]`.
   - For each container status, it stores the dimensions under the container
     id taken from `containerID`, in `container_dimension_map`. A waiting
     container has no `containerID`, so its id is `''`.
   - It emits `pod.restart_count` and `pod.phase`.
4. **cAdvisor fetch** (`_process_containers`, 424–436). It sends two GETs, the
   spec document and the stats document. Either one failing ends the cycle.
5. **Identity correlator** (`_get_container_dimensions`, 390–422). Each
   container of the stats document is looked up in the spec document
   (`containers_spec[container]`, with no guard). It is then matched in one of
   two ways:
   - by an alias equal to a container id in `container_dimension_map`;
   - else by its `io.kubernetes.pod.*` labels, if that `pod_key` is in
     `pod_dimensions_map`.
6. **Metric extractor and pod aggregator** (`_parse_memory`, `_parse_network`,
   `_parse_cpu`, `_add_pod_metric`, 318–388). Each value is added to the sums
   of the container's `pod_key`, if it has one.
7. **Flush** (`send_pod_metrics`, `send_network_pod_metrics`, 457–474). For
   every `pod_key` with a sum, it emits the sum with
   `pod_dimension_map[pod_key]`, looked up with no guard.

The kubelet and docker change state *between* these HTTP calls. Pods are
scheduled, started and deleted, and containers start and exit. This makes
the three snapshots (`/pods`, the spec, the stats) disagree. That is the
concurrency of this program: it has one thread, but it reads a live system
at three different times.

The two Windows checks are independent plugins:

- `windows_disk.py` loops over the partitions and adds `mount_point` to a
  `dimensions` dict that the whole loop shares.
- `windows_cpu.py` reads psutil's cpu counters into a dict and sends a
  gauge per value, filtered by instance options.

## 2. Modules

| module | models | kind |
|---|---|---|
| `KubernetesCheck` | steps 1–7 of a cycle, repeated forever, interleaved with the node | component |
| `ProcessPods` | `_process_pods` in detail: `_get_pod_dimensions`, the owner resolver, `_report_container_limits`, `_convert_cpu_to_cores` | component |
| `ProcessPodsAbstract` | what one pass over `/pods` promises (spec §5 step 4, §4.2, §4.3) | abstract spec |
| `ContainerMetrics` | the stats loop of `_process_containers` in detail: `_parse_*`, `_send_metrics`, `_add_pod_metric`, both flushes | component |
| `WindowsDisk` | `Disk.check` of `windows_disk.py` | component |
| `MC_*` | TLC instances of the above: constants, records, tables | instances |
| `KubernetesCheckProofs`, `WindowsDiskProofs`, `ContainerMetricsProofs`, `ProcessPodsProofs` | TLAPS proofs | proofs |

The two Kubernetes components overlap by design. `KubernetesCheck` keeps every
fetch and every interleaving with the node, and it abstracts a pod's
dimensions and a container's values to single values. `ProcessPods` and
`ContainerMetrics` take the other side: one snapshot, already fetched, with
the real dimension dicts, tables, units and arithmetic. The interface between
them is the pair of maps (`pod_dimension_map`, `container_dimension_map`)
and the `pod_key` a container correlates to. `ContainerMetrics` takes these
as constants (`PodKeyOf`, `CtrDims`, `PodDims`), with the values
`KubernetesCheck` shows them to have.

### State of `KubernetesCheck`

**Node variables**
- `podPhase`: the pod's phase, one of absent, pending or running. A pod
  that is pending or running is listed by `/pods`. A running pod's
  container statuses carry ids.
- `ctrState`: new, running or exited. A running container appears in the
  cAdvisor documents.

**Cycle variables**
- `pc`: where `check()` is.
- `probe` and `health`: what `/healthz` answered and the emitted gauge.
- `podList` and `cadvisor`: the outcomes of the fetches.
- `podQueue`: the pods of the `/pods` snapshot still to process.
- `idSnap`: the containers whose ids that snapshot carries.
- `podDims` and `ctrDims`: `pod_dimensions_map` and `container_dimension_map`.
  The key `NoId` stands for `''`.
- `podGauges`: the pods whose pod gauges were emitted.
- `specSnap` and `statsSnap`: the two cAdvisor documents.
- `pending`: the containers of the stats loop still to process.
- `podAcc` and `netAcc`: `pod_metrics` and `pod_network_metrics`. `NoValue`
  means the key is absent.
- `podSamples` and `netSamples`: what the flush emitted.
- `fault`: the exception that escaped `check()`, if any.

### Data abstraction

- A pod name and a namespace are sequences of characters, and `Key(p)` is
  their concatenation. This lets the model show the `pod_key` collision.
- Metric values are one natural number per container, `Val`. Sums are sums of
  these numbers.
- Label and owner dimensions are abstracted to the pod itself. The emitted
  dimensions therefore identify which pod a sample is attributed to.

### Actions

Each action is one code path. Its source lines are in `PROJECT.json` under
`map`.

- `CheckHealth`
- `FetchPods`: success or failure.
- `ProcessPod(p)`: one iteration of the loop in `_process_pods`, including the
  `''` id.
- `FetchSpec` and `FetchStats`: each can fail.
- `ProcessContainer(c)`: one iteration of the stats loop. It can raise
  `KeyError` on the spec lookup. Otherwise it correlates the container and
  adds its values to the sums.
- `Flush`: the two send loops. Their lookup may raise; if it does, only some
  of the samples have been sent.
- `NewCycle`: the collector calls `check()` again with empty maps.

The node actions (`PodScheduled`, `PodStarted`, `PodDeleted`,
`ContainerStarted`, `ContainerExited`) fire only while the check is between
two HTTP calls (`FetchPoints`). Moves of the node at other points cannot be
told apart by the check, so this is a reduction.

### Fairness

None. `check()` is straight-line code whose loops are bounded by the
fetched documents, and nothing is retried, so that every call returns is
not a question the model can answer differently from the code; every
property checked is a safety property.


### `ProcessPods`

One call of `_process_pods` over a `/pods` document, with its control flow
kept loop by loop.

**State.**
- `pc`: the loop the call is in. It is one of pod, status, limits or gauges.
- `pi`, `si` and `li`: the loop indexes.
- `podDims`: `pod_dimensions`.
- `ctrMap`: `container_dimension_map`.
- `name2id`: the pod's `name2id`.
- `retry`: `pod_retry_count`.
- `gauges`: what the call sent.
- `fault`: the `KeyError` that escapes `_report_container_limits`.
- `lookups`: a ghost that records which answer each pod's replica set lookup
  got.

**Actions.**
- `Begin`
- `SkipPod`: no containers or no statuses.
- `BuildPod`: `_get_pod_dimensions`, with the owner resolver and the lookup
  as an `\E` over error, revision or plain.
- `Status`: one container status.
- `EndStatuses`
- `Limits`: one spec container of `_report_container_limits`. The
  `name2id[name]` lookup is outside the try; a missing limits or requests
  dict is the caught `KeyError`.
- `EndLimits`
- `PodGauges`
- `Finish`

**Data abstraction.**
- Dimension dicts are TLA+ functions, with `Update` and `Put` for
  `dict.update` and `d[k] = v`.
- Names are sequences of their `-`-separated segments, so
  `"-".join(name.split("-")[:-1])` is `SubSeq(segs, 1, Len(segs) - 1)`.
- A cpu quantity is its number and its `m` suffix. `_convert_cpu_to_cores`
  gives the exact fraction.
- Memory strings map to bytes through the constant `MemBytes`, because
  `utils.convert_memory_string_to_bytes` is not under this directory.

### `ProcessPodsAbstract` and the refinement

`ProcessPodsAbstract` is written from the spec, not the code. A pass takes
the pods in order. A pod without containers is skipped. Every other pod gets,
in one step (`AReport`), the gauges `pod.restart_count` (the sum of its
statuses' restart counts) and `pod.phase`. Both carry the dimensions of spec
§4.3, with the owner of the §4.2 table for some lookup answer. With
`report_container_metrics` the pass may raise (`ARaise`).

`ProcessPods` defines `Abs == INSTANCE ProcessPodsAbstract WITH ...`. The
refinement mapping:
- `apc` is idle when `pc` is idle, else busy;
- `next` is `pi`;
- `podGauges` is the `pod.*` gauges among `gauges`.

The container-status and limits steps map to stutters, `PodGauges` to
`AReport`, the escaping `KeyError` to `ARaise`. The `pods` run checks
`AbstractSpec == Abs!ASpec` as a PROPERTY.

What this checks is that the pod loop, which carries `pod_retry_count` and
`pod_dimensions` in variables, still behaves like the table in the spec.

### `ContainerMetrics`

The stats loop after the two cAdvisor GETs.

**State.**
- `pending`: the containers left.
- `cur`, `snap` and `cdims`: the container in hand, its
  `cadvisor_metrics[0]` and its `container_dimensions`.
- `sec`: the parse section the loop is in, in code order.
- `podAcc` and `netAcc`: `pod_metrics` and `pod_network_metrics`. A value
  is `[value, raw]`, where `raw` is a ghost that carries the exact counter.
  A value is a fraction `<<numerator, denominator>>`. Python 3's
  `ns / 1000000000` (374) and the float `+=` of `_add_pod_metric` (388)
  are modelled as exact rational arithmetic. Python rounds both to double
  precision, which is what the spec promises, so this is an idealization.
  The model can show Python 2's truncation, but no rounding error.
- `samples`
- `fault`

**Actions.**
- `NextContainer`: the `cadvisor_metrics[0]` lookup, with `IndexError` on an
  empty series.
- `ParseMemory`: `_send_metrics` writes `unit` into the container's own dict.
- `ParseFilesystem`: per-device copies.
- `ParseNetwork`
- `ParseCpu`: the `/ 1000000000`, as a fraction under Python 3 and as `\div`
  under Python 2.
- `Flush`: both pod flushes.
- `NewCycle`

`CADVISOR_METRICS` and `METRIC_TYPES_UNITS` are TLA+ functions copied from
the source, including the key `reads_completes`. The network table keeps
the four counters the instance uses. TLC's integers are 32-bit, so the
nanosecond constant is `NsPerSecond`, set to 1000 in the instance with the
counters scaled alike.

### `WindowsDisk`

`Start` begins a call. `SkipPartition` is the fstype and
blacklist filters. Each remaining partition then takes one of two actions:
- `PartitionFails`: `disk_usage` raises. `_log_once_per_day` is the helper
  `LogOncePerDay`.
- `PartitionGauge`: updates the totals and the shared `mount_point`, then
  sends the gauge.

After the loop come `IoRates` and `Rollup`. `NewDay` lets time pass between
calls. The instance options (`use_mount`, `send_io_stats`,
`send_rollup_stats`, fs exclusions, blacklist, or `None`) are a record chosen
in `Init`.

## 3. Runs

| run | module | expect | checks | shows |
|---|---|---|---|---|
| `main` | `MC_KubernetesCheck` | pass | `TypeOK`, `FlushLookupSafe`, `PodSumsExact` | pod sums are exact and the flush never raises, whatever the node does between fetches |
| `collision` | `MC_KubernetesCheck` | violation | `PodSumsExact` | `"a"+"bc" = "ab"+"c"`: two pods share one `pod_key` (line 170) |
| `race` | `MC_KubernetesCheck` | violation | `CheckNeverRaises` | a container started between the two cAdvisor GETs raises `KeyError` (440) |
| `pods` | `MC_ProcessPods` | pass | `TypeOK`, `RestartCountExact`, `LimitsNeverRaise`, `AbstractSpec` | `pod.restart_count` is each pod's own sum, the `name2id` lookup of `_report_container_limits` never raises, and `_process_pods` refines the abstract pass |
| `pods_limits` | `MC_ProcessPods` | violation | `LimitsOwnDims` | two waiting containers share id `''`: the first's limits carry the second's `container_name` (182, 203) |
| `pods_owner` | `MC_ProcessPods` | violation | `AtMostOneOwner` | a configured `deployment` label plus a replication controller owner give two owner dimensions (245) |
| `metrics` | `MC_ContainerMetrics` | pass | `TypeOK`, `CpuSecondsExact`, `NoLeafLeak`, `PodSumsOnlyGrow` | under Python 3 cpu values and pod sums are exact, device and interface dimensions stay on their own samples, and no step of the stats loop drops a pod sum or lowers the value the flush sends |
| `metrics_py2` | `MC_ContainerMetrics` | violation | `CpuSecondsExact` | under Python 2 the seconds are truncated (374) |
| `metrics_empty` | `MC_ContainerMetrics` | violation | `StatsLoopNeverRaises` | an empty stats series raises `IndexError` out of `check()` (444) |
| `disk` | `MC_WindowsDisk` | pass | `TypeOK`, `RollupMatchesGauges` | the rolled-up totals sum exactly the partitions gauged in the same call |
| `disk_mount` | `MC_WindowsDisk` | violation | `SampleMountOwn` | the io rates carry the mount point of the last gauged partition (84) |
| `disk_logday` | `MC_WindowsDisk` | violation | `LoggedEachDay` | `_partition_error` is never cleared, so "once per day" is once per agent life (32) |

### Bounds, and why they are enough

**`main`** (about 2.97M distinct states, about 2 minutes):
- Two pods let one pod's sums be misattributed to another.
- The four containers cover every way a container correlates: by id
  (`a1`, `a2`); by labels (`x1`, the pause container); not at all (`s`); and
  started late.
- The values are 1, 2, 4 and 8, so every subset has its own sum.

**`pods`** (859 states):
- Every ordered pair of five pods is a pod list. The five pods cover every
  owner path: ownerReferences or the annotation, replica set with each lookup
  answer, daemon set, replication controller, a Job (no owner dimension),
  two references and the OpenShift label.
- Every list has a second pod, so a carried `pod_retry_count` has a pod to
  leak into.
- Two waiting containers share `''`.

**`metrics`** (142 states):
- Three containers: one matched by id, one pause container matched by
  labels in the same pod, and one of no pod. Every processing order is
  explored.
- The cpu counters are not whole multiples of `NsPerSecond`, so truncation
  shows.
- There are two network samples on one interface, so the pod network sums
  merge.

**`disk`** (2238 states):
- Three partitions, including one filtered by fstype and one blacklisted,
  and each may fail or succeed.
- The sizes are distinct, so every set of partitions has its own total.
- Three instances, and two days.

### Mutants

Each property of a passing run has a mutant, a plausible bug in the mapped
code, that TLC catches (`mutants` in `PROJECT.json`):
- `ProcessPod` storing the `''` id breaks `TypeOK` of `main`.
- The label path without the membership test breaks `FlushLookupSafe`.
- Ignoring labels breaks `PodSumsExact`.
- Keeping the totals across calls breaks `RollupMatchesGauges`.
- A 0-based index breaks `TypeOK` of `disk`.
- Not resetting `pod_retry_count` breaks `RestartCountExact`.
- Keeping the hash segment of the deployment name breaks `AbstractSpec`.
- Not recording a status's name in `name2id` breaks `LimitsNeverRaise`.
- Copying every label breaks `TypeOK` of `pods`.
- Dropping the unit breaks `TypeOK` of `metrics`.
- Overwriting instead of adding pod sums breaks `CpuSecondsExact`.
- Writing a device into the container's own dict breaks `NoLeafLeak`.
- Restarting a pod's sums from the container's values (a `pod_metrics[key] = {}`
  reset) breaks `PodSumsOnlyGrow`. Overwriting instead of adding (`=` for
  `+=`) breaks it too: the property compares the summed values themselves,
  not the ghost counters.

### Defects noted while modelling, without a run

Four more disagreements between the code and the spec, each reached by a
single call or branch, are listed as hazards in `PROJECT.json`, with no
run:
- Under Python 3, `iter_lines()` yields bytes, so the comparison with `'ok'`
  always fails and a healthy kubelet is reported with `health_status = 1`
  (154). `KubernetesCheck` keeps the path through `LineIsOk` and the
  `Python3` constant.
- A failed `GET /pods` skips `_process_containers`, which sits in the `else`
  branch, against spec §4.6 (122).
- `CADVISOR_METRICS` maps `reads_completes` (40). cAdvisor reports
  `reads_completed`, so `container.fs.reads` is never sent. `ContainerMetrics`
  keeps the table as written.
- `WindowsCpu.check(None)` raises `AttributeError` at
  `instance.get('cpu_idle_only')` (59).

## 4. What is proved (TLAPS)

Four modules hold proofs: `KubernetesCheckProofs`, `WindowsDiskProofs`,
`ContainerMetricsProofs` and `ProcessPodsProofs`. They all check with
`tlapm`, to the last leaf. No proof module reaches a RECURSIVE operator.
Sums are recursive functions (`SumOver`, `SumRestarts`, the `Folds` behind
`MapThenSumSet`). `ContainerMetrics` and `ProcessPods` define one-line
helpers (`Range`, `Index`, `Restrict`) that the provers expand by their
definitions.

**What stays with TLC, and why:**
- **Liveness.** The project states no liveness property: `check()` has no
  loop or retry whose end could depend on the code. TLAPS would not reach
  one anyway (`ENABLED` and fairness reasoning).
- **Sums over sets.** `PodSumsExact` and `RollupMatchesGauges` are stated
  with sums over a *set* (`SumOver`, `MapThenSumSet`). Each is a recursive
  function that takes an element out with `CHOOSE`. Relating the sum after a
  step to the sum before needs the sum to be independent of the order of
  `CHOOSE`, which is a proof by induction over the set. The library's
  induction theorems take the predicate as an operator parameter
  (`NEW P(_)`), and no installed prover can instantiate it.
  A sum over a *sequence* index is different: unfolding it by one step is
  the lemma `FiniteNatInductiveDef` of `NaturalsInduction`, which has no
  operator parameter. That is how `RestartCountExact` is proved (below).
- **The violation runs.** These are properties the code breaks, so there is
  nothing to prove.

### `KubernetesCheckProofs`

All proofs hold for every value of the constants, under
`ConstantsAssumption`:
- infra containers belong to pods;
- names are strings;
- values are positive naturals;
- the sentinels are outside their sets.

**`TypeCorrect`**: `Spec => []TypeOK`. It rests on:
- `TypeInit`;
- `TypeStep`, with one step per action. Each step proves the changed
  variables' types and the `UNCHANGED` tuple separately;
- the lemmas `KeyType`, `AddToType` and `CorrelateType`.

**`FlushLookupSafeInvariant`**: `Spec => []FlushLookupSafe`. The flush
lookups never raise, whatever the interleaving with the node.

`FlushLookupSafe` alone is not inductive. A container matched by its id
takes the pod recorded in `container_dimension_map`, so the invariant must
also know that this pod's key is in `pod_dimensions_map`. The inductive
invariant is `FlushLookupInv == TypeOK /\ FlushLookupSafe /\ CtrDimsKnown`.
TLC was run with it as an invariant on `main` before the proof, and it held.
The argument:
- `ProcessPod` adds the key together with every dimension dict that names
  the pod.
- `ProcessContainer` adds only under a key that `Correlate` returns, and
  that key is known on both paths.
- `FetchStats` and `NewCycle` empty the sums.
- Every other step leaves the maps alone.

### `WindowsDiskProofs`

All proofs hold under `DiskAssumption`: `PartSeq` is a sequence without
repetition, devices are unique, `NoMount` is no partition's mount point, and
every instance is a well-formed option record or `None`'s defaults.

**`TypeCorrect`**: `Spec => []TypeOK`. `TypeOK` is inductive as it stands:
- the loop index stays in `1..Len(PartSeq)+1`;
- the totals are naturals;
- `_partition_error` and the log days hold only partitions and days that
  have passed;
- every sample is a `Sample`.

The `PartitionFails` step splits on whether `_log_once_per_day` has already
logged the partition.

### `ContainerMetricsProofs`

The assumptions are `MetricsAssumption` of `ContainerMetrics`:
- every container has a snapshot set;
- every non-empty snapshot has natural counters (`IsSnapshot`);
- `NsPerSecond` is positive.

Every theorem below holds for every snapshot set.

**`TypeCorrect`**: `Spec => []TypeOK`. The inductive invariant is
`TypeInv == TypeOK /\ AccNames /\ AccTyped /\ InHand`:
- every sum is a pair of fractions with a natural ghost (`AccTyped`);
- the sums are kept only under catalog names (`AccNames`);
- the container in hand has a well-formed snapshot (`InHand`).

The flush turns every sum into a sample, so `TypeOK` needs the sums typed
first. `AddFracType`, `MergeTyped` and `AddPodMetricsTyped` show that
`_add_pod_metric` keeps them typed.

**`NoLeafLeakInvariant`**: `LeafFreeDims => (Spec => []NoLeafLeak)`. The
hypothesis says the configured container and pod dimensions contain neither
`device` nor `interface`. They come from names, namespaces and the
instance's `kubernetes_labels`; the model takes them as constants, and the
MC's satisfy it. The inductive invariant `LeafInv` adds three facts:
- `container_dimensions` stays leaf-free, since only `unit` is written into
  it;
- the sums are kept under pod keys only;
- the per-device and per-interface copies are distinct dicts (`LeafOK`,
  `SentLeaf`).

**`CpuSecondsExactInvariant`**: `Python3 => (Spec => []CpuSecondsExact)`.
Under Python 2 the division truncates and the `metrics_py2` run finds the
violation. `CpuInv` adds `AccExact`: every cpu sum of `pod_metrics` is
exactly `raw / NsPerSecond`. Adding two exact fractions gives an exact
fraction (`AddFracExact`, `MergeExact`), so the flushed pod samples are
exact as well.

**`PodSumsOnlyGrowProperty`**: `Spec => PodSumsOnlyGrow`. It is an action
property over the summed values (fractions, compared by `FracLeq`). It rests
on `TypeInv`: the values being summed are fractions over naturals, so
`AddFracGrows` shows that `+=` never makes a sum smaller. `MergeKeeps` and
`AddPodMetricsKeeps` show that `_add_pod_metric` keeps every name and lowers
no value, and `GrowStep` checks each action.

### `ProcessPodsProofs`

The assumption is `PodsAssumption`: every pod of every list has the shape
the kubelet's `/pods` document gives it (`IsPod`), and `NoAnnot` is not an
owner reference.

**`TypeCorrect`**: `LabelsNotContainerName => (Spec => []TypeOK)`. The
hypothesis says the configured `kubernetes_labels` do not include
`container_name`. In the model, a label value is a sequence of
`-`-separated segments, while `container_name` holds a plain string.
`TypeOK` (`IsDims`) types each key by that split. A label named
`container_name` would put a segment sequence under that key in the pod
dimensions, where `TypeOK` expects a string. The hypothesis does not hide
a code path: the code sends the label either way.

`TypeOK` alone is not inductive. A `Status`, `Limits` or `PodGauges` step
reads `pods[pi]` and `ctrMap[name2id[n]]`, so the strengthening `PodsInv`
adds two facts:
- inside the inner loops, `pi` indexes the list;
- every id in `name2id` has an entry in `container_dimension_map`.

`PodsInv` was checked with TLC on the `pods` instance before the proof.
Each of the lemmas `OwnerDimensionDims`, `PodDimensionsDims`,
`ContainerDims` and `ResourceGaugesDims` shows that one of the code's dict
builders returns a dict of strings.

**`RestartCountExactInvariant`**: `Spec => []RestartCountExact`, with no
hypothesis. `pod_retry_count` is one variable that the loop over the pods
carries along. The proof shows that the reset in `BuildPod` and the sum
in `Status` make every `pod.restart_count` the pod's own sum. The
strengthening `RetryInv` says that inside a pod, `retry` is
`RestartsBefore(statuses)[si - 1]`, the sum of the statuses passed so far.
After the status loop, `si` is past the last one. `RestartsBefore` is a
recursive function over `0 .. Len(st)`. The lemma `RestartsBeforeDef`
unfolds it through `FiniteNatInductiveDef`. `RestartsIsBefore` identifies
the sum at `Len(st)` with the spec's `SumRestarts`.

**`Refinement`**: `LabelsNotPodIdentity => (Spec => AbstractSpec)`. It
proves that `_process_pods` implements `ProcessPodsAbstract` under the
mapping of §2:
- `RefInit`: the initial states map to initial states;
- `RefMap`: each action maps to a step or a stutter, with one case per
  action. `PodGauges` maps to `AReport`, the `Limits` fault to `ARaise`, and
  the other actions to stutters or pod steps.

The invariant `RefInv` adds three facts to `RetryInv`:
- `podDims` is `PodDimensions` of the pod in hand, built with the lookup
  answer recorded in `lookups`;
- that answer is one the lookup can give;
- the limits loop runs only with `report_container_metrics`.

`OwnerMatchesSpec` and `DimsMatchSpec` show that `_set_pod_owner_dimension`
and `_get_pod_dimensions` give the owner and the dimensions of spec §4.2 and
§4.3. `AbsOutcome` maps a revision answer that yields an empty deployment
name to the spec's "plain" answer. `PhaseMatchesSpec` relies on `IsPod`
giving a phase among the five the kubelet reports.

The hypothesis says `kubernetes_labels` names neither `pod_name` nor
`namespace`. It is needed. With `kubernetes_labels = {"app", "pod_name"}`
and a pod carrying a `pod_name` label, TLC finds the refinement violated,
because `_get_pod_dimensions` lets the label overwrite the pod's name. That
is a real divergence from spec §4.3 for such a configuration.

**`LimitsNeverRaiseInvariant`**:
`SpecContainersReported => (Spec => []LimitsNeverRaise)`.
`_report_container_limits` reads `name2id[container_name]` outside its
try (line 203). A `KeyError` there escapes `_process_pods` and ends the
check. The hypothesis says that in every document, each spec container of
a pod with container statuses has a status of its name. The kubelet lists
one status per container once it lists any. A document that breaks the
hypothesis does raise: the model's `Limits` sets `fault` then. The
strengthening `NameInv` says:
- during the status loop, `DOMAIN name2id` is the names of the statuses
  passed so far;
- after the loop, it is the names of all of them;
- `li` is a positive index.

In the `Limits` step, the hypothesis gives a status of the container's
name, so the lookup succeeds. `NameInv` was checked with TLC on the `pods`
instance before the proof.

## 5. Not modelled, and why

- **`windows_cpu.py`.** It is one straight pass over psutil's counters.
  It keeps no state between calls and has no interleaving, so a model
  checker adds nothing to what a unit test reaches. Its defect at line 59
  is listed above.
- **Plugin setup** (`__init__`, `prepare_run`, `_get_urls`). It validates the
  configuration once and holds no state that changes between cycles. Its
  outcome enters the models as constants: `ReportContainerMetrics`,
  `HasConnector`, `KubernetesLabels`, and the URLs.
- **Helpers outside this directory** (`utils.convert_memory_string_to_bytes`,
  `utils.get_pod_owner`, the kubernetes connector). Each enters as a table
  (`MemBytes`) or as a nondeterministic answer (the lookup's error, revision
  or plain).
- **Data with no effect on the control or the properties.** These are the
  `image` dimension, the number formatting of gauges, and the log wording.
- **`psutil` and the network itself.** Their answers are the constants and
  the nondeterministic choices of the instances: partitions, sizes, None
  values, fetch failures.
- **The network table.** `ContainerMetrics` keeps four of the counters of
  `CADVISOR_METRICS['network_metrics']`. The others follow the same path
  through `_parse_network`.
- **Documents with a spec container and no status of its name.** The
  `KeyError` path of line 203 is modelled (`Limits` sets `fault`), and
  `LimitsNeverRaise` is checked and proved for documents without such a
  container. The `MC_ProcessPods` documents have none, because the kubelet
  produces none.

## 6. Plan

1. Prove the set sums (`PodSumsExact`, `RollupMatchesGauges`) once the
   provers can instantiate an induction theorem. Until then, the recursive sums stay TLC-only. A sum written as a
   fold over a fixed, bounded index set might be unfolded by hand for the
   MC's sizes, but that proves nothing for every value of the constants.
2. Compose `ProcessPods` and `ContainerMetrics` into one snapshot model. The
   pod maps `ProcessPods` builds would then feed the correlation that
   `ContainerMetrics` now takes as constants.
3. State and prove an action property of `ProcessPods`: no step after
   `Finish` or the escaping `KeyError` sends a gauge until the next `Begin`.
