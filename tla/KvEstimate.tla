----------------------------- MODULE KvEstimate -----------------------------
(* The KV-cache footprint of a request (crate kv-estimate) and the headroom  *)
(* test of the capacity strategy (routing/kv_capacity.rs), on unbounded      *)
(* integers: the products of the code are u64 and far from overflow for any  *)
(* real model.  A spec is a record of the fields the formulas read.          *)
EXTENDS Integers, Sequences, SequencesExt, FiniteSetsExt

CONSTANTS
    CustomEntries,  \* the operator's [[kv_estimate.models]]: a sequence of [name, spec]
    BuiltinEntries, \* the table compiled in: a sequence of [pattern, spec]
    NameContains    \* the pairs <<model, pattern>> where the name contains the pattern

Dtypes == {"fp32", "fp16", "bf16", "fp8", "int8"}

DtypeBytes(d) ==
    CASE d = "fp32"             -> 4
      [] d \in {"fp16", "bf16"} -> 2
      [] d \in {"fp8", "int8"}  -> 1

\* ModelSpec::standard and ModelSpec::mla; a window of 0 is full attention.
StandardSpec(layers, heads, dim, dtype, window) ==
    [attention |-> "standard", layers |-> layers, heads |-> heads, dim |-> dim,
     rank |-> 0, rope |-> 0, dtype |-> dtype, window |-> window]

MlaSpec(layers, rank, rope, dtype) ==
    [attention |-> "mla", layers |-> layers, heads |-> 0, dim |-> 0,
     rank |-> rank, rope |-> rope, dtype |-> dtype, window |-> 0]

\* K and V per layer and head, or the one latent vector of MLA.
PerTokenBytes(spec) ==
    DtypeBytes(spec.dtype) * spec.layers *
        (IF spec.attention = "standard"
         THEN 2 * spec.heads * spec.dim
         ELSE spec.rank + spec.rope)

PerBlockBytes(spec, blockSize) == PerTokenBytes(spec) * blockSize

DivCeil(a, b) == (a + b - 1) \div b

\* What of a sequence stays cached under a sliding window.
EffectiveLength(spec, tokens) ==
    IF spec.window > 0 THEN Min({spec.window, tokens}) ELSE tokens

\* estimate_kv for one sequence: the code's batch size is always 1 here.
EstimateKv(spec, inTokens, outTokens, blockSize) ==
    LET effective == EffectiveLength(spec, inTokens + outTokens)
        blocks    == IF blockSize > 0 THEN DivCeil(effective, blockSize) ELSE 0
    IN  [blocks   |-> blocks,
         bytes    |-> PerTokenBytes(spec) *
                          (IF blockSize > 0 THEN blocks * blockSize ELSE effective),
         perToken |-> PerTokenBytes(spec)]

\* build_catalog(): a later entry of the same name replaces an earlier one.
Named(name) == {i \in DOMAIN CustomEntries : CustomEntries[i].name = name}
BuildCatalog ==
    [name \in {e.name : e \in Range(CustomEntries)} |-> CustomEntries[Max(Named(name))].spec]

\* contains_ascii_ci(), for the names and patterns of the table.
Matches(model, pattern) == <<model, pattern>> \in NameContains

\* lookup_builtin(): the first pattern the name contains.
BuiltinMatches(model) == {i \in DOMAIN BuiltinEntries : Matches(model, BuiltinEntries[i].pattern)}
LookupBuiltin(model) == BuiltinEntries[Min(BuiltinMatches(model))].spec

\* The catalog knows the operator's names exactly, and else the patterns.
Estimable(model) == model \in DOMAIN BuildCatalog \/ BuiltinMatches(model) # {}

SpecFor(model) ==
    IF model \in DOMAIN BuildCatalog THEN BuildCatalog[model] ELSE LookupBuiltin(model)

-----------------------------------------------------------------------------
(* Capacity.  `m` is a metrics record; GPU memory is in bytes, of which half *)
(* (gpu_mem_safety_fraction, 0.5 by default) may be claimed.                 *)

\* What the capacity signal leaves: free blocks, else free GPU memory.
FreeBytes(est, m, blockSize) ==
    IF m.kvTotal > 0 /\ blockSize > 0 /\ est.perToken > 0
    THEN Max({m.kvTotal - m.kvUsed, 0}) * est.perToken * blockSize
    ELSE Max({m.gpuTotal - m.gpuUsed, 0}) \div 2

HasCapacitySignal(est, m, blockSize) ==
    (m.kvTotal > 0 /\ blockSize > 0 /\ est.perToken > 0) \/ m.gpuTotal > 0

\* score_capacity keeps a backend if it has something free, and enough.
Admits(est, m, blockSize) ==
    /\ FreeBytes(est, m, blockSize) > 0
    /\ est.bytes =< FreeBytes(est, m, blockSize)
=============================================================================
