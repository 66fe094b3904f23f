------------------------------- MODULE Pricing -------------------------------
(***************************************************************************)
(* pricing.py: what a call is charged at.  A model is the routing segments *)
(* before its name and the atoms of the name itself, so that one name is a *)
(* prefix of another.  A rate is in whole units per token, and costs are   *)
(* in tenths of a unit, as a rate without a cache-read price has a tenth   *)
(* of its input price.                                                     *)
(***************************************************************************)
EXTENDS Integers, Sequences, SequencesExt, FiniteSets

CONSTANTS
    Rates,          \* the pricing table: [name -> [input, output, cache_read]]
    FallbackRate,   \* FALLBACK_USD_PER_TOKEN
    VirtualKey,     \* a segment @key of a gateway
    PricedVendors,  \* the vendors stripped where a slash ends them
    DottedVendors,  \* and those stripped where a dot does, as Bedrock writes them
    NoRate          \* None

Prices == [input : Nat, output : Nat, cache_read : Nat \cup {NoRate}]

\* The built-in table prices every model's cache, none above its input; a table
\* of the customer's may leave it out, and is taken not to price it above either.
Sane(rate) == rate.cache_read = NoRate \/ rate.cache_read <= rate.input

ASSUME RatesAssumption ==
    /\ NoRate \notin Nat /\ NoRate \notin Prices
    /\ \A name \in DOMAIN Rates :
          Len(name) \in Nat /\ Rates[name] \in Prices /\ Sane(Rates[name])
    /\ FallbackRate \in Nat

\* At most one key, then at most one vendor, then at most one written with a
\* dot, in front of the name.
WithoutKey(path) == IF path # <<>> /\ Head(path) = VirtualKey THEN Tail(path) ELSE path
WithoutVendor(path) ==
    IF path # <<>> /\ Head(path) \in PricedVendors THEN Tail(path) ELSE path
WithoutDottedVendor(path) ==
    IF path # <<>> /\ Head(path) \in DottedVendors THEN Tail(path) ELSE path
NormalizedPath(path) == WithoutDottedVendor(WithoutVendor(WithoutKey(path)))

\* The keys of the table a name may be priced by.
Candidates(name) == {key \in DOMAIN Rates : IsPrefix(key, name)}

\* The longest one does, which is the name itself where it is listed.
LookupRate(model) ==
    LET keys == Candidates(model.name)
    IN  IF NormalizedPath(model.path) # <<>> \/ keys = {} THEN NoRate
        ELSE Rates[CHOOSE k \in keys : \A other \in keys : Len(other) <= Len(k)]

Clamp(tokens) == IF tokens < 0 THEN 0 ELSE tokens

\* Of the prompt, at most all is read from the cache.
CacheRead(prompt, cached) ==
    IF Clamp(cached) < Clamp(prompt) THEN Clamp(cached) ELSE Clamp(prompt)

CacheReadRate(rate) ==
    IF rate.cache_read = NoRate THEN rate.input ELSE 10 * rate.cache_read

\* Mutant of EstimateUsd: what is read from the cache is charged twice.
EstimateTwice(rate, prompt, completion, cached) ==
    IF rate = NoRate THEN 10 * FallbackRate * (Clamp(prompt) + Clamp(completion))
    ELSE 10 * rate.input * Clamp(prompt)
         + CacheReadRate(rate) * CacheRead(prompt, cached)
         + 10 * rate.output * Clamp(completion)

EstimateUsd(rate, prompt, completion, cached) ==
    IF rate = NoRate THEN 10 * FallbackRate * (Clamp(prompt) + Clamp(completion))
    ELSE 10 * rate.input * (Clamp(prompt) - CacheRead(prompt, cached))
         + CacheReadRate(rate) * CacheRead(prompt, cached)
         + 10 * rate.output * Clamp(completion)

\* The cost of a record.
EstimateCallUsd(model, r) ==
    EstimateUsd(LookupRate(model), r.prompt_tokens, r.completion_tokens, r.cached)

\* A record without any count whose request has messages is charged for what
\* tiktoken, where it is installed, counts in them.
MaybeFillMissingTokens(r, estimate) ==
    IF r.prompt_tokens # 0 \/ r.completion_tokens # 0 \/ estimate <= 0 THEN r
    ELSE [r EXCEPT !.prompt_tokens = estimate]
=============================================================================
