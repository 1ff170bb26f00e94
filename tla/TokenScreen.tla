----------------------------- MODULE TokenScreen ----------------------------
(***************************************************************************)
(* How a pair the mempool trades becomes a pool of the configuration: the  *)
(* hot-token tracker (hot_token.rs), the screen for taxed and unsellable   *)
(* tokens (crates/simulator/src/fee_on_transfer.rs) and the admission gate *)
(* (pool_admission.rs).                                                    *)
(*                                                                         *)
(* A token is [in_tax, out_tax, sells, buys, slot, decoy]: the taxes on    *)
(* transfers into and out of a pool, whether each is possible, the storage *)
(* slot of its balances, and a slot that happens to hold the same number.  *)
(* A venue is [address, token, rt, rb, liquidity]: its reserves of the     *)
(* token and of the base asset and its liquidity in dollars.               *)
(***************************************************************************)
EXTENDS Integers, Sequences, SequencesExt, FiniteSets, FiniteSetsExt

CONSTANTS
    Tokens,             \* name -> the token
    Venues,             \* the venues a pair may be found on
    Whole,              \* the whole taxes and fees are parts of (10,000)
    Fee, Fraction, MaxTax, MaxLoss,
    MaxSlotProbe, MinVenues, MinLiquidity, HotVenues,
    RequireClean,       \* require_fot_clean
    Floor,              \* prune_below_score
    Written,            \* the addresses in the file at the start
    MaxTime, MaxRuns

ScreenAssumption ==
    /\ Whole \in Nat \ {0} /\ {Fee, Fraction, MaxTax, MaxLoss} \subseteq 0..Whole
    /\ MinVenues \in Nat /\ HotVenues \in Nat /\ MaxTime \in Nat /\ RequireClean \in BOOLEAN
    /\ \A v \in Venues : v.token \in DOMAIN Tokens /\ v.rt \in Nat /\ v.rb \in Nat

VARIABLES
    now, stats, hits,        \* the tracker, and the swaps it was told of
    pc, token, venues,
    verdict, trip,           \* what the two screens say
    file, admitted, pools,   \* pools.toml, what the gate added, the registry
    runs

hotVars == <<now, stats, hits>>
gateVars == <<pc, token, venues, verdict, trip, runs>>
vars == <<hotVars, gateVars, file, admitted, pools>>

-----------------------------------------------------------------------------
\* 0.5 ^ (dt / half_life), with a clock that ticks once per half-life; a clock
\* that runs backwards does not raise a score.
decay_factor(score, dt) == score \div 2^(IF dt > 0 THEN dt ELSE 0)

Hit == 2^MaxTime
NoStat == [score |-> 0, last |-> 0, venues |-> {}]

\* One swap of the pair of the token with the base asset, seen on the venue.
record(t, venue) ==
    [stats EXCEPT ![t] = [score |-> decay_factor(@.score, now - @.last) + Hit,
                          last |-> Max({@.last, now}), venues |-> @.venues \union {venue}]]

score(t) == decay_factor(stats[t].score, now - stats[t].last)

Record(t, venue) ==
    /\ <<t, now>> \notin hits
    /\ stats' = record(t, venue) /\ hits' = hits \union {<<t, now>>}
    /\ UNCHANGED <<now, gateVars, file, admitted, pools>>

\* The pairs whose score has decayed below the floor are dropped.
prune == [t \in DOMAIN Tokens |-> IF score(t) < Floor THEN NoStat ELSE stats[t]]

\* The candidates, best first: here those a run of the gate may take.
candidates ==
    {t \in DOMAIN Tokens : stats[t] # NoStat /\ Cardinality(stats[t].venues) >= HotVenues
        /\ \A u \in DOMAIN Tokens : Cardinality(stats[u].venues) >= HotVenues => score(u) <= score(t)}

\* The pipeline's periodic report: cold pairs are dropped, the others are logged.
report_hot_tokens ==
    /\ stats' = prune
    /\ hits' = {h \in hits : stats'[h[1]] # NoStat}
    /\ UNCHANGED <<now, gateVars, file, admitted, pools>>

Tick == now < MaxTime /\ now' = now + 1 /\ UNCHANGED <<stats, hits, gateVars, file, admitted, pools>>

-----------------------------------------------------------------------------
taxed(amount, tax) == amount - (amount * tax) \div Whole

\* What was lost of what was expected, in parts of the whole.
tax_bps(expected, actual) ==
    IF expected = 0 \/ actual >= expected THEN 0 ELSE ((expected - actual) * Whole) \div expected

classify_transfer(sent, received) == IF tax_bps(sent, received) <= MaxTax THEN "clean" ELSE "fot"

\* The first slot that holds the known balance of the pool; -1 when none does.
discover_balance_slot(t, balance) ==
    LET found == {s \in {t.slot, t.decoy} : 0 <= s /\ s < MaxSlotProbe}
    IN  IF balance = 0 \/ found = {} THEN -1 ELSE Min(found)

probe(balance) == Max({(balance * Fraction) \div Whole, 1})

\* One transfer to the pool from a holder whose balance is written into the slot
\* that was found: in the wrong slot it gives the holder nothing to transfer.
screen_token_transfer(t, balance) ==
    LET slot == discover_balance_slot(t, balance) x == probe(balance)
    IN  IF slot = -1 THEN "inconclusive"
        ELSE IF slot # t.slot \/ ~t.sells THEN "honeypot"
        ELSE classify_transfer(x, taxed(x, t.in_tax))

\* The constant-product output, zero on degenerate input.
expected_amount_out(in, reserve_in, reserve_out) ==
    IF in = 0 \/ reserve_in = 0 \/ reserve_out = 0 \/ Fee >= Whole THEN 0
    ELSE (in * (Whole - Fee) * reserve_out) \div (reserve_in * Whole + in * (Whole - Fee))

classify_round_trip(base_in, base_out) ==
    LET actual == (base_out * Whole) \div base_in
        expected == ((Whole - Fee) * (Whole - Fee)) \div Whole
    IN  IF base_out = 0 THEN "honeypot"
        ELSE IF expected - actual <= MaxLoss THEN "clean" ELSE "fot"

\* A transfer of one of the calls, committed for the next call when the call
\* succeeds: what arrives, or -1.
v2_transact(allowed, amount, tax) == IF allowed THEN taxed(amount, tax) ELSE -1

\* The sell: transfer what was bought to the pair, and take out base for what
\* arrived.  The pair has the reserves that the buy left.
sell(t, got, rt, rb, base_in) ==
    LET back == v2_transact(t.sells, got, t.in_tax)
        base_out == expected_amount_out(back, rt, rb)
    IN  IF back = -1 \/ base_out = 0 THEN "honeypot" ELSE classify_round_trip(base_in, base_out)

\* Buy with base, then sell what arrived.
screen_token_v2_round_trip(t, rt, rb) ==
    LET slot == discover_balance_slot(t, rt)
        base_in == probe(rb)
        bought == expected_amount_out(base_in, rb, rt)
        out == v2_transact(t.buys, bought, t.out_tax)
        got == IF slot = t.slot THEN out ELSE 0
    IN  IF rt = 0 \/ rb = 0 \/ slot = -1 \/ bought = 0 \/ out = -1 THEN "inconclusive"
        ELSE IF got = 0 THEN "honeypot"
        ELSE sell(t, got, rt - bought, rb + base_in, base_in)

-----------------------------------------------------------------------------
\* A run of the gate takes a candidate and looks up its venues.
Enrich ==
    /\ pc = "idle" /\ runs < MaxRuns /\ runs' = runs + 1
    /\ token' \in candidates /\ pc' = "screen"
    /\ venues' \in {SetToSeq(S) : S \in SUBSET {v \in Venues : v.token = token'}}
    /\ verdict' = "none" /\ trip' = "none" /\ UNCHANGED <<hotVars, file, admitted, pools>>

\* The token is screened on one of its venues, each time on a fork that may fail.
Screen ==
    /\ pc = "screen" /\ pc' = "decide"
    /\ \E v \in Range(venues) \union {[token |-> token, rt |-> 0, rb |-> 0]} :
         /\ verdict' \in {screen_token_transfer(Tokens[token], v.rt), "inconclusive"}
         /\ trip' \in {screen_token_v2_round_trip(Tokens[token], v.rt, v.rb), "inconclusive"}
    /\ UNCHANGED <<token, venues, runs, hotVars, file, admitted, pools>>

\* The entries the gate admits: none unless the screen is clean and enough
\* venues are liquid.
evaluate ==
    LET qualified == SelectSeq(venues, LAMBDA v : v.liquidity >= MinLiquidity)
    IN  IF (RequireClean /\ verdict # "clean") \/ Len(qualified) < MinVenues THEN <<>>
        ELSE [i \in DOMAIN qualified |-> qualified[i].address]

read_existing_addresses == Range(file)

\* The entries that are not in the file go to its end.
append_admitted_pools(entries) ==
    FoldLeft(LAMBDA f, a : IF a \in read_existing_addresses \union
                                   {f[i] : i \in (Len(file) + 1)..Len(f)}
                           THEN f ELSE Append(f, a), file, entries)

Admit ==
    /\ pc = "decide" /\ pc' = "reload"
    /\ file' = append_admitted_pools(evaluate)
    /\ admitted' = admitted \union (Range(file') \ Range(file))
    /\ UNCHANGED <<token, venues, verdict, trip, runs, hotVars, pools>>

\* The configuration is read again: every entry is registered.
Reload ==
    /\ pc = "reload" /\ pc' = "idle" /\ pools' = Range(file)
    /\ UNCHANGED <<token, venues, verdict, trip, runs, hotVars, file, admitted>>

Init ==
    /\ now = 0 /\ stats = [t \in DOMAIN Tokens |-> NoStat] /\ hits = {}
    /\ pc = "idle" /\ token \in DOMAIN Tokens /\ venues = <<>>
    /\ verdict = "none" /\ trip = "none"
    /\ file = Written /\ admitted = {} /\ pools = Range(Written) /\ runs = 0

Next ==
    \/ \E t \in DOMAIN Tokens, venue \in {"v2", "sushi"} : Record(t, venue)
    \/ report_hot_tokens \/ Tick \/ Enrich \/ Screen \/ Admit \/ Reload

Spec == Init /\ [][Next]_vars

-----------------------------------------------------------------------------
\* The lazily decayed score is the sum of the hits, each with its own decay, in
\* whatever order hits, reads and prunes come: quiet pairs need no update.
ScoreIsDecayedSum ==
    \A t \in DOMAIN Tokens :
        score(t) = MapThenSumSet(LAMBDA h : decay_factor(Hit, now - h[2]),
                                 {h \in hits : h[1] = t})

\* A pool the gate put into the configuration is there once, and what is sent to
\* it arrives but for the tolerated tax: nothing the screen could not run or
\* found wanting gets in.
AdmittedSound ==
    /\ RequireClean => \A v \in Venues : v.address \in admitted =>
         Tokens[v.token].sells /\
         \A x \in {probe(v.rt)} : tax_bps(x, taxed(x, Tokens[v.token].in_tax)) <= MaxTax
    /\ \A i, j \in DOMAIN file : i # j => file[i] # file[j]

\* The round trip passes no token that cannot be bought or sold, and does not take
\* the price impact of its own probe for a tax.
RoundTripSound ==
    /\ trip = "clean" => Tokens[token].sells /\ Tokens[token].buys
    /\ trip = "fot" => Tokens[token].in_tax + Tokens[token].out_tax > 0
=============================================================================
