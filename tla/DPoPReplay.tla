----------------------------- MODULE DPoPReplay -----------------------------
(***************************************************************************)
(* Validation of DPoP proofs (internal/oauth2/dpop.go): the order of the   *)
(* checks of ValidateDPoPProof, the iat window, and the bounded memory of  *)
(* jtis.  JTIStore.Accept runs under a mutex and is one atomic step; the   *)
(* checks before it read nothing shared, so a whole validation is one      *)
(* step.  The process may restart with an empty store.                     *)
(*                                                                         *)
(* A proof is [jti, key, htu, ath, form]: key is its jwk header, htu the   *)
(* endpoint it names and what is appended to it (a query or a fragment),   *)
(* ath the access token it was made for; form is "bad" if it is rejected   *)
(* for its shape alone (parsing, number of signatures, typ, a missing or   *)
(* private jwk, alg, signature, htm, no iat, no jti).  age is the clock    *)
(* minus iat.                                                              *)
(***************************************************************************)
EXTENDS Integers, FiniteSets

CONSTANTS Proofs,       \* the proofs that reach the issuer, any number of times
          Endpoints,    \* the URLs that ask for a proof
          Window,       \* dpopIATWindow
          MaxSkew,      \* how far in the future an iat may lie
          MaxSize,      \* jtiStoreMaxSize
          EvictCount    \* jtiStoreEvictCount

ASSUME SizesAssumption ==
  /\ Window \in Nat /\ MaxSkew \in Nat
  /\ MaxSize \in Nat /\ EvictCount \in 1..MaxSize

JTIs == {p.jti : p \in Proofs}

VARIABLES age,        \* proof -> time since its iat, counted up to Window + 1
          set,        \* JTIStore.set
          passed,     \* history: jti -> proofs let through since it was last forgotten
          latest      \* history: {the jti let through last}, {} since a restart

vars == <<age, set, passed, latest>>

TypeOK ==
  /\ age \in [Proofs -> (-MaxSkew)..(Window + 1)]
  /\ set \subseteq JTIs /\ IsFiniteSet(set)
  /\ passed \in [JTIs -> Nat]
  /\ latest \subseteq JTIs

Init ==
  /\ age \in [Proofs -> (-MaxSkew)..0]
  /\ set = {}
  /\ passed = [j \in JTIs |-> 0]
  /\ latest = {}

-----------------------------------------------------------------------------
(* JTIStore.Accept.                                                        *)

\* Variant: eviction is triggered one entry late.
Kept_OneLate == IF Cardinality(set) > MaxSize
                THEN {s \in SUBSET set : Cardinality(set \ s) = EvictCount}
                ELSE {set}

\* What may be left once a full store has evicted: the loop deletes EvictCount
\* keys in map order, which is any order.
Kept == IF Cardinality(set) >= MaxSize
        THEN {s \in SUBSET set : Cardinality(set \ s) = EvictCount}
        ELSE {set}

\* Variant: the new jti is inserted before the eviction, which may drop it.
Remember_EvictsLast(j) ==
  \E s \in SUBSET (set \cup {j}) :
    /\ IF Cardinality(set) >= MaxSize
       THEN Cardinality((set \cup {j}) \ s) = EvictCount
       ELSE s = set \cup {j}
    /\ set' = s

\* Accept of a jti that is not in the set.
Remember(j) == \E s \in Kept : set' = s \cup {j}

Seen(j) == j \in set

-----------------------------------------------------------------------------
(* ValidateDPoPProof.                                                      *)

\* Only scheme, authority and path count.
htuMatches(claimed, expected) == claimed[1] = expected

\* Everything up to and including the iat window.
InOrder(p, htu) == p.form = "ok" /\ htuMatches(p.htu, htu) /\ age[p] \in (-Window)..Window

\* Refused before the store is asked, or as a replay: no trace is left.
Refuse(p, htu) ==
  /\ ~InOrder(p, htu) \/ Seen(p.jti)
  /\ UNCHANGED vars

\* Variant: the jti is remembered only if the ath, checked first, matches.
UseJTI_AthForgets(p, htu) ==
  /\ InOrder(p, htu) /\ ~Seen(p.jti)
  /\ Remember(p.jti) \/ UNCHANGED set
  /\ passed' = [j \in JTIs |-> IF j \in set \ set' THEN 0
                               ELSE IF j = p.jti THEN passed[j] + 1 ELSE passed[j]]
  /\ latest' = {p.jti}
  /\ UNCHANGED age

\* The jti is new and is remembered.  It is used up, whatever AthMatches says.
UseJTI(p, htu) ==
  /\ InOrder(p, htu) /\ ~Seen(p.jti)
  /\ Remember(p.jti)
  /\ passed' = [j \in JTIs |-> IF j \in set \ set' THEN 0
                               ELSE IF j = p.jti THEN passed[j] + 1 ELSE passed[j]]
  /\ latest' = {p.jti}
  /\ UNCHANGED age

\* The last check: ComputeATH of the access token of the request.
AthMatches(p, token) == p.ath = token

-----------------------------------------------------------------------------
Restart ==
  /\ set' = {}
  /\ passed' = [j \in JTIs |-> 0]
  /\ latest' = {}
  /\ UNCHANGED age

Tick ==
  /\ age' = [p \in Proofs |-> IF age[p] <= Window THEN age[p] + 1 ELSE age[p]]
  /\ UNCHANGED <<set, passed, latest>>

Next ==
  \/ \E p \in Proofs, htu \in Endpoints : Refuse(p, htu) \/ UseJTI(p, htu)
  \/ Restart
  \/ Tick

Spec == Init /\ [][Next]_vars

-----------------------------------------------------------------------------
(* Properties.                                                             *)

\* The store never holds more than its cap, although it grows after evicting.
SizeBounded == Cardinality(set) <= MaxSize

\* Of all the proofs that carry one jti, whatever access token they were made
\* for, at most one is let through until the store is made to forget the jti, by
\* an eviction at the cap or by a restart.
NoReplayWhileRemembered == \A j \in JTIs : passed[j] <= 1

\* The jti let through last is always remembered, also when letting it through
\* made the store evict: an immediate duplicate is refused.
LatestRemembered == latest \subseteq set
=============================================================================
