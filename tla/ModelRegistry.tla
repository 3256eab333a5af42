--------------------------- MODULE ModelRegistry ---------------------------
(***************************************************************************)
(* Which models there are and which of them a wakeup may use: the registry *)
(* (runtime/model_registry.py), the adapter factory's preconditions        *)
(* (runtime/adapter_factory.py) and the router's ranking                   *)
(* (runtime/model_router.py). An id is its rank in the order of ids.       *)
(***************************************************************************)
EXTENDS Naturals, Sequences, FiniteSets

CONSTANTS
    Shipped, User,      \* the entries of model_registry.yaml and of config.toml
    Override            \* LYRE_MODEL_OVERRIDE, 0 if unset

NoWindow == 0
Tiers    == {"flagship", "workhorse", "cheap"}

\* How an endpoint authenticates: a key whose variable is set or not, headers
\* with values, headers whose values are empty once ${VAR} is replaced, nothing
Auths == {"key", "nokey", "headers", "blank", "none"}

IsEntry(e) ==
    /\ e.id \in Nat \ {0} /\ e.tier \in Tiers /\ e.auth \in Auths
    /\ e.enabled \in BOOLEAN /\ e.window \in Nat

\* parse_registry refuses a second entry of an id
ASSUME RegistryAssumption ==
    /\ IsFiniteSet(DOMAIN Shipped) /\ IsFiniteSet(DOMAIN User)
    /\ \A i \in DOMAIN Shipped : IsEntry(Shipped[i])
    /\ \A i \in DOMAIN User : IsEntry(User[i])
    /\ \A i, j \in DOMAIN Shipped : Shipped[i].id = Shipped[j].id => i = j
    /\ Override \in Nat

\* _user_entry_to_runtime: what the user left open comes from the shipped entry
Inherit(entry) ==
    LET same == {i \in DOMAIN Shipped : Shipped[i].id = entry.id}
    IN  IF entry.window = NoWindow /\ same # {}
        THEN [entry EXCEPT !.window = Shipped[CHOOSE i \in same : TRUE].window]
        ELSE entry

\* merge_user_entries: the user's entries are the registry, if there are any
Registry == IF User = <<>> THEN Shipped ELSE [i \in DOMAIN User |-> Inherit(User[i])]

\* entry_reachable looks at the name of a header, not at its value
Reachable(entry) == entry.auth \in {"key", "headers", "blank"}

\* AdapterFactory.make raises otherwise
Makeable(entry) ==
    entry.auth \in {"key", "headers"} /\ entry.provider \in {"anthropic", "openai"}

\* An adapter raises before it sends anything when it meets a block that it has
\* no form for. Without vision both kinds are replaced by a text
Convertible(entry, content) ==
    \/ "vision" \notin entry.caps
    \/ "document" \notin content
    \/ entry.provider = "anthropic"

\* Candidates are positions in the registry: a user may list an id twice.
Supporting(pref) ==
    {i \in DOMAIN Registry : Registry[i].enabled /\ pref.requires \subseteq Registry[i].caps}

\* by_id: the first entry of that id
Overriding == {i \in DOMAIN Registry : /\ Registry[i].id = Override
                                       /\ \A j \in 1..i-1 : Registry[j].id # Override}

Eligible(pref) ==
    IF Override # 0 THEN Overriding ELSE {i \in Supporting(pref) : Reachable(Registry[i])}

\* rank: the circuit, the place among the preferred, the tier, the id; then, since
\* sorted() is stable, the position
Rank(i, pref, available) ==
    LET entry  == Registry[i]
        places == {k \in DOMAIN pref.prefer : pref.prefer[k] = entry.id}
    IN  << IF available[entry.id] THEN 0 ELSE 1,
           IF places # {} THEN CHOOSE k \in places : \A l \in places : l <= k
           ELSE Len(pref.prefer) + 999,
           IF entry.tier = pref.tier THEN 0 ELSE 1,
           entry.id, i >>

Before(r, s) == \E k \in DOMAIN r : r[k] < s[k] /\ \A j \in 1..k-1 : r[j] = s[j]

\* ModelRouter.select: the one list of the candidates in the order of their ranks,
\* <<>> for NoEligibleModelError
Selections(pref, available) ==
    LET all == Eligible(pref)
        rank == [i \in all |-> Rank(i, pref, available)]
    IN  {list \in [1..Cardinality(all) -> all] :
            /\ \A i \in all : \E k \in DOMAIN list : list[k] = i
            /\ \A k, l \in DOMAIN list : k < l => Before(rank[list[k]], rank[list[l]])}

\* The entries that could answer a wakeup
Usable(pref, content) ==
    {i \in IF Override # 0 THEN Overriding ELSE Supporting(pref) :
        Makeable(Registry[i]) /\ Convertible(Registry[i], content)}

=============================================================================
