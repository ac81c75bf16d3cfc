------------------------------ MODULE Backfill ------------------------------
(***************************************************************************)
(* Backfill and canonicalisation of the index members                      *)
(* (trp/universe/ftse_build.py): per provider code one page of prices, of  *)
(* splits and of dividends into the raw store, by a run that may be killed *)
(* and repeated; then bars attributed to the code whose window holds their *)
(* day, appended to the price store, and the action files written anew.    *)
(* Codes are numbers, whose order is that of the symbols.                  *)
(***************************************************************************)
EXTENDS Ranges, Sequences, FiniteSetsExt

CONSTANTS
    Codes,
    SecurityOf,     \* the security of a code
    Windows,        \* validity windows a code may have: [from, to)
    Days,
    MaxKills        \* bound

ASSUME BackfillAssumption ==
    /\ Codes \subseteq Nat /\ Days \subseteq Int
    /\ Windows \subseteq [from : Int, to : Int]

VARIABLES
    window,         \* code |-> validity of its identifier
    payload,        \* code |-> days of which the provider has a bar
    raw,            \* archived pages: pairs of code and dataset
    todo,           \* requests left of the running backfill: pairs of code and position
    stored,         \* price store: pairs of security and day |-> code the bar came from
    actions,        \* codes and datasets in the action files
    kills,
    early           \* history: canonicalised before all prices were archived

backfilling == <<window, payload, raw, todo, stored, actions, kills, early>>

Requests == <<"prices", "splits", "dividends">>

Archived(c) == <<c, "prices">> \in raw

CodesOf(s) == {c \in Codes : SecurityOf[c] = s}

BackfillInit ==
    /\ window \in [Codes -> Windows] /\ payload \in [Codes -> (SUBSET Days) \ {{}}]
    /\ \A c, d \in Codes : c # d /\ SecurityOf[c] = SecurityOf[d] => ~RangesOverlap(window[c], window[d])
    /\ raw = {} /\ todo = {} /\ stored = <<>> /\ actions = {} /\ kills = 0 /\ early = FALSE

\* Codes whose prices are archived are skipped.
StartBackfill ==
    /\ todo = {}
    /\ \E c \in Codes : ~Archived(c)
    /\ todo' = {c \in Codes : ~Archived(c)} \X DOMAIN Requests
    /\ UNCHANGED <<window, payload, raw, stored, actions, kills, early>>

\* Code after code, and of each its prices first
Earlier(p, q) == p[1] < q[1] \/ (p[1] = q[1] /\ p[2] < q[2])

Fetch ==
    /\ \E p \in todo :
          /\ \A q \in todo \ {p} : Earlier(p, q)
          /\ raw' = raw \cup {<<p[1], Requests[p[2]]>>} /\ todo' = todo \ {p}
    /\ UNCHANGED <<window, payload, stored, actions, kills, early>>

KillBackfill ==
    /\ todo # {} /\ kills < MaxKills
    /\ todo' = {} /\ kills' = kills + 1
    /\ UNCHANGED <<window, payload, raw, stored, actions, early>>

Away(d, e) == IF d < e THEN e - d ELSE d - e

Gap(c, d) ==
    Min({Away(d, window[c].from)} \cup (IF window[c].to = None THEN {} ELSE {Away(d, window[c].to)}))

\* Mutant: windows are not looked at.
AnyWindow(c, d) == TRUE

\* A security's only code takes its full payload.
InWindow(c, d) ==
    \/ CodesOf(SecurityOf[c]) = {c}
    \/ window[c].from <= d /\ (window[c].to = None \/ d <= window[c].to)

\* The first symbol of those in their window, or else the one whose window is nearest
Chosen(candidates, d) ==
    LET windowed == {c \in candidates : InWindow(c, d)}
        nearest == {c \in candidates : \A o \in candidates : Gap(c, d) <= Gap(o, d)}
    IN  IF windowed # {} THEN Min(windowed) ELSE Min(nearest)

\* write_prices appends the bars of new keys.
Canonicalise ==
    /\ todo = {}
    /\ LET has(key) == {c \in CodesOf(key[1]) : Archived(c) /\ key[2] \in payload[c]}
           keys == {key \in {SecurityOf[c] : c \in Codes} \X Days : has(key) # {}}
       IN  stored' = [key \in DOMAIN stored \cup keys |->
                        IF key \in DOMAIN stored THEN stored[key] ELSE Chosen(has(key), key[2])]
    /\ actions' = {p \in raw : p[2] # "prices"}
    /\ early' = (early \/ \E c \in Codes : ~Archived(c))
    /\ UNCHANGED <<window, payload, raw, todo, kills>>

BackfillNext == StartBackfill \/ Fetch \/ KillBackfill \/ Canonicalise

BackfillSpec == BackfillInit /\ [][BackfillNext]_backfilling

-----------------------------------------------------------------------------
Rightful(key) ==
    {c \in CodesOf(key[1]) : key[2] \in payload[c] /\ Covers(window[c], key[2])}

\* A day that belongs to one code of a security is stored from that code, and not from another
\* that has the day as well, unless the day is the end of the other's window, which counts
\* as within, or the prices were canonicalised before all were archived: what is stored stays.
RightCode ==
    ~early =>
        \A key \in DOMAIN stored :
            /\ Rightful(key) # {}
            /\ \A c \in CodesOf(key[1]) : window[c].to # key[2]
            => stored[key] \in Rightful(key)
=============================================================================
