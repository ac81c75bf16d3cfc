-------------------------- MODULE ProviderPayloads --------------------------
(***************************************************************************)
(* What the bake-off's checks read from a provider's pages                 *)
(* (trp/bakeoff/payloads.py).  A page is its form, and its blocks: for an  *)
(* object, the lists under its keys; for an array, the one list "array".   *)
(* An entry of a list is a record that has the keys the provider gave, or  *)
(* NotAnObject.  A value is a number, a date, a word, or Unreadable.       *)
(* Nothing raises: a row that cannot be read becomes an error, and only    *)
(* whether there are errors matters to the checks.                         *)
(***************************************************************************)
EXTENDS SequencesExt

CONSTANTS
    Null,           \* None
    Unreadable,     \* a value no parser understands
    NotAnObject,    \* an entry that is no object
    NotAList        \* a block that is no list

\* The value of the first key present
First(item, keys) ==
    LET given == {i \in DOMAIN keys : keys[i] \in DOMAIN item /\ item[keys[i]] # Null}
    IN  IF given = {} THEN Null ELSE item[keys[Min(given)]]

\* First, parsed
Parsed(item, keys) == LET v == First(item, keys) IN IF v = Unreadable THEN Null ELSE v

ArrayPage(entries) == [form |-> "array", blocks |-> [array |-> entries]]
ObjectPage(blocks) == [form |-> "object", blocks |-> blocks]
BrokenPage == [form |-> "broken", blocks |-> <<>>]

\* A top-level array is the block, whatever was asked for.
BlockOf(page, key) ==
    LET name == IF page.form = "array" THEN "array" ELSE key
    IN  IF name \in DOMAIN page.blocks THEN page.blocks[name] ELSE NotAList

EntriesOf(page, key) ==
    IF BlockOf(page, key) = NotAList THEN <<>>
    ELSE SelectSeq(BlockOf(page, key), LAMBDA e : e # NotAnObject)

\* Empty and undecodable pages, missing blocks and entries of another type
PageErrs(page, key) ==
    \/ BlockOf(page, key) = NotAList
    \/ NotAnObject \in {BlockOf(page, key)[i] : i \in DOMAIN BlockOf(page, key)}

EntriesIn(pages, key) ==
    [items |-> FlattenSeq([i \in DOMAIN pages |-> EntriesOf(pages[i], key)]),
     errors |-> \E i \in DOMAIN pages : PageErrs(pages[i], key)]

\* The same entries where they are: by page and place
EntriesAt(pages, key) ==
    LET Places(p) == IF BlockOf(pages[p], key) = NotAList THEN {} ELSE DOMAIN BlockOf(pages[p], key)
        entry == [at \in UNION {{p} \X Places(p) : p \in DOMAIN pages} |-> BlockOf(pages[at[1]], key)[at[2]]]
    IN  RestrictValues(entry, LAMBDA e : e # NotAnObject)

Precedes(p, q) == p[1] < q[1] \/ (p[1] = q[1] /\ p[2] < q[2])

-----------------------------------------------------------------------------
PriceRow(item) ==
    [date |-> Parsed(item, <<"date", "datetime", "d">>),
     close |-> Parsed(item, <<"close", "c", "close_price">>),
     adjusted |-> Parsed(item, <<"adjusted_close", "adjClose", "adjusted", "adj_close">>)]

\* Rows without a usable date are errors; the others are sorted by date.
ParsePrices(pages) ==
    LET raw == EntriesIn(pages, "rows")
        rows == [i \in DOMAIN raw.items |-> PriceRow(raw.items[i])]
        dated == SelectSeq(rows, LAMBDA r : r.date # Null)
    IN  [items |-> SortSeq(dated, LAMBDA r, s : r.date < s.date),
         errors |-> raw.errors \/ Len(dated) < Len(rows)]

\* _split_shares: the two counts, a ratio new:old, or a factor
SplitShares(item) ==
    LET new == Parsed(item, <<"new_shares">>)
        old == Parsed(item, <<"old_shares">>)
        ratio == Parsed(item, <<"ratio", "split_ratio", "split">>)
        factor == Parsed(item, <<"factor", "split_factor", "splitFactor">>)
    IN  CASE new # Null /\ old # Null -> <<new, old>>
          [] ~(new # Null /\ old # Null) /\ ratio # Null -> ratio
          [] ~(new # Null /\ old # Null) /\ ratio = Null /\ factor # Null -> <<factor, 1>>
          [] OTHER -> <<new, old>>

\* _infer_kind: an inline row with a split and cash is a split
InferKind(shares, amount) ==
    CASE shares[1] # Null /\ shares[2] # Null /\ shares[1] # shares[2] -> "split"
      [] amount # Null /\ (shares[1] = Null \/ shares[2] = Null \/ shares[1] = shares[2]) ->
            IF amount > 0 THEN "dividend" ELSE Null
      [] OTHER -> Null

AmountKeys == <<"amount", "value", "dividend", "cash_amount", "divCash">>

ActionRow(item) ==
    LET shares == SplitShares(item)
        amount == Parsed(item, AmountKeys)
        named == First(item, <<"type", "action", "kind">>)
    IN  [kind |-> IF named # Null THEN named ELSE InferKind(shares, amount),
         ex |-> Parsed(item, <<"ex_date", "exDate", "ex_dividend_date", "date">>),
         new |-> shares[1], old |-> shares[2], amount |-> amount,
         unit |-> First(item, <<"currency", "unit">>)]

\* A row that is neither split nor cash is a price row and is skipped.
ParseActions(pages) ==
    LET entries == EntriesAt(pages, "actions")
        rows == [at \in DOMAIN entries |-> ActionRow(entries[at])]
    IN  [items |-> RestrictValues(rows, LAMBDA r : r.kind # Null),
         errors |-> \E i \in DOMAIN pages : PageErrs(pages[i], "actions")]

HasRatio(a) == a.new # Null /\ a.old \notin {Null, 0}

\* normalise_unit: pence and pounds differ by the case of a letter
NormalUnit(unit) ==
    IF unit \in {"GBp", "GBX", "gbx"} THEN "GBX" ELSE IF unit = "gbp" THEN "GBP" ELSE unit

-----------------------------------------------------------------------------
PeriodKeys == <<"period_end", "periodEnd", "date", "fiscal_period_end">>
FiledKeys == <<"filed_at", "filingDate", "filing_date", "acceptedDate", "accepted_date">>
KnownKeys == <<"first_known_at", "available_at", "firstKnownAt">>

\* A row of the list under a key: the cadences of EODHD name the type themselves.
StatementRow(item, key) ==
    [periodEnd |-> Parsed(item, PeriodKeys),
     type |-> CASE key = "yearly" -> "annual"
                [] key = "quarterly" -> "quarterly"
                [] key = "statements" -> First(item, <<"period_type", "period", "periodType">>),
     filed |-> Parsed(item, FiledKeys),
     firstKnown |-> Parsed(item, KnownKeys),
     value |-> Parsed(item, <<"value">>)]

\* The figure of the line item stands for the items of a statement.
PublicationAt(row) == IF row.firstKnown # Null THEN row.firstKnown ELSE row.filed

\* The statements where they are: by key, page and place.  Pages are in the neutral
\* form or in the dialect of EODHD.
ParseStatements(pages) ==
    LET dialect == RestrictValues(pages, LAMBDA p : p.form = "eodhd")
        neutral == RestrictValues(pages, LAMBDA p : p.form # "eodhd")
        found == [yearly |-> EntriesAt(dialect, "yearly"), quarterly |-> EntriesAt(dialect, "quarterly"),
                  statements |-> EntriesAt(neutral, "statements")]
    IN  [at \in UNION {{key} \X DOMAIN found[key] : key \in DOMAIN found} |->
            StatementRow(found[at[1]][at[2]], at[1])]

-----------------------------------------------------------------------------
\* A finding of a check
Found(outcome, reason) == [outcome |-> outcome, reason |-> reason]

Distance(a, b) == IF a < b THEN b - a ELSE a - b
=============================================================================
