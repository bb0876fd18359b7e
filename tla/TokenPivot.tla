------------------------------ MODULE TokenPivot ------------------------------
\* The token table (token_detail.js): rows of one query, per model and day, and of another
\* for the time before, pivoted into one column per class of models and a total.
EXTENDS Integers, Sequences, FiniteSets, FiniteSetsExt

CONSTANTS
    Models,        \* names of models
    Rules,         \* the classes of the configuration, in order
    Matches,       \* rule -> the models its pattern matches
    Amounts, Nets, \* tokens of a row, and those that were new
    MaxRows        \* bound: the rows of a query

PivotAssumption == Amounts \subseteq Nat /\ Nets \subseteq Nat /\ MaxRows \in Nat

Null == -1
Fallback == "fallback"
Days == {1, 2}

VARIABLES rows, totals, excluded, columns
vars == <<rows, totals, excluded, columns>>

\* A row without net_tokens comes from a query without that column.
RowSets(days) ==
    UNION {[1..n -> [model : Models, day : days, tokens : Amounts, net : Nets]]
             \cup [1..n -> [model : Models, day : days, tokens : Amounts, net : {Null}]] : n \in 0..MaxRows}

\* totals: none was asked for, or the rows of all time or of the time before the window.
Init ==
    /\ rows \in RowSets(Days)
    /\ totals \in RowSets({0})
    /\ excluded \in BOOLEAN
    /\ columns = <<>>

-----------------------------------------------------------------------------
\* classOf: the first rule that matches.
ClassOf(model) ==
    LET hits == {i \in DOMAIN Rules : model \in Matches[Rules[i]]}
    IN  IF hits = {} THEN Fallback ELSE Rules[Min(hits)]

Classes == {Rules[i] : i \in DOMAIN Rules} \cup {Fallback}
In(rs, class) == {i \in DOMAIN rs : ClassOf(rs[i].model) = class}
Sum(rs, is, f) == MapThenSumSet(LAMBDA i : rs[i][f], is)

Today == IF rows = <<>> THEN Null ELSE Max({rows[i].day : i \in DOMAIN rows})
OfDay(is, d) == {i \in is : rows[i].day = d}
HasNet(rs) == \E i \in DOMAIN rs : rs[i].net # Null

UseTotals == totals # <<>>

\* Wrong on purpose, to show that FiguresHold sees it: the window is added to totals that
\* contain it.
AlwaysWindow(class, f) == Sum(rows, In(rows, class), f)

\* win: the window counts beside totals that stop where it starts, or without any.
Window(class, f) == IF UseTotals /\ ~excluded THEN 0 ELSE Sum(rows, In(rows, class), f)

\* allOf, netOf.
AllOf(class, f) == (IF UseTotals THEN Sum(totals, In(totals, class), f) ELSE 0) + Window(class, f)
HasNetAll == IF UseTotals THEN HasNet(totals) /\ (excluded => HasNet(rows)) ELSE HasNet(rows)

\* pivotTokens: a column for each class; the days of each in the matrix.
Pivot ==
    /\ columns = <<>>
    /\ columns' = [c \in Classes |->
         [all |-> AllOf(c, "tokens"), net |-> IF HasNetAll THEN AllOf(c, "net") ELSE Null,
          today |-> Sum(rows, OfDay(In(rows, c), Today), "tokens"),
          matrix |-> [d \in Days |-> Sum(rows, OfDay(In(rows, c), d), "tokens")]]]
    /\ UNCHANGED <<rows, totals, excluded>>

Spec == Init /\ [][Pivot]_vars
-----------------------------------------------------------------------------
Column(f) == MapThenSumSet(LAMBDA c : columns[c][f], Classes)
InMatrix(d) == MapThenSumSet(LAMBDA c : columns[c].matrix[d], Classes)

\* The rows that stand for all of the time: those of totals, if there are any, and those of
\* the window unless totals hold it already.
Earlier == IF UseTotals THEN DOMAIN totals ELSE {}
Recent == IF UseTotals /\ ~excluded THEN {} ELSE DOMAIN rows
InAll(f) == Sum(totals, Earlier, f) + Sum(rows, Recent, f)

\* Every row counts once, whichever rules match its model: the total column is what was
\* used in all, the matrix adds up to the window day by day and today is its last day.  A
\* net figure of any class is claimed only when every row it could add up carried one, and
\* then they add up to the same rows' net (token_detail.js:69-75, 118-140).
EveryRowCountsOnce ==
    columns # <<>> =>
      /\ Column("all") = InAll("tokens")
      /\ \A d \in Days : InMatrix(d) = Sum(rows, OfDay(DOMAIN rows, d), "tokens")
      /\ Today # Null => Column("today") = InMatrix(Today)
      /\ (\E c \in Classes : columns[c].net # Null) =>
           /\ \A i \in Earlier : totals[i].net # Null
           /\ \A i \in Recent : rows[i].net # Null
           /\ Column("net") = InAll("net")
================================================================================
