------------------------------ MODULE BankTable ------------------------------
(***************************************************************************)
(* The memory table of tools/g3_probe: build_bank_table.py merges the      *)
(* classes that several table-build runs and the earlier probes read for   *)
(* pairs of addresses, and joins them into banks, rows and components of   *)
(* pages; validate_table.py gates the result; query_table.py answers from  *)
(* it whether two addresses share a bank or a row.                         *)
(*                                                                         *)
(* The runs are what analyze_table_build.py wrote (ProbeAnalysis).  A read *)
(* says of a pair what the hidden memory does, except for a bounded number *)
(* of misreads over all the runs.                                          *)
(***************************************************************************)
EXTENDS ProbePlans

CONSTANTS
  Worlds,       \* bound: [gpu, legacy, deep_only, misreads] a build may meet
  Shapes,       \* bound: [bases, reps, bank_pages] of a run's pool and plan
  CensusPages,  \* the pages of the census run
  MaxRuns       \* bound: the runs of --t1

VARIABLES
  world,
  runs,         \* --t1, the freshest last: [shape, reads]
  table,        \* the edges, classes and anchors that the build wrote
  pc

table_vars == <<world, runs, table, pc>>

\* The addresses where a page of the memory begins.
Pages == {page \in Addresses : in_page(page) = 0}

ASSUME TableAssumption ==
  /\ MaxRuns \in Nat
  /\ CensusPages \subseteq Pages
  /\ \A s \in Shapes :
       /\ {s.bases, s.reps, s.bank_pages} \subseteq Seq(Pages)
       /\ ToSet(s.reps) \cup ToSet(s.bank_pages) \subseteq ToSet(s.bases)
  /\ \A w \in Worlds :
       /\ w.misreads \in Nat /\ w.deep_only \in BOOLEAN
       /\ IsFiniteSet(w.legacy)
       /\ w.legacy \subseteq [source : 1..4, at : Addresses \X Addresses,
                              class : {"deep_conflict", "shoulder", "mid", "low"}]

Truth(at) == IF Conflict(world.gpu, at[1], at[2]) THEN "deep_conflict" ELSE "low"

NoTable == [edges |-> {}]

Init ==
  /\ world \in Worlds
  /\ runs = <<>> /\ table = NoTable /\ pc = "collect"

-----------------------------------------------------------------------------
(* The runs.                                                               *)

\* table_build_edges.csv: the sections of a run that carry edges, in order.
Measured(shape) ==
  AnchorPairs(shape.bases) \o ClassifyPairs(shape.bases, shape.reps)
    \o BankPairs(shape.bank_pages)

Swept(shape) == Len(AnchorPairs(shape.bases))

Read(at, class) == [at |-> at, class |-> class]

Wrong(read) == read.class # Truth(read.at)
Decided(class) == class # "mid"

Misreads(k) == Cardinality({i \in DOMAIN runs[k].reads : Wrong(runs[k].reads[i])})
AllMisreads == MapThenSumSet(LAMBDA k : Misreads(k), DOMAIN runs)

\* A run, with at most one of its reads wrong.
Collect ==
  /\ pc = "collect" /\ Len(runs) < MaxRuns
  /\ \E shape \in Shapes :
       LET pairs == Measured(shape)
           right == [i \in DOMAIN pairs |-> Read(pairs[i], Truth(pairs[i]))]
       IN \/ runs' = Append(runs, [shape |-> shape, reads |-> right])
          \/ /\ AllMisreads < world.misreads
             /\ \E i \in DOMAIN pairs, class \in {"deep_conflict", "mid", "low"} :
                  /\ class # Truth(pairs[i])
                  /\ runs' = Append(runs, [shape |-> shape,
                                           reads |-> [right EXCEPT ![i].class = class]])
  /\ UNCHANGED <<world, table, pc>>

-----------------------------------------------------------------------------
(* load_edges: one class for every pair that anything measured.            *)

Key(at) == IF at[1] < at[2] THEN at ELSE <<at[2], at[1]>>

\* The rows of all the sources; rank 1 is the freshest of the runs, and the
\* earlier probes (reprobe, pilot, s3b, s3 are 1 to 4) rank below every run.
Rows ==
  (UNION {{[rank |-> Len(runs) - k + 1, index |-> i, key |-> Key(runs[k].reads[i].at),
            class |-> runs[k].reads[i].class] : i \in DOMAIN runs[k].reads} :
          k \in DOMAIN runs})
    \cup {[rank |-> Len(runs) + e.source, index |-> 0, key |-> Key(e.at), class |-> e.class] :
            e \in world.legacy}

FromRun(row) == row.rank <= Len(runs)

\* A run votes deep once, however often it measured the pair; every low read votes.
DeepVotes(rows, key) ==
  Cardinality({r.rank : r \in {q \in rows : FromRun(q) /\ q.key = key /\ q.class = "deep_conflict"}})
LowVotes(rows, key) == Cardinality({r \in rows : r.key = key /\ r.class = "low"})

Contested(rows, key) == DeepVotes(rows, key) > 0 /\ LowVotes(rows, key) > 0

\* Mutant: the freshest of the contesting reads wins.
FreshestWins(rows, key) ==
  LET votes == {r \in rows : FromRun(r) /\ r.key = key /\ Decided(r.class)}
  IN (CHOOSE r \in votes : \A q \in votes : r.rank <= q.rank).class

Winner(rows, key) ==
  CASE DeepVotes(rows, key) > LowVotes(rows, key) -> "deep_conflict"
    [] DeepVotes(rows, key) < LowVotes(rows, key) -> "low"
    [] OTHER -> "mid"

\* The contested reads of the runs give way to one row of the freshest run.
Settled(rows) ==
  LET contested == {key \in {r.key : r \in rows} : Contested(rows, key)} IN
  {r \in rows : ~(FromRun(r) /\ r.class \in {"deep_conflict", "low"} /\ r.key \in contested)}
    \cup {[rank |-> 1, index |-> 1 + Len(runs[Len(runs)].reads), key |-> key,
           class |-> Winner(rows, key)] : key \in contested}

\* The first decided row of a pair by rank, or its first row when none is.
load_edges ==
  LET settled == {r \in Settled(Rows) : r.key[1] # r.key[2]}
      Before(r, q) == r.rank < q.rank \/ (r.rank = q.rank /\ r.index <= q.index)
      Kept(key) ==
        LET mine == {r \in settled : r.key = key}
            decided == {r \in mine : Decided(r.class)}
            from == IF decided = {} THEN mine ELSE decided
        IN CHOOSE r \in from : \A q \in from : Before(r, q)
  IN {[key |-> key, class |-> Kept(key).class, rank |-> Kept(key).rank] :
        key \in {r.key : r \in settled}}

\* Mutant: every pair is looked up in the census, wherever it was measured.
CensusUniverse(rank) == CensusPages

\* The pages on which a source may have measured.
Universe(rank) ==
  IF rank <= Len(runs) THEN ToSet(runs[Len(runs) - rank + 1].shape.bases) ELSE CensusPages

OnItsPool(e) == {page_of(e.key[1]), page_of(e.key[2])} \subseteq Universe(e.rank)

-----------------------------------------------------------------------------
(* build: banks, rows inside a bank, components of pages.                  *)

Of(edges, classes) == {e.key : e \in {d \in edges : d.class \in classes}}
CrossPage(key) == page_of(key[1]) # page_of(key[2])
PagesOf(keys) == {<<page_of(key[1]), page_of(key[2])>> : key \in keys}

Nodes(edges) == UNION {ToSet(e.key) : e \in {d \in edges : Decided(d.class)}}

BankClasses(edges) == Classes(Nodes(edges), Of(edges, {"deep_conflict"}))

\* Mutant: a pair that reads low is one row, whatever its banks.
RowsOfAnyBank(edges, banks) == Classes(Nodes(edges), Of(edges, {"low"}))

RowClasses(edges, banks) ==
  Classes(Nodes(edges),
          {key \in Of(edges, {"low"}) : ClassOf(banks, key[1]) = ClassOf(banks, key[2])})

PageComponents(edges) ==
  LET classes == IF world.deep_only THEN {"deep_conflict"} ELSE {"shoulder", "deep_conflict"}
      links == PagesOf({key \in Of(edges, classes) : CrossPage(key)})
  IN Classes(UNION {ToSet(link) : link \in links}, links)

\* A partition as a predicate; pages without a link are in no component.
Together(classes, x, y) == \E c \in classes : {x, y} \subseteq c
SamePages(components, key) == Together(components, page_of(key[1]), page_of(key[2]))

\* contradictions: C1 to C4.
contradictions(edges, banks, rows, components) ==
  {e \in edges :
     \/ e.class = "shoulder" /\ Together(banks, e.key[1], e.key[2])
     \/ e.class = "deep_conflict" /\ Together(rows, e.key[1], e.key[2])
     \/ /\ e.class = "low" /\ CrossPage(e.key)
        /\ SamePages(components, e.key) \/ Together(banks, e.key[1], e.key[2])}

\* build_anchors: the strict majority of the sweeps that measured the cell.
build_anchors ==
  LET Cells(k) == {Key(runs[k].reads[i].at) : i \in 1 .. Swept(runs[k].shape)}
      Seen(cell) == {k \in DOMAIN runs : cell \in Cells(k)}
      Votes(cell) ==
        {k \in Seen(cell) : \E i \in 1 .. Swept(runs[k].shape) :
           runs[k].reads[i] = Read(cell, "deep_conflict")}
  IN {cell \in UNION {Cells(k) : k \in DOMAIN runs} :
        2 * Cardinality(Votes(cell)) > Cardinality(Seen(cell))}

Pool == CensusPages \cup UNION {ToSet(runs[k].shape.bases) : k \in DOMAIN runs}

\* analyze: a pair outside its pool refuses the build.
Build ==
  /\ pc = "collect"
  /\ LET edges == load_edges
         banks == BankClasses(edges)
         rows == RowClasses(edges, banks)
         components == PageComponents(edges)
     IN IF \A e \in edges : OnItsPool(e)
        THEN /\ table' = [edges |-> edges, banks |-> banks, rows |-> rows,
                          components |-> components, pages |-> Pool,
                          anchors |-> build_anchors,
                          found |-> contradictions(edges, banks, rows, components)]
             /\ pc' = "built"
        ELSE pc' = "refused" /\ UNCHANGED table
  /\ UNCHANGED <<world, runs>>

Next == Collect \/ Build

Spec == Init /\ [][Next]_table_vars

-----------------------------------------------------------------------------
(* The gates.                                                              *)

\* gate_ra: a1 to a4.
gate_ra ==
  /\ \A e \in table.edges :
       /\ e.class = "deep_conflict" => ~Together(table.rows, e.key[1], e.key[2])
       /\ e.class = "shoulder" => ~Together(table.banks, e.key[1], e.key[2])
       /\ e.class \in {"low", "shoulder"} /\ CrossPage(e.key)
            => ~SamePages(table.components, e.key)
  /\ \A c \in table.rows : Cardinality({page_of(pa) : pa \in c}) <= 1

\* The class of a pair in one run: its last row stays.
ClassIn(run, at) ==
  LET mine == {i \in DOMAIN run.reads : run.reads[i].at = at}
  IN run.reads[CHOOSE i \in mine : \A j \in mine : j <= i].class
PairsIn(run) == {run.reads[i].at : i \in DOMAIN run.reads}

AnchorsIn(run, base) ==
  {run.reads[i].at : i \in {j \in 1 .. Swept(run.shape) :
     run.reads[j].at[1] = base /\ run.reads[j].class = "deep_conflict"}}

\* Mutant: a step to the undecided band counts as a flip.
AnyFlip(one, two) ==
  {at \in PairsIn(one) \cap PairsIn(two) :
     ClassIn(one, at) # ClassIn(two, at)}

HardFlips(one, two) ==
  {at \in PairsIn(one) \cap PairsIn(two) :
     {ClassIn(one, at), ClassIn(two, at)} = {"deep_conflict", "low"}}

\* Pages with an anchor in one of the runs that have none in common.
NoCommonAnchor(one, two) ==
  {base \in ToSet(one.shape.bases) \cap ToSet(two.shape.bases) :
     /\ AnchorsIn(one, base) \cup AnchorsIn(two, base) # {}
     /\ AnchorsIn(one, base) \cap AnchorsIn(two, base) = {}}

\* gate_rc: the recall of the deep region falls with the first hard flip; the
\* shift of the cycles is not part of the classes.
gate_rc(one, two) == HardFlips(one, two) = {} /\ NoCommonAnchor(one, two) = {}

\* predict_pairs: what the table predicts about pairs that nothing measured.
predict_pairs ==
  LET RowOf(pa) == ClassOf(table.rows, pa)
      deep == Of(table.edges, {"deep_conflict"})
      linked == Classes(table.rows, {<<RowOf(key[1]), RowOf(key[2])>> : key \in deep})
      Unmeasured(bank) ==
        {key \in bank \X bank : key[1] < key[2] /\ key \notin {e.key : e \in table.edges}}
  IN UNION {{Read(key, IF RowOf(key[1]) = RowOf(key[2]) THEN "low" ELSE "deep_conflict") :
               key \in {k \in Unmeasured(bank) : Together(linked, RowOf(k[1]), RowOf(k[2]))}} :
            bank \in table.banks}

-----------------------------------------------------------------------------
(* query_table.py: an answer is what it says of the bank and of the row.   *)

Answer(bank, row) == [same_bank |-> bank, row |-> row]
Unknown == Answer("unknown", "unknown")

Linked(page) == page \in UNION table.components

InPageRelation(x, y) ==
  IF Together(table.rows, x, y) THEN Answer("yes", "same")
  ELSE IF Key(<<x, y>>) \in table.anchors THEN Answer("yes", "different")
  ELSE IF Together(table.banks, x, y) THEN Answer("yes", "unknown")
  ELSE Unknown

CrossPageRelation(x, y) ==
  IF ~(Linked(page_of(x)) /\ Linked(page_of(y))) THEN Unknown
  ELSE IF SamePages(table.components, <<x, y>>) THEN Answer("yes", "different")
  ELSE Answer("no", "unknown")

relation(x, y) ==
  IF CrossPage(<<x, y>>) THEN CrossPageRelation(x, y) ELSE InPageRelation(x, y)

Partners(page) == (UNION {c \in table.components : page \in c}) \ {page}

Site(a, b, same_bank, row) == [a |-> a, b |-> b, answer |-> Answer(same_bank, row)]

\* select_sites: the pairs that it offers near a page of the table.
select_sites(model, page) ==
  CASE model = "same-bank-diff-row" ->
         {Site(page, cell[2], "yes", "different") :
            cell \in {c \in table.anchors : c[1] = page}}
           \cup {Site(page, other, "yes", "different") : other \in Partners(page)}
    [] model = "same-row-diff-col" ->
         UNION {{Site(x, y, "yes", "same") : x \in c, y \in c} : c \in table.rows}
    [] model = "row-adjacent" ->
         {Site(page, other, "yes", "unknown") : other \in Partners(page)}

-----------------------------------------------------------------------------
Built == pc = "built"

\* The rows of any source that voted wrong on a pair, and the runs that read it
\* right.
WrongRows(key) == {r \in Rows : r.key = key /\ r.class # Truth(key)}
WrongVotes(key) == {r \in WrongRows(key) : r.class \in {"deep_conflict", "low"}}
RightRuns(key) ==
  {r.rank : r \in {q \in Rows : FromRun(q) /\ q.key = key /\ q.class = Truth(key)}}

\* The earlier probes also paired offsets of two pages; their class says nothing
\* of the first bytes, by which the pages are joined.
OffBase(e) == CrossPage(e.key) /\ ToSet(e.key) # {page_of(pa) : pa \in ToSet(e.key)}

\* What the earlier probes leave to doubt: a shoulder may link pages of two
\* banks, and so does a conflict between offsets of two pages.
Doubtful(e) ==
  \/ e.class = "shoulder" /\ CrossPage(e.key) /\ ~world.deep_only
  \/ e.class = "deep_conflict" /\ OffBase(e)

LabelsTrue ==
  \A e \in table.edges :
    /\ e.class \in {"deep_conflict", "low"} => e.class = Truth(e.key)
    /\ ~Doubtful(e)

AnchorsTrue == \A cell \in table.anchors : Truth(cell) = "deep_conflict"

\* One run had both pages in its pool, and a representative of their bank, and no
\* source read either of them against it wrong.
ComparedInOneRun(x, y) ==
  \E k \in DOMAIN runs : \E rep \in ToSet(runs[k].shape.reps) :
    /\ {x, y} \subseteq ToSet(runs[k].shape.bases)
    /\ SameBank(world.gpu, rep, x)
    /\ \A z \in {x, y} \ {rep} : WrongRows(Key(<<z, rep>>)) = {}

\* What an answer claims of the memory: a "no" only of pages that one run compared.
TrueAnswer(x, y, answer) ==
  /\ answer.same_bank = "yes" => SameBank(world.gpu, x, y)
  /\ answer.same_bank = "no" /\ ComparedInOneRun(x, y) => ~SameBank(world.gpu, x, y)
  /\ answer.row = "same" => Row(world.gpu, x) = Row(world.gpu, y)
  /\ answer.row = "different" => Conflict(world.gpu, x, y)

Offsets == {0, Anchor, ColumnProbe}

\* While every class and every anchor that the build kept is true, so are the
\* answers and the sites of query_table.py, between the bases of pages and between
\* the offsets of one page that the runs measure; except the "no" between pages
\* that no run compared, which may be false.  query_table.py:34 claims that "no"
\* of any merge of runs ("Merging runs only unions components, preserving the
\* property"), and runs over pools that share no page refute it without a misread.
AnswersSound ==
  Built /\ LabelsTrue /\ AnchorsTrue =>
    /\ \A p \in table.pages, q \in table.pages :
         p < q => TrueAnswer(p, q, relation(p, q))
    /\ \A p \in table.pages, i \in Offsets, j \in Offsets :
         i < j => TrueAnswer(p + i, p + j, relation(p + i, p + j))
    /\ \A model \in {"same-bank-diff-row", "same-row-diff-col", "row-adjacent"} :
         \A page \in table.pages : \A s \in select_sites(model, page) :
           s.a # s.b => TrueAnswer(s.a, s.b, s.answer)

\* One wrong vote on a pair, of whatever source, never decides it once two runs
\* read it right: the vote of load_edges (build_bank_table.py:168).
MisreadOutvoted ==
  Built =>
    \A e \in table.edges :
      Cardinality(WrongVotes(e.key)) <= 1 /\ Cardinality(RightRuns(e.key)) >= 2
        => e.class = Truth(e.key)

\* A gate fails, and a contradiction is reported, only over a vote that was
\* wrong, or over what the earlier probes leave to doubt: shoulders, and pairs
\* across pages away from their first bytes.  A lost anchor may also be one
\* that a run left undecided.
GatesBlameMisreads ==
  Built =>
    /\ ~gate_ra \/ table.found # {} =>
         \/ \E e \in table.edges : e.class = "shoulder" \/ OffBase(e)
         \/ \E r \in Rows : r.class \in {"deep_conflict", "low"} /\ r.class # Truth(r.key)
    /\ \A j \in DOMAIN runs, k \in DOMAIN runs :
         ~gate_rc(runs[j], runs[k]) =>
           \E r \in {runs[j], runs[k]} : \E i \in DOMAIN r.reads :
             /\ Wrong(r.reads[i])
             /\ Decided(r.reads[i].class) \/ i <= Swept(r.shape)

\* A build is refused only when an earlier probe left the census, or when a
\* contested pair, which the vote hands to the freshest run, lies outside that
\* run's pool: never over what a run read on its own pool.
RefusedOnlyByContest ==
  pc = "refused" =>
    \/ \E e \in world.legacy : ~({page_of(e.at[1]), page_of(e.at[2])} \subseteq CensusPages)
    \/ \E row \in Rows :
         /\ Contested(Rows, row.key)
         /\ ~({page_of(row.key[1]), page_of(row.key[2])} \subseteq Universe(1))

AllRight == \A k \in DOMAIN runs : Misreads(k) = 0

\* predict_pairs: a chain of deep links forces two row classes apart.
PredictionsTrue ==
  Built /\ AllRight => \A p \in predict_pairs : p.class = Truth(p.at)
=============================================================================
