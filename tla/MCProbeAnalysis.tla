---------------------------- MODULE MCProbeAnalysis ----------------------------
EXTENDS ProbeRelabel

\* Pages of 8 units in an address space of 8 pages; the pool has 4 of them.
Probes == <<1>>
Candidates == <<6, 2>>

Options ==
  [in_page_bases |-> 2, pairs_per_bit |-> 2, page_samples |-> 2, anchor_samples |-> 3,
   census_stride |-> 2, repeat_pages |-> 2, pilot_pages |-> 2, bank_map_pages |-> 2,
   cross_page |-> 3]

Table == (0 :> 8) @@ (8 :> 0) @@ (16 :> 40) @@ (24 :> 24)
Pages == {0, 8, 24, 40}

Aligned == [bytes |-> 16, bases |-> (0 :> 0) @@ (1 :> 16), table |-> Table]
OneChunk == [bytes |-> 32, bases |-> (0 :> 0), table |-> Table]

\* Two chunks of a page and a half: the page in the middle belongs to both.
MidPage == [bytes |-> 12, bases |-> (0 :> 0) @@ (1 :> 12), table |-> Table]

\* Page 0 calibrates unless its hash says otherwise; the others vary.
Hashes == {[p \in Pages |-> {0}],
           [p \in Pages |-> IF p = 0 THEN {0} ELSE {0, 1}],
           [p \in Pages |-> IF p \in {0, 24} THEN {0, 1, 2} ELSE {0, 2}],
           [p \in Pages |-> IF p = 0 THEN {0} ELSE {1, 2}],
           [p \in Pages |-> IF p = 0 THEN {1} ELSE {0}],
           [p \in Pages |-> IF p = 0 THEN {1, 2} ELSE {0}]}
Seeds == {[p \in Pages |-> 0], [p \in Pages |-> IF p \in {8, 40} THEN 1 ELSE 0]}
Gpus == {[seed |-> s, hash |-> h, rows |-> r, slow |-> {24}] :
           s \in Seeds, h \in Hashes, r \in {{1}, {1, 2}}}

\* Addresses of earlier runs, one page of them not in this pool.
Earlier(reps) ==
  [reprobe |-> <<<<0, 24>>, <<9, 41>>, <<16, 0>>>>,
   swept |-> <<<<40, "conflict">>, <<0, "conflict">>, <<8, "low">>, <<48, "conflict">>>>,
   components |-> reps,
   predicted |-> <<<<1, 25, "deep_conflict">>, <<8, 9, "low">>, <<0, 48, "low">>>>]

WorldsOf(layouts, gpus) ==
  {[layout |-> l, gpu |-> g, drift |-> d, earlier |-> Earlier(e)] :
     l \in layouts, g \in gpus, d \in {-3}, e \in {<<{16, 24}, {8}>>}}
    \cup
  {[layout |-> l, gpu |-> CHOOSE g \in gpus : TRUE, drift |-> 0,
    earlier |-> Earlier(<<{16}>>)] : l \in layouts}

AllWorlds ==
  WorldsOf({Aligned}, Gpus) \cup WorldsOf({OneChunk, MidPage}, {CHOOSE g \in Gpus : TRUE})
=============================================================================
