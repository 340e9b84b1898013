----------------------------- MODULE MCBankTable -----------------------------
EXTENDS DramFaults

\* Four pages of 8 units; the second pool shares a page with each of the others,
\* which have no page in common.
One == [bases |-> <<0, 8>>, reps |-> <<8>>, bank_pages |-> <<0>>]
Two == [bases |-> <<8, 16, 24>>, reps |-> <<24, 16>>, bank_pages |-> <<8>>]
Other == [bases |-> <<16, 24>>, reps |-> <<24>>, bank_pages |-> <<>>]
ThreeShapes == {One, Two, Other}

Gpu(seed, hash) ==
  [seed |-> [p \in {0, 8, 16, 24} |-> IF p \in seed THEN 1 ELSE 0],
   hash |-> [p \in {0, 8, 16, 24} |-> hash], rows |-> {1}, slow |-> {}]

OneBank == Gpu({}, {0})
TwoBanks == Gpu({16}, {0, 1, 2})
NoAnchor == Gpu({0, 16}, {1})

Earlier(source, x, y, class) == [source |-> source, at |-> <<x, y>>, class |-> class]
Reprobed == {Earlier(1, 0, 8, "deep_conflict"), Earlier(2, 0, 1, "low")}
Shoulders == {Earlier(4, 0, 16, "shoulder"), Earlier(4, 2, 4, "shoulder")}
Anchored == {Earlier(3, 0, 22, "deep_conflict"), Earlier(3, 8, 8, "low")}

\* A low that is wrong, and one that is right of two offsets of one bank's pages.
Lows == {Earlier(4, 0, 6, "low"), Earlier(3, 0, 9, "low")}

\* The two pages of the bank that the second pool holds one page of.
Linking == {Earlier(1, 0, 16, "deep_conflict")}

\* A pair of which one page is not in the census.
Strayed == {Earlier(3, 0, 24, "low")}

\* One page of memory (address 8) holds parts of five allocations; W reaches
\* into the next page and keeps a prefix of two bytes.
SnapshotRow(allocation, va_base, va_page, pa, start, stop) ==
  [allocation |-> allocation, va_base |-> va_base, va_page |-> va_page, pa |-> pa,
   start |-> start, stop |-> stop, instrument |-> allocation = "probe"]
Snapshot ==
  {SnapshotRow("X", 32, 32, 8, 0, 2), SnapshotRow("probe", 36, 32, 8, 4, 6),
   SnapshotRow("control", 38, 32, 8, 6, 8), SnapshotRow("Y", 40, 32, 8, 8, 9),
   SnapshotRow("W", 44, 32, 8, 12, 16), SnapshotRow("W", 44, 48, 16, 0, 2)}

Campaign(bits, s, d, t, resident) ==
  [snapshot |-> Snapshot, excludes |-> {"control"}, prefix |-> [W |-> 2], resident |-> resident,
   bits |-> bits, level |-> [s |-> s, d |-> d, t |-> t]]
NoCampaign ==
  [snapshot |-> {}, excludes |-> {}, prefix |-> <<>>, resident |-> 0, bits |-> 0,
   level |-> [s |-> 0, d |-> 0, t |-> 0]]

World(gpu, legacy, deep_only, misreads, campaign) ==
  [gpu |-> gpu, legacy |-> legacy, deep_only |-> deep_only, misreads |-> misreads,
   campaign |-> campaign]

TableWorlds ==
  {World(OneBank, {}, TRUE, 2, NoCampaign), World(OneBank, Reprobed, TRUE, 1, NoCampaign),
   World(TwoBanks, {}, TRUE, 1, NoCampaign), World(TwoBanks, Anchored, TRUE, 1, NoCampaign),
   World(TwoBanks, Lows, TRUE, 0, NoCampaign), World(TwoBanks, Shoulders, FALSE, 1, NoCampaign),
   World(TwoBanks, Shoulders, TRUE, 0, NoCampaign),
   World(TwoBanks, Strayed, TRUE, 0, NoCampaign), World(NoAnchor, Linking, FALSE, 1, NoCampaign)}
SampledWorlds ==
  {World(TwoBanks, {}, TRUE, 1, Campaign(3, 1, 1, 0, 5)),
   World(OneBank, {}, TRUE, 0, Campaign(5, 2, 0, 1, 5)),
   World(OneBank, {}, TRUE, 0, Campaign(3, 3, 0, 0, 5)),
   World(OneBank, {}, TRUE, 0, Campaign(3, 1, 1, 0, 6))}
AllWorlds == TableWorlds \cup SampledWorlds

FreshWorlds == {World(OneBank, {}, TRUE, 1, NoCampaign)}

Candidates == <<6>>
TwoCandidates == <<6, 2>>
Probes == <<1>>
Census == {0, 8, 16}
=============================================================================
