------------------------ MODULE TrainingPipelineProofs ------------------------
(***************************************************************************)
(* For any campaigns, builds and selections: a finished campaign holds all *)
(* labels of its roots, those of a root from one build, whatever other     *)
(* campaigns did to the shared cache meanwhile and whoever was killed.     *)
(*                                                                         *)
(* For any files, plans and command lines: a trainer moves only weights    *)
(* that train rows read, keeps the first best epoch when it is cut short,  *)
(* and what it froze comes out of the exporter as it was in the artifact;  *)
(* and a run report that says complete stands for the files of one run.    *)
(*                                                                         *)
(* For any transcripts, lines, seeds and limits: an importer keeps the     *)
(* least of what it read, and joined games and boards are in one split.    *)
(*                                                                         *)
(* For any rules, scores and roots: search teacher, overlay and the join   *)
(* of two teachers leave one label for each child.                         *)
(*                                                                         *)
(* For any rows, quotas and caps: a selection with a cap on the roots of a *)
(* game has as many roots as the quotas and the cap allow.                 *)
(***************************************************************************)
EXTENDS TrainingPipeline, WellFoundedInduction, FiniteSetTheorems, TLAPS

(***************************************************************************)
(* The shared cache of labels.                                             *)
(***************************************************************************)

Fields == {"pc", "args", "restarts", "table", "missing", "solved", "todo", "temp"}

CacheType ==
    /\ cache = [b \in Boards |-> cache[b]]
    /\ campaign = [c \in Campaigns |-> campaign[c]]
    /\ \A c \in Campaigns : DOMAIN campaign[c] = Fields

IsSolved(b, labels) == \E d \in Campaigns : labels = Solve(Build(d), b)

WholeTable(c, rows) ==
    /\ {[board |-> x.board, record |-> x.record, split |-> x.split] : x \in rows} = RootsOf(c)
    /\ \A r \in RootsOf(c) : \E d \in Campaigns :
          {x \in rows : x.board = r.board} = solved_rows(d, {r})

\* Some of the roots of the campaign, as its own build solves them.
SolvedTable(c, rows) == \E M \in SUBSET RootsOf(c) : rows = solved_rows(c, M)

TrueEntry(e) == \E b \in Boards : e = <<b, e[2]>> /\ IsSolved(b, e[2])

CacheIsTrue == \A b \in Boards : cache[b] # None => IsSolved(b, cache[b])

\* From where a campaign has its whole table, on the way to "ok".
HasTable == {"seal", "seal again", "augment", "seal generated", "generated", "populate", "ok"}

TablesAreWhole ==
    \A c \in Campaigns :
        campaign[c].table.rows # None \/ campaign[c].pc \in HasTable =>
            WholeTable(c, campaign[c].table.rows)

SolvedAreTrue ==
    \A c \in Campaigns :
        campaign[c].solved.rows # None \/ campaign[c].pc = "seal missing" =>
            SolvedTable(c, campaign[c].solved.rows)

MissingAreRoots ==
    \A c \in Campaigns : campaign[c].pc = "solve" => campaign[c].missing \subseteq RootsOf(c)

TodoIsTrue == \A c \in Campaigns : \A e \in campaign[c].todo : TrueEntry(e)

\* A temporary file belongs to an entry that is still to be written.
TempInHand ==
    \A c \in Campaigns : campaign[c].temp # None => Populating(c) /\ campaign[c].todo # {}

CacheInv ==
    /\ RootsAndLabels
    /\ CacheType
    /\ CacheIsTrue
    /\ TablesAreWhole
    /\ SolvedAreTrue
    /\ MissingAreRoots
    /\ TodoIsTrue
    /\ TempInHand

-----------------------------------------------------------------------------
\* A row of a table is one move of one of its roots.
LEMMA SolvedRow ==
    \A d, M, x : x \in solved_rows(d, M) <=>
        \E r \in M : \E m \in DOMAIN Solve(Build(d), r.board) :
            x = [board |-> r.board, record |-> r.record, split |-> r.split,
                 move |-> m, label |-> Solve(Build(d), r.board)[m]]
BY DEF solved_rows, Rows

\* Labels that are those of some build, root by root, make a whole table.
LEMMA WholeByRoots ==
    ASSUME RootsAndLabels, NEW c \in Campaigns, NEW labels, NEW rows,
           \A r \in RootsOf(c) : IsSolved(r.board, labels[r.board]),
           \A x : x \in rows <=>
               \E r \in RootsOf(c) : \E m \in DOMAIN labels[r.board] :
                   x = [board |-> r.board, record |-> r.record, split |-> r.split,
                        move |-> m, label |-> labels[r.board][m]]
    PROVE  WholeTable(c, rows)
<1> DEFINE row(r, m) == [board |-> r.board, record |-> r.record, split |-> r.split,
                         move |-> m, label |-> labels[r.board][m]]
<1>1. \A x : x \in rows <=> \E r \in RootsOf(c) : \E m \in DOMAIN labels[r.board] : x = row(r, m)
  OBVIOUS
<1>2. \A r \in RootsOf(c) : /\ r.board \in Boards
                            /\ r = [board |-> r.board, record |-> r.record, split |-> r.split]
                            /\ \A s \in RootsOf(c) : r.board = s.board => r = s
  BY DEF RootsAndLabels, Boards
<1>3. \A r \in RootsOf(c) : DOMAIN labels[r.board] # {}
  BY <1>2 DEF RootsAndLabels, IsSolved
<1>4. {[board |-> x.board, record |-> x.record, split |-> x.split] : x \in rows} = RootsOf(c)
  <2>1. ASSUME NEW x \in rows
        PROVE  [board |-> x.board, record |-> x.record, split |-> x.split] \in RootsOf(c)
    <3>1. PICK r \in RootsOf(c) : \E m \in DOMAIN labels[r.board] : x = row(r, m)
      BY <1>1
    <3>2. [board |-> x.board, record |-> x.record, split |-> x.split] = r
      BY <1>2, <3>1
    <3> QED  BY <3>2
  <2>2. ASSUME NEW r \in RootsOf(c)
        PROVE  \E x \in rows : r = [board |-> x.board, record |-> x.record, split |-> x.split]
    <3>1. PICK m \in DOMAIN labels[r.board] : TRUE
      BY <1>3
    <3>2. row(r, m) \in rows
      BY <1>1
    <3>3. r = [board |-> row(r, m).board, record |-> row(r, m).record, split |-> row(r, m).split]
      BY <1>2
    <3> QED  BY <3>2, <3>3
  <2> QED  BY <2>1, <2>2
<1>5. ASSUME NEW r \in RootsOf(c)
      PROVE  \E d \in Campaigns : {x \in rows : x.board = r.board} = solved_rows(d, {r})
  <2>1. PICK d \in Campaigns : labels[r.board] = Solve(Build(d), r.board)
    BY DEF IsSolved
  <2>2. ASSUME NEW x \in rows, x.board = r.board
        PROVE  x \in solved_rows(d, {r})
    <3>1. PICK s \in RootsOf(c) : \E m \in DOMAIN labels[s.board] : x = row(s, m)
      BY <1>1
    <3>2. s = r
      BY <1>2, <2>2, <3>1
    <3> QED  BY <2>1, <3>1, <3>2, SolvedRow
  <2>3. ASSUME NEW x \in solved_rows(d, {r})
        PROVE  x \in rows /\ x.board = r.board
    <3>1. \E m \in DOMAIN labels[r.board] : x = row(r, m)
      BY <2>1, SolvedRow
    <3> QED  BY <1>1, <3>1
  <2> QED  BY <2>2, <2>3
<1> QED  BY <1>4, <1>5 DEF WholeTable

\* What a generator writes of all roots is whole.
LEMMA GeneratedIsWhole ==
    ASSUME RootsAndLabels, NEW c \in Campaigns
    PROVE  WholeTable(c, solved_rows(c, RootsOf(c)))
<1> DEFINE labels == [b \in Boards |-> Solve(Build(c), b)]
<1>1. \A r \in RootsOf(c) : labels[r.board] = Solve(Build(c), r.board)
  BY DEF Boards
<1>2. \A r \in RootsOf(c) : IsSolved(r.board, labels[r.board])
  BY <1>1 DEF IsSolved
<1> HIDE DEF labels
<1>3. \A x : x \in solved_rows(c, RootsOf(c)) <=>
          \E r \in RootsOf(c) : \E m \in DOMAIN labels[r.board] :
              x = [board |-> r.board, record |-> r.record, split |-> r.split,
                   move |-> m, label |-> labels[r.board][m]]
  BY <1>1, SolvedRow
<1> QED  BY <1>2, <1>3, WholeByRoots

\* So is what is taken from a cache without a miss.
LEMMA MaterializedIsWhole ==
    ASSUME RootsAndLabels, CacheIsTrue, NEW c \in Campaigns, misses(c) = {}
    PROVE  WholeTable(c, materialized_rows(c))
<1>1. hits(c) = RootsOf(c) /\ \A r \in RootsOf(c) : cache[r.board] # None
  BY DEF hits, misses
<1>2. \A r \in RootsOf(c) : r.board \in Boards
  BY DEF Boards
<1>3. \A r \in RootsOf(c) : IsSolved(r.board, cache[r.board])
  BY <1>1, <1>2 DEF CacheIsTrue
<1>4. \A x : x \in materialized_rows(c) <=>
          \E r \in RootsOf(c) : \E m \in DOMAIN cache[r.board] :
              x = [board |-> r.board, record |-> r.record, split |-> r.split,
                   move |-> m, label |-> cache[r.board][m]]
  BY <1>1 DEF materialized_rows, Rows
<1>5. \A labels, rows :
          /\ \A r \in RootsOf(c) : IsSolved(r.board, labels[r.board])
          /\ \A x : x \in rows <=>
                 \E r \in RootsOf(c) : \E m \in DOMAIN labels[r.board] :
                     x = [board |-> r.board, record |-> r.record, split |-> r.split,
                          move |-> m, label |-> labels[r.board][m]]
          => WholeTable(c, rows)
  BY WholeByRoots
<1> QED  BY <1>3, <1>4, <1>5

\* The rows of a root make the entry that some build would give its board.
LEMMA EntryOfRows ==
    ASSUME RootsAndLabels, NEW c \in Campaigns, NEW d \in Campaigns, NEW r \in RootsOf(c)
    PROVE  cache_entry_from_rows(solved_rows(d, {r})) = Solve(Build(d), r.board)
<1> DEFINE f == Solve(Build(d), r.board)
           S == solved_rows(d, {r})
<1>1. f = [m \in DOMAIN f |-> f[m]]
  BY DEF RootsAndLabels, Boards
<1>2. \A x : x \in S <=> \E m \in DOMAIN f :
          x = [board |-> r.board, record |-> r.record, split |-> r.split,
               move |-> m, label |-> f[m]]
  BY SolvedRow
<1>3. {row.move : row \in S} = DOMAIN f
  <2>1. \A x \in S : x.move \in DOMAIN f
    BY <1>2
  <2>2. \A m \in DOMAIN f : \E x \in S : x.move = m
    <3> SUFFICES ASSUME NEW m \in DOMAIN f
                 PROVE  \E x \in S : x.move = m
      OBVIOUS
    <3> DEFINE y == [board |-> r.board, record |-> r.record, split |-> r.split,
                     move |-> m, label |-> f[m]]
    <3>1. y \in S /\ y.move = m
      BY <1>2
    <3> QED  BY <3>1
  <2> HIDE DEF S, f
  <2> QED  BY <2>1, <2>2
<1>4. \A m \in DOMAIN f : (CHOOSE row \in S : row.move = m).label = f[m]
  <2> SUFFICES ASSUME NEW m \in DOMAIN f
               PROVE  (CHOOSE row \in S : row.move = m).label = f[m]
    OBVIOUS
  <2>1. \E row \in S : row.move = m
    BY <1>3
  <2>2. \A row \in S : row.move = m => row.label = f[m]
    BY <1>2
  <2> HIDE DEF S, f
  <2> QED  BY <2>1, <2>2
<1> HIDE DEF S, f
<1>5. cache_entry_from_rows(S) = [m \in DOMAIN f |-> f[m]]
  BY <1>3, <1>4 DEF cache_entry_from_rows
<1> QED  BY <1>1, <1>5 DEF S, f

\* So the entries of a whole table are true ...
LEMMA EntriesOfWhole ==
    ASSUME RootsAndLabels, NEW c \in Campaigns, NEW rows, WholeTable(c, rows),
           NEW e \in Entries(rows)
    PROVE  TrueEntry(e)
<1>1. PICK x \in rows :
          e = <<x.board, cache_entry_from_rows({y \in rows : y.board = x.board})>>
  BY DEF Entries
<1>2. [board |-> x.board, record |-> x.record, split |-> x.split] \in RootsOf(c)
  BY DEF WholeTable
<1>3. PICK r \in RootsOf(c) : r.board = x.board
  BY <1>2
<1>4. PICK d \in Campaigns : {y \in rows : y.board = r.board} = solved_rows(d, {r})
  BY DEF WholeTable
<1>5. e = <<r.board, Solve(Build(d), r.board)>>
  BY <1>1, <1>3, <1>4, EntryOfRows
<1>6. r.board \in Boards
  BY DEF Boards
<1> QED  BY <1>5, <1>6 DEF TrueEntry, IsSolved

\* ... and those of the roots that were missing.
LEMMA EntriesOfSolved ==
    ASSUME RootsAndLabels, NEW c \in Campaigns, NEW rows, SolvedTable(c, rows),
           NEW e \in Entries(rows)
    PROVE  TrueEntry(e)
<1>1. PICK M \in SUBSET RootsOf(c) : rows = solved_rows(c, M)
  BY DEF SolvedTable
<1>2. PICK x \in rows :
          e = <<x.board, cache_entry_from_rows({y \in rows : y.board = x.board})>>
  BY DEF Entries
<1>3. PICK r \in M : r.board = x.board
  BY <1>1, SolvedRow
<1>4. {y \in rows : y.board = r.board} = solved_rows(c, {r})
  <2>1. ASSUME NEW y \in rows, y.board = r.board
        PROVE  y \in solved_rows(c, {r})
    <3>1. PICK s \in M : \E m \in DOMAIN Solve(Build(c), s.board) :
              y = [board |-> s.board, record |-> s.record, split |-> s.split,
                   move |-> m, label |-> Solve(Build(c), s.board)[m]]
      BY <1>1, SolvedRow
    <3>2. s = r
      BY <2>1, <3>1 DEF RootsAndLabels
    <3> QED  BY <3>1, <3>2, SolvedRow
  <2>2. ASSUME NEW y \in solved_rows(c, {r})
        PROVE  y \in rows /\ y.board = r.board
    BY <1>1, SolvedRow
  <2> QED  BY <2>1, <2>2
<1>5. e = <<r.board, Solve(Build(c), r.board)>>
  BY <1>2, <1>3, <1>4, EntryOfRows
<1>6. r.board \in Boards
  BY DEF Boards
<1> QED  BY <1>5, <1>6 DEF TrueEntry, IsSolved

\* Among the entries to be written there is a next one.
LEMMA NextEntryIsOne ==
    ASSUME RootsAndLabels, TodoIsTrue, NEW c \in Campaigns, campaign[c].todo # {}
    PROVE  NextEntry(c) \in campaign[c].todo
<1> DEFINE todo == campaign[c].todo
           T == {e[1] : e \in todo}
<1>1. \A e \in todo : e[1] \in Nat
  BY DEF TodoIsTrue, TrueEntry, Boards, RootsAndLabels
<1>2. T \subseteq Nat /\ T # {}
  BY <1>1
<1>3. \E x \in T : \A y \in T : <<y, x>> \notin OpToRel(<, Nat)
  BY <1>2, NatLessThanWellFounded, WFMin
<1>4. PICK x \in T : \A y \in T : <<y, x>> \notin OpToRel(<, Nat)
  BY <1>3
<1>5. \A y \in T : ~(y < x)
  BY <1>2, <1>4 DEF OpToRel
<1>6. PICK e \in todo : x = e[1]
  OBVIOUS
<1>7. ASSUME NEW f \in todo
      PROVE  e[1] <= f[1]
  <2>1. f[1] \in T /\ f[1] \in Nat /\ e[1] \in Nat
    BY <1>1
  <2>2. ~(f[1] < e[1])
    BY <1>5, <1>6, <2>1
  <2> QED  BY <2>1, <2>2
<1> QED  BY <1>7 DEF NextEntry

-----------------------------------------------------------------------------
\* In the beginning there is nothing that could be wrong.
LEMMA CacheInit == RootsAndLabels /\ InitCache => CacheInv
<1> SUFFICES ASSUME RootsAndLabels, InitCache
             PROVE  CacheInv
  OBVIOUS
<1>1. \A c \in Campaigns :
          /\ DOMAIN campaign[c] = Fields
          /\ campaign[c].pc = "begin" /\ campaign[c].table = NoFile
          /\ campaign[c].solved = NoFile /\ campaign[c].todo = {} /\ campaign[c].temp = None
  BY DEF InitCache, Fields
<1>2. /\ cache = [b \in Boards |-> None]
      /\ campaign = [c \in Campaigns |-> campaign[c]]
  BY DEF InitCache
<1>3. CacheType /\ CacheIsTrue
  BY <1>1, <1>2 DEF CacheType, CacheIsTrue
<1>4. TablesAreWhole /\ SolvedAreTrue
  <2>1. \A c \in Campaigns : campaign[c].table.rows = None /\ campaign[c].solved.rows = None
    BY <1>1 DEF NoFile
  <2>2. \A c \in Campaigns : campaign[c].pc \notin HasTable /\ campaign[c].pc # "seal missing"
    BY <1>1 DEF HasTable
  <2> QED  BY <2>1, <2>2 DEF TablesAreWhole, SolvedAreTrue
<1>5. MissingAreRoots /\ TodoIsTrue /\ TempInHand
  BY <1>1 DEF MissingAreRoots, TodoIsTrue, TempInHand
<1> QED  BY <1>3, <1>4, <1>5 DEF CacheInv

\* What the invariant asks of campaign c alone.
Sound(c) ==
    /\ DOMAIN campaign[c] = Fields
    /\ campaign[c].table.rows # None \/ campaign[c].pc \in HasTable =>
           WholeTable(c, campaign[c].table.rows)
    /\ campaign[c].solved.rows # None \/ campaign[c].pc = "seal missing" =>
           SolvedTable(c, campaign[c].solved.rows)
    /\ campaign[c].pc = "solve" => campaign[c].missing \subseteq RootsOf(c)
    /\ \A e \in campaign[c].todo : TrueEntry(e)
    /\ campaign[c].temp # None =>
           campaign[c].pc \in {"merge", "populate"} /\ campaign[c].todo # {}

\* The invariant holds of each campaign.
LEMMA AllSound == CacheInv => \A c \in Campaigns : Sound(c)
BY DEF CacheInv, CacheType, TablesAreWhole, SolvedAreTrue, MissingAreRoots, TodoIsTrue,
       TempInHand, Sound, Populating, Now

\* A step of campaign c that leaves it sound, and the cache true, keeps it all.
LEMMA OneCampaign ==
    ASSUME CacheInv, NEW c \in Campaigns, \E fields : Set(c, fields), Sound(c)',
           cache' = [b \in Boards |-> cache'[b]], CacheIsTrue'
    PROVE  CacheInv'
<1>1. campaign' = [d \in Campaigns |-> campaign'[d]]
      /\ \A d \in Campaigns : d # c => campaign'[d] = campaign[d]
  BY DEF CacheInv, CacheType, Set
<1>2. \A d \in Campaigns : Sound(d)'
  <2> SUFFICES ASSUME NEW d \in Campaigns
               PROVE  Sound(d)'
    OBVIOUS
  <2>1. CASE d = c
    BY <2>1
  <2>2. CASE d # c
    <3>1. campaign'[d] = campaign[d] /\ Sound(d)
      BY <1>1, <2>2, AllSound
    <3> QED  BY <3>1 DEF Sound
  <2> QED  BY <2>1, <2>2
<1>3. CacheType'
  BY <1>1, <1>2 DEF CacheType, Sound
<1> QED  BY <1>2, <1>3 DEF CacheInv, TablesAreWhole, SolvedAreTrue, MissingAreRoots,
            TodoIsTrue, TempInHand, Sound, Populating, Now

\* Most steps leave the cache alone.
LEMMA CacheStands ==
    ASSUME CacheInv, NEW c \in Campaigns, \E fields : Set(c, fields), Sound(c)', UNCHANGED cache
    PROVE  CacheInv'
BY OneCampaign DEF CacheInv, CacheType, CacheIsTrue

\* Only the program counter moves, to where nothing more is asked for.
LEMMA OnlyMoves ==
    ASSUME CacheInv, NEW c \in Campaigns, NEW pc, Set(c, [pc |-> pc]), UNCHANGED cache,
           campaign[c].temp = None, pc # "seal missing", pc # "solve",
           pc \in HasTable => WholeTable(c, campaign[c].table.rows)
    PROVE  CacheInv'
<1>1. Sound(c)
  BY AllSound
<1>2. /\ DOMAIN campaign'[c] = Fields
      /\ campaign'[c].pc = pc
      /\ campaign'[c].table = campaign[c].table /\ campaign'[c].solved = campaign[c].solved
      /\ campaign'[c].todo = campaign[c].todo /\ campaign'[c].temp = campaign[c].temp
  BY DEF CacheInv, CacheType, Set, With, Fields
<1>3. Sound(c)'
  BY <1>1, <1>2 DEF Sound
<1> QED  BY <1>3, CacheStands

\* A table is written, or sealed, and is whole.
LEMMA TableIsSet ==
    ASSUME CacheInv, NEW c \in Campaigns, NEW pc, NEW table,
           Set(c, [pc |-> pc, table |-> table]), UNCHANGED cache,
           campaign[c].temp = None, pc # "seal missing", pc # "solve",
           WholeTable(c, table.rows)
    PROVE  CacheInv'
<1>1. Sound(c)
  BY AllSound
<1>2. /\ DOMAIN campaign'[c] = Fields
      /\ campaign'[c].pc = pc /\ campaign'[c].table = table
      /\ campaign'[c].solved = campaign[c].solved
      /\ campaign'[c].todo = campaign[c].todo /\ campaign'[c].temp = campaign[c].temp
  BY DEF CacheInv, CacheType, Set, With, Fields
<1>3. Sound(c)'
  BY <1>1, <1>2 DEF Sound
<1> QED  BY <1>3, CacheStands

\* No temporary file is at hand outside write_cache_entry.
LEMMA NoTemp ==
    ASSUME CacheInv, NEW c \in Campaigns, ~Populating(c)
    PROVE  campaign[c].temp = None
BY DEF CacheInv, TempInHand

\* write_cache_entry, up to the moment the entry takes its place.
LEMMA WritingKeeps ==
    ASSUME CacheInv, NEW c \in Campaigns,
           write_cache_entry(c) \/ check_again(c) \/ replace_entry(c) \/ populated(c)
    PROVE  CacheInv'
<1> DEFINE e == NextEntry(c)
           todo == campaign[c].todo
<1>1. Sound(c)
  BY AllSound
<1>2. todo # {} => e \in todo /\ TrueEntry(e)
  BY NextEntryIsOne DEF CacheInv, TodoIsTrue
<1>3. ASSUME Existing(c), UNCHANGED cache
      PROVE  CacheInv'
  <2>1. CASE Set(c, [todo |-> todo \ {e}, temp |-> None])
    <3>1. /\ DOMAIN campaign'[c] = Fields
          /\ campaign'[c].pc = campaign[c].pc
          /\ campaign'[c].table = campaign[c].table /\ campaign'[c].solved = campaign[c].solved
          /\ campaign'[c].missing = campaign[c].missing
          /\ campaign'[c].todo = todo \ {e} /\ campaign'[c].temp = None
      BY <2>1 DEF CacheInv, CacheType, Set, With, Fields
    <3>2. Sound(c)'
      BY <1>1, <3>1 DEF Sound
    <3> QED  BY <1>3, <2>1, <3>2, CacheStands
  <2>2. CASE Set(c, [pc |-> "failed", temp |-> None])
    <3>1. /\ DOMAIN campaign'[c] = Fields
          /\ campaign'[c].pc = "failed"
          /\ campaign'[c].table = campaign[c].table /\ campaign'[c].solved = campaign[c].solved
          /\ campaign'[c].todo = todo /\ campaign'[c].temp = None
      BY <2>2 DEF CacheInv, CacheType, Set, With, Fields
    <3>2. Sound(c)'
      BY <1>1, <3>1 DEF Sound, HasTable
    <3> QED  BY <1>3, <2>2, <3>2, CacheStands
  <2>3. \/ Set(c, [todo |-> todo \ {e}, temp |-> None])
        \/ Set(c, [pc |-> "failed", temp |-> None])
    BY <1>3 DEF Existing, Set
  <2> QED  BY <2>1, <2>2, <2>3
<1>4. ASSUME NEW temp, Set(c, [temp |-> temp]), Populating(c), todo # {}, UNCHANGED cache
      PROVE  CacheInv'
  <2>1. /\ DOMAIN campaign'[c] = Fields
        /\ campaign'[c].pc = campaign[c].pc
        /\ campaign'[c].table = campaign[c].table /\ campaign'[c].solved = campaign[c].solved
        /\ campaign'[c].missing = campaign[c].missing
        /\ campaign'[c].todo = todo
    BY <1>4 DEF CacheInv, CacheType, Set, With, Fields
  <2>2. Sound(c)'
    BY <1>1, <1>4, <2>1 DEF Sound, Populating
  <2> QED  BY <1>4, <2>2, CacheStands
<1>5. CASE write_cache_entry(c)
  BY <1>3, <1>4, <1>5 DEF write_cache_entry
<1>6. CASE check_again(c)
  <2>1. Populating(c) /\ todo # {}
    BY <1>6 DEF check_again, CacheInv, TempInHand
  <2> QED  BY <1>3, <1>4, <1>6, <2>1 DEF check_again
<1>7. CASE replace_entry(c)
  <2>1. Populating(c) /\ todo # {}
    BY <1>7 DEF replace_entry, CacheInv, TempInHand
  <2>2. /\ Set(c, [todo |-> todo \ {e}, temp |-> None])
        /\ cache' = [cache EXCEPT ![e[1]] = e[2]]
    BY <1>7 DEF replace_entry
  <2>3. /\ DOMAIN campaign'[c] = Fields
        /\ campaign'[c].pc = campaign[c].pc
        /\ campaign'[c].table = campaign[c].table /\ campaign'[c].solved = campaign[c].solved
        /\ campaign'[c].missing = campaign[c].missing
        /\ campaign'[c].todo = todo \ {e} /\ campaign'[c].temp = None
    BY <2>2 DEF CacheInv, CacheType, Set, With, Fields
  <2>4. Sound(c)'
    BY <1>1, <2>3 DEF Sound
  <2>5. e[1] \in Boards /\ IsSolved(e[1], e[2])
    BY <1>2, <2>1 DEF TrueEntry
  <2>6. cache' = [b \in Boards |-> cache'[b]]
    BY <2>2 DEF CacheInv, CacheType
  <2>7. \A b \in Boards : cache'[b] = IF b = e[1] THEN e[2] ELSE cache[b]
    BY <2>2 DEF CacheInv, CacheType
  <2>8. CacheIsTrue'
    BY <2>5, <2>7 DEF CacheInv, CacheIsTrue
  <2> QED  BY <2>2, <2>4, <2>6, <2>8, OneCampaign
<1>8. CASE populated(c)
  <2>1. campaign[c].temp = None
    BY <1>8 DEF populated, CacheInv, TempInHand
  <2>2. PICK pc : pc = (IF Now(c, "merge") THEN "final probe" ELSE "ok")
    OBVIOUS
  <2>3. Set(c, [pc |-> pc]) /\ UNCHANGED cache
    BY <1>8, <2>2 DEF populated
  <2>4. pc \in HasTable => WholeTable(c, campaign[c].table.rows)
    <3>1. pc \in HasTable => campaign[c].pc = "populate"
      BY <1>8, <2>2 DEF populated, Populating, Now, HasTable
    <3> QED  BY <1>1, <3>1 DEF Sound, HasTable
  <2>5. pc # "seal missing" /\ pc # "solve"
    BY <2>2
  <2> QED  BY <2>1, <2>3, <2>4, <2>5, OnlyMoves
<1> QED  BY <1>5, <1>6, <1>7, <1>8

\* A campaign that writes or takes its table, and what leads there.
LEMMA TableKeeps ==
    ASSUME CacheInv, NEW c \in Campaigns,
           \/ materialize(c) \/ seal_table(c) \/ partial_hit(c) \/ final_probe(c)
           \/ materialize_again(c) \/ seal_again(c) \/ augment_report(c)
           \/ generate(c) \/ seal_generated(c)
    PROVE  CacheInv'
<1> DEFINE table == campaign[c].table
<1>1. Sound(c)
  BY AllSound
<1>2. campaign[c].temp = None /\ UNCHANGED cache
  <2>1. ~Populating(c) /\ UNCHANGED cache
    BY DEF materialize, seal_table, partial_hit, final_probe, materialize_again, seal_again,
           augment_report, generate, seal_generated, Step, Populating, Now
  <2> QED  BY <2>1, NoTemp
<1>3. RootsAndLabels /\ CacheIsTrue
  BY DEF CacheInv
<1>4. \A pc : /\ Set(c, [pc |-> pc])
              /\ pc \in HasTable => WholeTable(c, table.rows)
              /\ pc # "seal missing" /\ pc # "solve"
              => CacheInv'
  BY <1>2, OnlyMoves
<1>5. \A pc, new : /\ Set(c, [pc |-> pc, table |-> new])
                   /\ WholeTable(c, new.rows)
                   /\ pc # "seal missing" /\ pc # "solve"
                   => CacheInv'
  BY <1>2, TableIsSet
<1>6. Resumes(c, table) => WholeTable(c, table.rows)
  BY <1>1 DEF Sound, Resumes
<1>7. CASE materialize(c)
  <2>1. CASE Resumes(c, table)
    <3>1. PICK pc \in {"ok", "failed"} : Set(c, [pc |-> pc])
      BY <1>7, <2>1 DEF materialize, Step
    <3> QED  BY <1>4, <1>6, <2>1, <3>1
  <2>2. CASE ~Resumes(c, table) /\ misses(c) = {}
    <3>1. Set(c, [pc |-> "seal", table |-> [rows |-> materialized_rows(c), sealed |-> None]])
      BY <1>7, <2>2 DEF materialize, Step
    <3>2. WholeTable(c, materialized_rows(c))
      BY <1>3, <2>2, MaterializedIsWhole
    <3>3. [rows |-> materialized_rows(c), sealed |-> None].rows = materialized_rows(c)
      OBVIOUS
    <3> QED  BY <1>5, <3>1, <3>2, <3>3
  <2>3. CASE ~Resumes(c, table) /\ misses(c) # {}
    <3>1. PICK pc \in {"probe", "miss"} : Set(c, [pc |-> pc])
      BY <1>7, <2>3 DEF materialize, Step
    <3> QED  BY <1>4, <3>1 DEF HasTable
  <2> QED  BY <2>1, <2>2, <2>3
<1>8. CASE seal_table(c)
  <2>1. /\ campaign[c].pc = "seal"
        /\ Set(c, [pc |-> "ok", table |-> [table EXCEPT !.sealed = Sealed(c, "materialize")]])
    BY <1>8 DEF seal_table, Step, Now
  <2>2. WholeTable(c, table.rows)
    BY <1>1, <2>1 DEF Sound, HasTable
  <2>3. [table EXCEPT !.sealed = Sealed(c, "materialize")].rows = table.rows
    OBVIOUS
  <2> QED  BY <1>5, <2>1, <2>2, <2>3
<1>9. CASE partial_hit(c)
  <2>1. Set(c, [pc |-> "failed", missing |-> misses(c)])
    BY <1>9 DEF partial_hit, Step
  <2>2. /\ DOMAIN campaign'[c] = Fields
        /\ campaign'[c].pc = "failed"
        /\ campaign'[c].table = campaign[c].table /\ campaign'[c].solved = campaign[c].solved
        /\ campaign'[c].todo = campaign[c].todo /\ campaign'[c].temp = campaign[c].temp
    BY <2>1 DEF CacheInv, CacheType, Set, With, Fields
  <2>3. Sound(c)'
    BY <1>1, <1>2, <2>2 DEF Sound, HasTable
  <2> QED  BY <1>2, <2>1, <2>3, CacheStands
<1>10. CASE final_probe(c)
  <2>1. PICK pc \in {"final", "failed"} : Set(c, [pc |-> pc])
    BY <1>10 DEF final_probe, Step
  <2> QED  BY <1>4, <2>1 DEF HasTable
<1>11. CASE materialize_again(c)
  <2>1. CASE misses(c) # {}
    <3>1. Set(c, [pc |-> "failed"])
      BY <1>11, <2>1 DEF materialize_again, Step
    <3> QED  BY <1>4, <3>1 DEF HasTable
  <2>2. CASE misses(c) = {}
    <3>1. Set(c, [pc |-> "seal again",
                  table |-> [rows |-> materialized_rows(c), sealed |-> None]])
      BY <1>11, <2>2 DEF materialize_again, Step
    <3>2. WholeTable(c, materialized_rows(c))
      BY <1>3, <2>2, MaterializedIsWhole
    <3>3. [rows |-> materialized_rows(c), sealed |-> None].rows = materialized_rows(c)
      OBVIOUS
    <3> QED  BY <1>5, <3>1, <3>2, <3>3
  <2> QED  BY <2>1, <2>2
<1>12. CASE seal_again(c)
  <2>1. /\ campaign[c].pc = "seal again"
        /\ Set(c, [pc |-> "augment",
                   table |-> [table EXCEPT !.sealed = Sealed(c, "materialize")]])
    BY <1>12 DEF seal_again, Step, Now
  <2>2. WholeTable(c, table.rows)
    BY <1>1, <2>1 DEF Sound, HasTable
  <2>3. [table EXCEPT !.sealed = Sealed(c, "materialize")].rows = table.rows
    OBVIOUS
  <2> QED  BY <1>5, <2>1, <2>2, <2>3
<1>13. CASE augment_report(c)
  <2>1. /\ campaign[c].pc = "augment"
        /\ Set(c, [pc |-> "seal", table |-> [table EXCEPT !.sealed = None]])
    BY <1>13 DEF augment_report, Step, Now
  <2>2. WholeTable(c, table.rows)
    BY <1>1, <2>1 DEF Sound, HasTable
  <2>3. [table EXCEPT !.sealed = None].rows = table.rows
    OBVIOUS
  <2> QED  BY <1>5, <2>1, <2>2, <2>3
<1>14. CASE generate(c)
  <2>1. CASE Resumes(c, table)
    <3>1. PICK pc \in {"generated", "failed"} : Set(c, [pc |-> pc])
      BY <1>14, <2>1 DEF generate, Step
    <3> QED  BY <1>4, <1>6, <2>1, <3>1
  <2>2. CASE ~Resumes(c, table)
    <3>1. Set(c, [pc |-> "seal generated",
                  table |-> [rows |-> solved_rows(c, RootsOf(c)), sealed |-> None]])
      BY <1>14, <2>2 DEF generate, Step
    <3>2. WholeTable(c, solved_rows(c, RootsOf(c)))
      BY <1>3, GeneratedIsWhole
    <3>3. [rows |-> solved_rows(c, RootsOf(c)), sealed |-> None].rows = solved_rows(c, RootsOf(c))
      OBVIOUS
    <3> QED  BY <1>5, <3>1, <3>2, <3>3
  <2> QED  BY <2>1, <2>2
<1>15. CASE seal_generated(c)
  <2>1. /\ campaign[c].pc = "seal generated"
        /\ Set(c, [pc |-> "generated",
                   table |-> [table EXCEPT !.sealed = Sealed(c, "generate")]])
    BY <1>15 DEF seal_generated, Step, Now
  <2>2. WholeTable(c, table.rows)
    BY <1>1, <2>1 DEF Sound, HasTable
  <2>3. [table EXCEPT !.sealed = Sealed(c, "generate")].rows = table.rows
    OBVIOUS
  <2> QED  BY <1>5, <2>1, <2>2, <2>3
<1> QED  BY <1>7, <1>8, <1>9, <1>10, <1>11, <1>12, <1>13, <1>14, <1>15

\* What was missing is solved and its entries are to be written.
LEMMA SolvingKeeps ==
    ASSUME CacheInv, NEW c \in Campaigns,
           \/ probe(c) \/ generate_missing_move_teacher(c) \/ seal_missing(c)
           \/ populate_move_teacher_cache(c)
    PROVE  CacheInv'
<1> DEFINE table == campaign[c].table
           solved == campaign[c].solved
           missing == campaign[c].missing
<1>1. Sound(c) /\ RootsAndLabels
  BY AllSound DEF CacheInv
<1>2. campaign[c].temp = None /\ UNCHANGED cache
  <2>1. ~Populating(c) /\ UNCHANGED cache
    BY DEF probe, generate_missing_move_teacher, seal_missing, populate_move_teacher_cache,
           Step, Populating, Now
  <2> QED  BY <2>1, NoTemp
<1>3. CASE probe(c)
  <2>1. PICK pc \in {"failed", "solve"} : Set(c, [pc |-> pc, missing |-> misses(c)])
    BY <1>3 DEF probe, Step
  <2>2. /\ DOMAIN campaign'[c] = Fields
        /\ campaign'[c].pc = pc /\ campaign'[c].missing = misses(c)
        /\ campaign'[c].table = table /\ campaign'[c].solved = solved
        /\ campaign'[c].todo = campaign[c].todo /\ campaign'[c].temp = campaign[c].temp
    BY <2>1 DEF CacheInv, CacheType, Set, With, Fields
  <2>3. misses(c) \subseteq RootsOf(c)
    BY DEF misses
  <2>4. Sound(c)'
    BY <1>1, <1>2, <2>2, <2>3 DEF Sound, HasTable
  <2> QED  BY <1>2, <2>1, <2>4, CacheStands
<1>4. CASE generate_missing_move_teacher(c)
  <2>1. CASE Resumes(c, solved) /\ solved.sealed = missing
    <3>1. Set(c, [pc |-> "merge", todo |-> Entries(solved.rows)])
      BY <1>4, <2>1 DEF generate_missing_move_teacher
    <3>2. /\ DOMAIN campaign'[c] = Fields
          /\ campaign'[c].pc = "merge" /\ campaign'[c].todo = Entries(solved.rows)
          /\ campaign'[c].table = table /\ campaign'[c].solved = solved
          /\ campaign'[c].temp = campaign[c].temp
      BY <3>1 DEF CacheInv, CacheType, Set, With, Fields
    <3>3. \A e \in Entries(solved.rows) : TrueEntry(e)
      <4>1. SolvedTable(c, solved.rows)
        BY <1>1, <2>1 DEF Sound, Resumes
      <4> QED  BY <1>1, <4>1, EntriesOfSolved
    <3>4. Sound(c)'
      BY <1>1, <1>2, <3>2, <3>3 DEF Sound, HasTable
    <3> QED  BY <1>2, <3>1, <3>4, CacheStands
  <2>2. CASE Resumes(c, solved) /\ solved.sealed # missing
    <3>1. Set(c, [pc |-> "failed"])
      BY <1>4, <2>2 DEF generate_missing_move_teacher
    <3> QED  BY <1>2, <3>1, OnlyMoves DEF HasTable
  <2>3. CASE ~Resumes(c, solved)
    <3> DEFINE new == [rows |-> solved_rows(c, missing), sealed |-> None]
    <3>1. Set(c, [pc |-> "seal missing", solved |-> new])
      BY <1>4, <2>3 DEF generate_missing_move_teacher
    <3>2. new.rows = solved_rows(c, missing)
      OBVIOUS
    <3> HIDE DEF new
    <3>3. /\ DOMAIN campaign'[c] = Fields
          /\ campaign'[c].pc = "seal missing" /\ campaign'[c].solved = new
          /\ campaign'[c].table = table
          /\ campaign'[c].todo = campaign[c].todo /\ campaign'[c].temp = campaign[c].temp
      BY <3>1 DEF CacheInv, CacheType, Set, With, Fields
    <3>4. missing \subseteq RootsOf(c)
      BY <1>1, <1>4 DEF generate_missing_move_teacher, Now, Sound
    <3>5. SolvedTable(c, new.rows)
      BY <3>2, <3>4 DEF SolvedTable
    <3>6. Sound(c)'
      BY <1>1, <1>2, <3>3, <3>5 DEF Sound, HasTable
    <3> QED  BY <1>2, <3>1, <3>6, CacheStands
  <2> QED  BY <2>1, <2>2, <2>3
<1>5. CASE seal_missing(c)
  <2> DEFINE new == [solved EXCEPT !.sealed = missing]
  <2>1. /\ campaign[c].pc = "seal missing"
        /\ Set(c, [pc |-> "merge", todo |-> Entries(solved.rows), solved |-> new])
    BY <1>5 DEF seal_missing, Step, Now
  <2>2. new.rows = solved.rows
    OBVIOUS
  <2> HIDE DEF new
  <2>3. /\ DOMAIN campaign'[c] = Fields
        /\ campaign'[c].pc = "merge" /\ campaign'[c].todo = Entries(solved.rows)
        /\ campaign'[c].solved = new /\ campaign'[c].table = table
        /\ campaign'[c].temp = campaign[c].temp
    BY <2>1 DEF CacheInv, CacheType, Set, With, Fields
  <2>4. SolvedTable(c, solved.rows)
    BY <1>1, <2>1 DEF Sound
  <2>5. \A e \in Entries(solved.rows) : TrueEntry(e)
    BY <1>1, <2>4, EntriesOfSolved
  <2>6. Sound(c)'
    BY <1>1, <1>2, <2>2, <2>3, <2>4, <2>5 DEF Sound, HasTable
  <2> QED  BY <1>2, <2>1, <2>6, CacheStands
<1>6. CASE populate_move_teacher_cache(c)
  <2>1. WholeTable(c, table.rows)
    BY <1>1, <1>6 DEF populate_move_teacher_cache, Step, Now, Sound, HasTable
  <2>2. CASE campaign[c].args.write
    <3>1. Set(c, [pc |-> "populate", todo |-> Entries(table.rows)])
      BY <1>6, <2>2 DEF populate_move_teacher_cache, Step
    <3>2. /\ DOMAIN campaign'[c] = Fields
          /\ campaign'[c].pc = "populate" /\ campaign'[c].todo = Entries(table.rows)
          /\ campaign'[c].table = table /\ campaign'[c].solved = solved
          /\ campaign'[c].temp = campaign[c].temp
      BY <3>1 DEF CacheInv, CacheType, Set, With, Fields
    <3>3. \A e \in Entries(table.rows) : TrueEntry(e)
      BY <1>1, <2>1, EntriesOfWhole
    <3>4. Sound(c)'
      BY <1>1, <1>2, <2>1, <3>2, <3>3 DEF Sound
    <3> QED  BY <1>2, <3>1, <3>4, CacheStands
  <2>3. CASE ~campaign[c].args.write
    <3>1. Set(c, [pc |-> "ok"])
      BY <1>6, <2>3 DEF populate_move_teacher_cache, Step
    <3> QED  BY <1>2, <2>1, <3>1, OnlyMoves
  <2> QED  BY <2>2, <2>3
<1> QED  BY <1>3, <1>4, <1>5, <1>6

\* A campaign that is killed, or started again, has its files and no more.
LEMMA CrashKeeps ==
    ASSUME CacheInv, NEW c \in Campaigns, crash(c) \/ restart(c)
    PROVE  CacheInv'
<1>1. Sound(c)
  BY AllSound
<1>2. UNCHANGED cache /\ \E fields : Set(c, fields)
  BY DEF crash, restart
<1>3. /\ DOMAIN campaign'[c] = Fields
      /\ campaign'[c].pc \in {"down", "begin"}
      /\ campaign'[c].table = campaign[c].table /\ campaign'[c].solved = campaign[c].solved
      /\ campaign'[c].todo = {} /\ campaign'[c].temp = None
  <2>1. CASE crash(c)
    <3>1. Set(c, [pc |-> "down", todo |-> {}, temp |-> None])
      BY <2>1 DEF crash
    <3> QED  BY <3>1 DEF CacheInv, CacheType, Set, With, Fields
  <2>2. CASE restart(c)
    <3>1. PICK given \in campaign_args :
              Set(c, [pc |-> "begin", args |-> given,
                      restarts |-> campaign[c].restarts + 1, todo |-> {}, temp |-> None])
      BY <2>2 DEF restart
    <3> QED  BY <3>1 DEF CacheInv, CacheType, Set, With, Fields
  <2> QED  BY <2>1, <2>2
<1>4. Sound(c)'
  BY <1>1, <1>3 DEF Sound, HasTable
<1> QED  BY <1>2, <1>4, CacheStands

\* Every step of every campaign keeps the invariant.
LEMMA CacheStep == CacheInv /\ [CacheNext]_cacheVars => CacheInv'
<1> SUFFICES ASSUME CacheInv, [CacheNext]_cacheVars
             PROVE  CacheInv'
  OBVIOUS
<1>1. CASE UNCHANGED cacheVars
  <2>1. cache' = cache /\ campaign' = campaign
    BY <1>1 DEF cacheVars
  <2> QED  BY <2>1 DEF CacheInv, CacheType, CacheIsTrue, TablesAreWhole, SolvedAreTrue,
              MissingAreRoots, TodoIsTrue, TempInHand, Populating, Now
<1>2. CASE CacheNext
  <2>1. PICK c \in Campaigns :
          \/ write_cache_entry(c) \/ check_again(c) \/ replace_entry(c) \/ populated(c)
          \/ materialize(c) \/ seal_table(c) \/ partial_hit(c)
          \/ probe(c) \/ generate_missing_move_teacher(c) \/ seal_missing(c)
          \/ final_probe(c) \/ materialize_again(c) \/ seal_again(c) \/ augment_report(c)
          \/ generate(c) \/ seal_generated(c) \/ populate_move_teacher_cache(c)
          \/ crash(c) \/ restart(c)
    BY <1>2 DEF CacheNext
  <2> QED  BY <2>1, WritingKeeps, TableKeeps, SolvingKeeps, CrashKeeps
<1> QED  BY <1>1, <1>2

\* The inductive invariant of the shared cache and the campaigns over it.
THEOREM CacheIInv == CacheSpec => []CacheInv
BY CacheInit, CacheStep, PTL DEF CacheSpec

\* Tables that are whole are what is promised.
LEMMA WholeTruth == CacheInv => CacheServesWholeTruth
<1> SUFFICES ASSUME CacheInv, NEW c \in Campaigns, Now(c, "ok")
             PROVE  WholeTable(c, campaign[c].table.rows)
  BY DEF CacheServesWholeTruth, WholeTable
<1>1. campaign[c].pc \in HasTable
  BY DEF HasTable, Now
<1> QED  BY <1>1 DEF CacheInv, TablesAreWhole

\* What a finished campaign trains on is complete and whole: the promise of
\* run_cache_materialization_stage, for any number of campaigns side by side.
THEOREM CacheCorrect == CacheSpec => []CacheServesWholeTruth
BY WholeTruth, CacheIInv, PTL

(***************************************************************************)
(* The trainer, the exporters and the importer of weights.                 *)
(***************************************************************************)

ExportTools == {"export_v0a", "export_v0b"}
WeightTools == ExportTools \cup {"train"}

\* An artifact holds whole numbers, at a scale that divides Unit.
WholeArtifact(a) ==
    /\ \A k \in Trainer!Keys : a.values[k] \in Int
    /\ a.scale \in Nat \ {0} /\ Unit % a.scale = 0

\* What an artifact says of a weight.
Weight(a, k) == (Unit * a.values[k]) \div a.scale

ArtifactsAreWhole ==
    /\ files.payload # None => WholeArtifact(files.payload)
    /\ files.source # None =>
          /\ WholeArtifact(files.source)
          /\ \A k \in Trainer!Keys : files.initial.values[k] = Weight(files.source, k)

PayloadOfWeights ==
    /\ \A k \in Trainer!Keys :
          files.payload.values[k] = Trainer!quantize_weight(files.weights.values[k], Trainer!Scale)
    /\ files.payload.scale = Trainer!Scale

ExportingNow == args # None /\ args.tool \in ExportTools /\ outcome = None

ExportsAreOfWeights ==
    /\ files.exporting # None => ExportingNow /\ PayloadOfWeights
    /\ Finished("export_v0b") =>
          PayloadOfWeights /\ files.manifest.trained = files.trained

TrainerFields ==
    {"weights", "keys", "updated", "validates", "initial", "artifact", "freeze", "epoch",
     "stopped", "waiting", "best", "best_loss", "best_epoch", "history"}

\* A weight that is no key of the training is where it began.
UnmovedWeights(t) ==
    \A k \in Trainer!Keys : k \notin t.keys =>
        t.weights[k] = t.initial[k] /\ t.best[k] = t.initial[k]

FrozenKeys(t) == \A k \in t.keys : k[1] \notin t.freeze

InitialOfArtifact(t) ==
    t.artifact # None =>
        /\ WholeArtifact(t.artifact)
        /\ \A k \in Trainer!Keys : t.initial[k] = Weight(t.artifact, k)

\* An entry of the history is best: none is better, none before as good.
FirstBest(h, i) ==
    /\ i \in DOMAIN h
    /\ \A j \in DOMAIN h : /\ h[i].loss <= h[j].loss
                           /\ j < i => h[i].loss < h[j].loss

HistoryIsSound(t) ==
    /\ \E S : t.history \in Seq(S)
    /\ t.epoch = Len(t.history)
    /\ t.validates =>
          /\ \A j \in DOMAIN t.history : t.history[j].loss \in Losses
          /\ t.history # <<>> => t.best_loss # None
    /\ ~t.validates => t.best_loss = None
    /\ t.best_epoch # None => t.best_loss # None
    /\ t.best_loss # None =>
          /\ FirstBest(t.history, t.best_epoch)
          /\ t.history[t.best_epoch].weights = t.best
          /\ t.history[t.best_epoch].loss = t.best_loss

TrainerIsSound ==
    trainer # None =>
        /\ DOMAIN trainer = TrainerFields
        /\ UnmovedWeights(trainer) /\ FrozenKeys(trainer)
        /\ InitialOfArtifact(trainer) /\ HistoryIsSound(trainer)

\* Some train row reads a weight.
ReadByTrainRow(k) ==
    \E e \in Trainer!load_examples :
        e.split = "train" /\ e.phase = k[1] /\ (k[2] = Trainer!Bias \/ k[2] \in e.patterns)

TrainingHasItsRows ==
    Running("train") /\ trainer # None =>
        /\ trainer.freeze = args.freeze
        /\ \A k \in trainer.keys : ReadByTrainRow(k)

\* What a training leaves, until the next one.
TrainedWeights ==
    /\ files.weights.values = Trainer!FinalWeights
    /\ trainer.freeze # {} => trainer.freeze \subseteq files.trained

TrainingsEnd ==
    trainer # None => (Running("train") /\ outcome = None) \/ TrainedWeights

InputsAreLegal ==
    /\ Artifacts \cup Tables \subseteq DOMAIN files
    /\ plan \in Seq(DOMAIN CommandLines)
    /\ args # None => Legal(args)

\* A run starts without anything, and goes on only when it found nothing and
\* has made the directory it writes into.
PCs == {"idle", "making", "copying", "starting", "stage", "tool", "report", "failing", "ended"}

Made(id) == runner[id].pc \in {"copying", "starting", "stage", "tool", "report", "failing"}

RunType(id) ==
    /\ DOMAIN runner[id] = {"pc", "found", "stage", "read", "stages"}
    /\ runner[id].pc \in PCs
    /\ runner[id].stage \in 1..3
    /\ runner[id].pc = "idle" => runner[id].found = None
    /\ runner[id].pc \in {"making", "copying", "starting"} => runner[id].stage = 1
    /\ runner[id].pc \notin {"idle", "ended"} => runner[id].found = "nothing"
    /\ Made(id) => directory.exists

DirectoryType ==
    /\ DOMAIN directory = {"exists", "manifest", "report", "files"}
    /\ DOMAIN directory.files = TrainingRun!StageNames
    /\ directory.exists \in BOOLEAN
    /\ ~directory.exists => directory = TrainingRun!NoDirectory

WritersAreFounders ==
    /\ directory.manifest # None => directory.manifest \in TrainingRun!Founders
    /\ directory.report # None => directory.report.id \in TrainingRun!Founders
    /\ \A s \in TrainingRun!StageNames :
          directory.files[s] # None => directory.files[s][1] \in TrainingRun!Founders

\* Of a run that alone found nothing: the files of the stages behind it are
\* its own, each made from the one before, and it ends with a complete report.
StageBehind(id, s) ==
    /\ runner[id].pc \in {"stage", "tool", "report"}
    /\ s < runner[id].stage \/ (s = runner[id].stage /\ runner[id].pc = "report")

SourceOf(id, s) == IF s = 1 THEN id ELSE directory.files[TrainingRun!Stages[s - 1]]

FilesOfRun(id, s) == directory.files[TrainingRun!Stages[s]] = <<id, SourceOf(id, s)>>

OneRunOnly(id) ==
    /\ runner[id].pc \in {"starting", "stage", "tool", "report"} => directory.manifest = id
    /\ runner[id].pc = "tool" => runner[id].read = SourceOf(id, runner[id].stage)
    /\ \A s \in 1..3 : StageBehind(id, s) => FilesOfRun(id, s)
    /\ directory.report # None /\ directory.report.status = "complete" =>
          runner[id].pc = "ended" /\ \A s \in 1..3 : FilesOfRun(id, s)

RunsAreWhole ==
    runner # None =>
        /\ DOMAIN runner = 1..Runs
        /\ \A id \in 1..Runs : RunType(id)
        /\ DirectoryType
        /\ WritersAreFounders
        /\ \A id \in 1..Runs : TrainingRun!Founders = {id} => OneRunOnly(id)

FinishedIsTrained == Finished("train") => trainer # None

PipelineInv ==
    /\ InputsAreLegal
    /\ ArtifactsAreWhole
    /\ ExportsAreOfWeights
    /\ TrainerIsSound
    /\ TrainingHasItsRows
    /\ TrainingsEnd

-----------------------------------------------------------------------------
\* A number between two multiples is divided by the lower one.
LEMMA Quotient ==
    ASSUME NEW a \in Int, NEW b \in Nat \ {0}, NEW q \in Int, b * q <= a, a < b * q + b
    PROVE  a \div b = q
OBVIOUS

\* Weights that an artifact holds come through an import and an export at
\* the same scale as they were.
THEOREM QuantizeDequantize ==
    ASSUME NEW v \in Int, NEW scale \in Nat \ {0}, Unit % scale = 0
    PROVE  Trainer!quantize_weight((Unit * v) \div scale, scale) = v
<1> DEFINE q == Unit \div scale
           d == q * v
<1>1. Unit \in Nat \ {0} /\ q \in Nat \ {0} /\ Unit = scale * q
  BY NumbersAssumption
<1>2. d \in Int /\ Unit * v \in Int /\ scale * d = Unit * v
  BY <1>1
<1>3. (Unit * v) \div scale = d
  <2> HIDE DEF d
  <2> QED  BY <1>2, Quotient
<1>4. 2 * d * scale = 2 * (Unit * v)
  <2> HIDE DEF d
  <2> QED  BY <1>2
<1>5. CASE d >= 0
  <2>1. (2 * d * scale + Unit) \div (2 * Unit) = v
    <3>1. (2 * Unit) * v <= 2 * (Unit * v) + Unit
      BY <1>1, <1>2
    <3>2. 2 * (Unit * v) + Unit < (2 * Unit) * v + 2 * Unit
      BY <1>1, <1>2
    <3>3. 2 * Unit \in Nat \ {0} /\ 2 * (Unit * v) + Unit \in Int
      BY <1>1, <1>2
    <3>4. (2 * (Unit * v) + Unit) \div (2 * Unit) = v
      BY <3>1, <3>2, <3>3, Quotient
    <3> QED  BY <1>4, <3>4
  <2> HIDE DEF d
  <2> QED  BY <1>3, <1>5, <2>1 DEF Trainer!quantize_weight
<1>6. CASE ~(d >= 0)
  <2>1. (Unit - 2 * d * scale) \div (2 * Unit) = -v
    <3>1. (2 * Unit) * (-v) <= Unit - 2 * (Unit * v)
      BY <1>1, <1>2
    <3>2. Unit - 2 * (Unit * v) < (2 * Unit) * (-v) + 2 * Unit
      BY <1>1, <1>2
    <3>3. 2 * Unit \in Nat \ {0} /\ Unit - 2 * (Unit * v) \in Int /\ -v \in Int
      BY <1>1, <1>2
    <3>4. (Unit - 2 * (Unit * v)) \div (2 * Unit) = -v
      BY <3>1, <3>2, <3>3, Quotient
    <3> QED  BY <1>4, <3>4
  <2> HIDE DEF d
  <2> QED  BY <1>3, <1>6, <2>1 DEF Trainer!quantize_weight
<1> QED  BY <1>5, <1>6

-----------------------------------------------------------------------------
\* A tool that neither trains nor exports leaves these files alone.
LeftAlone == {"weights", "trained", "payload", "exporting", "source", "initial"}
FilesKept == DOMAIN files' = DOMAIN files /\ \A f \in LeftAlone : files'[f] = files[f]

OtherTool ==
    /\ args # None /\ args.tool \notin WeightTools /\ outcome = None
    /\ FilesKept
    /\ UNCHANGED <<args, trainer, plan>>

LEMMA OtherToolKeeps ==
    ASSUME PipelineInv, OtherTool
    PROVE  PipelineInv'
<1>1. /\ files'.weights = files.weights /\ files'.trained = files.trained
      /\ files'.payload = files.payload /\ files'.exporting = files.exporting
      /\ files'.source = files.source /\ files'.initial = files.initial
  BY DEF OtherTool, FilesKept, LeftAlone
<1>2. args' = args /\ trainer' = trainer /\ plan' = plan
  BY DEF OtherTool
<1>3. args # None /\ args.tool # "train" /\ args.tool \notin ExportTools /\ outcome = None
  BY DEF OtherTool, WeightTools
<1>4. InputsAreLegal'
  BY <1>2 DEF PipelineInv, InputsAreLegal, OtherTool, FilesKept, Legal, Trainer!trainer_parse_args
<1>5. ArtifactsAreWhole'
  BY <1>1 DEF PipelineInv, ArtifactsAreWhole, WholeArtifact, Weight, Trainer!Keys
<1>6. ExportsAreOfWeights'
  <2>1. files.exporting = None
    BY <1>3 DEF PipelineInv, ExportsAreOfWeights, ExportingNow
  <2>2. ~Finished("export_v0b")'
    BY <1>2, <1>3 DEF Finished, Running, ExportTools
  <2> QED  BY <1>1, <2>1, <2>2 DEF ExportsAreOfWeights
<1>7. TrainerIsSound'
  BY <1>2 DEF PipelineInv, TrainerIsSound, UnmovedWeights, FrozenKeys, InitialOfArtifact,
     HistoryIsSound, FirstBest, WholeArtifact, Weight, Trainer!Keys
<1>8. TrainingHasItsRows'
  BY <1>2, <1>3 DEF TrainingHasItsRows, Running
<1>9. TrainingsEnd'
  <2>1. trainer # None => TrainedWeights
    BY <1>3 DEF PipelineInv, TrainingsEnd, Running
  <2>2. TrainedWeights => TrainedWeights'
    BY <1>1, <1>2 DEF TrainedWeights, Trainer!FinalWeights
  <2> QED  BY <1>2, <2>1, <2>2 DEF TrainingsEnd
<1> QED  BY <1>4, <1>5, <1>6, <1>7, <1>8, <1>9 DEF PipelineInv

\* What is written elsewhere is no artifact.
LEMMA ImportKeeps == PipelineInv /\ game_import => PipelineInv'
<1> SUFFICES ASSUME PipelineInv, game_import
             PROVE  PipelineInv'
  OBVIOUS
<1>1. /\ args # None /\ args.tool = "import_games" /\ Import!ImportNext
      /\ UNCHANGED <<trainer, plan>>
  BY DEF game_import, Running
<1>2. outcome = None /\ UNCHANGED args
  BY <1>1 DEF Import!ImportNext, Import!process_input, Import!payloads_from_file,
     Import!process_text_stream, Import!process_game, Import!finish_sequences,
     Import!finish_wthor, Import!Reading
<1>0. LeftAlone \subseteq DOMAIN files
  BY DEF PipelineInv, InputsAreLegal, Artifacts, LeftAlone
<1>3. FilesKept
  <2>1. CASE Import!process_input
    BY <1>0, <2>1 DEF FilesKept, LeftAlone, Import!process_input
  <2>2. CASE Import!payloads_from_file
    BY <1>0, <2>2 DEF FilesKept, LeftAlone, Import!payloads_from_file
  <2>3. CASE Import!process_text_stream
    BY <1>0, <2>3 DEF FilesKept, LeftAlone, Import!process_text_stream
  <2>4. CASE Import!process_game
    BY <1>0, <2>4 DEF FilesKept, LeftAlone, Import!process_game
  <2>5. CASE Import!finish_sequences
    BY <1>0, <2>5 DEF FilesKept, LeftAlone, Import!finish_sequences, Import!refuse
  <2>6. CASE Import!finish_wthor
    BY <1>0, <2>6 DEF FilesKept, LeftAlone, Import!finish_wthor, Import!refuse,
       Import!write_theoretical_wld,
       Import!write_normalized
  <2> QED  BY <1>1, <2>1, <2>2, <2>3, <2>4, <2>5, <2>6 DEF Import!ImportNext
<1> QED  BY <1>1, <1>2, <1>3, OtherToolKeeps DEF OtherTool, WeightTools, ExportTools

LEMMA BoardScoresKeep == PipelineInv /\ board_score_import => PipelineInv'
<1> SUFFICES ASSUME PipelineInv, board_score_import
             PROVE  PipelineInv'
  OBVIOUS
<1>1. /\ args # None /\ args.tool = "import_board_scores" /\ BoardScores!BoardScoreNext
      /\ UNCHANGED <<trainer, plan>>
  BY DEF board_score_import, Running
<1>2. outcome = None /\ UNCHANGED args
  BY <1>1 DEF BoardScores!BoardScoreNext, BoardScores!open_member, BoardScores!consider_line,
     BoardScores!replace_output, BoardScores!write_report
<1>0. LeftAlone \subseteq DOMAIN files
  BY DEF PipelineInv, InputsAreLegal, Artifacts, LeftAlone
<1>3. FilesKept
  <2>1. CASE UNCHANGED files
    BY <2>1 DEF FilesKept
  <2>2. CASE BoardScores!replace_output
    BY <1>0, <2>2 DEF BoardScores!replace_output, FilesKept, LeftAlone
  <2>3. CASE BoardScores!write_report
    BY <1>0, <2>3 DEF BoardScores!write_report, FilesKept, LeftAlone
  <2> QED  BY <1>1, <2>1, <2>2, <2>3 DEF BoardScores!BoardScoreNext, BoardScores!open_member,
              BoardScores!consider_line
<1> QED  BY <1>1, <1>2, <1>3, OtherToolKeeps DEF OtherTool, WeightTools, ExportTools

LEMMA SelectionKeeps == PipelineInv /\ selection => PipelineInv'
<1> SUFFICES ASSUME PipelineInv, selection
             PROVE  PipelineInv'
  OBVIOUS
<1>1. args # None /\ Selection!SelectionNext /\ UNCHANGED <<trainer, plan>>
  BY DEF selection
<1>2. /\ args.tool \in {"select_phases", "select_low_empty", "select_hard"}
      /\ outcome = None /\ UNCHANGED args
  BY <1>1 DEF Selection!SelectionNext, Selection!start_selection, Selection!augment,
     Selection!finish_selection, Selection!select_low_empty, Selection!select_hard
<1>0. LeftAlone \subseteq DOMAIN files
  BY DEF PipelineInv, InputsAreLegal, Artifacts, LeftAlone
<1>3. FilesKept
  <2>1. CASE Selection!start_selection
    BY <1>0, <2>1 DEF FilesKept, LeftAlone, Selection!start_selection, Selection!Report
  <2>2. CASE Selection!augment
    BY <1>0, <2>2 DEF FilesKept, LeftAlone, Selection!augment
  <2>3. CASE Selection!finish_selection
    BY <1>0, <2>3 DEF FilesKept, LeftAlone, Selection!finish_selection, Selection!Report
  <2>4. CASE Selection!select_low_empty
    BY <1>0, <2>4 DEF FilesKept, LeftAlone, Selection!select_low_empty, Selection!Report, Selection!Finish
  <2>5. CASE Selection!select_hard
    BY <1>0, <2>5 DEF FilesKept, LeftAlone, Selection!select_hard, Selection!Report, Selection!Finish
  <2> QED  BY <1>1, <2>1, <2>2, <2>3, <2>4, <2>5 DEF Selection!SelectionNext
<1> QED  BY <1>1, <1>2, <1>3, OtherToolKeeps DEF OtherTool, WeightTools, ExportTools

LEMMA LabellingKeeps == PipelineInv /\ labelling => PipelineInv'
<1> SUFFICES ASSUME PipelineInv, labelling
             PROVE  PipelineInv'
  OBVIOUS
<1>1. args # None /\ Labels!LabelNext /\ UNCHANGED <<trainer, plan>>
  BY DEF labelling
<1>2. /\ args.tool \in {"search_teacher", "exact_teacher", "partition", "merge", "overlay",
                        "derive", "apply"}
      /\ outcome = None /\ UNCHANGED args
  BY <1>1 DEF Labels!LabelNext, Labels!search_teacher, Labels!exact_teacher,
     Labels!partition_selected, Labels!merge_teacher_outputs,
     Labels!overlay_search_move_teacher, Labels!derive_exact_root_labels, Labels!apply_overlay
<1>0. LeftAlone \subseteq DOMAIN files /\ LeftAlone \cap Tables = {}
  BY DEF PipelineInv, InputsAreLegal, Artifacts, LeftAlone, Tables
<1>3. FilesKept
  <2>1. CASE Labels!search_teacher
    <3>1. args.move_teacher_out \in Tables /\ args.child_normalized_out \in Tables
      BY <1>1, <2>1 DEF PipelineInv, InputsAreLegal, Legal, Labels!search_teacher,
         ChildTable, Tables
    <3> QED  BY <1>0, <2>1, <3>1 DEF FilesKept, LeftAlone, Labels!search_teacher,
       Labels!Refuse, Labels!Labelled, Labels!Write
  <2>2. CASE Labels!exact_teacher
    <3>1. args.move_teacher_out \in Tables /\ args.child_normalized_out \in Tables
      BY <1>1, <2>2 DEF PipelineInv, InputsAreLegal, Legal, Labels!exact_teacher, ChildTable, Tables
    <3> QED  BY <1>0, <2>2, <3>1 DEF FilesKept, LeftAlone, Labels!exact_teacher,
       Labels!Refuse, Labels!Labelled, Labels!Write
  <2>3. CASE Labels!partition_selected
    BY <1>0, <2>3 DEF FilesKept, LeftAlone, Labels!partition_selected,
       Labels!Refuse, Labels!Write
  <2>4. CASE Labels!merge_teacher_outputs
    BY <1>0, <2>4 DEF FilesKept, LeftAlone, Labels!merge_teacher_outputs,
       Labels!Refuse
  <2>5. CASE Labels!overlay_search_move_teacher
    BY <1>0, <2>5 DEF FilesKept, LeftAlone, Labels!overlay_search_move_teacher,
       Labels!Refuse, Labels!Write
  <2>6. CASE Labels!derive_exact_root_labels
    BY <1>0, <2>6 DEF FilesKept, LeftAlone, Labels!derive_exact_root_labels,
       Labels!Refuse, Labels!Write
  <2>7. CASE Labels!apply_overlay
    BY <1>0, <2>7 DEF FilesKept, LeftAlone, Labels!apply_overlay,
       Labels!Refuse
  <2> QED  BY <1>1, <2>1, <2>2, <2>3, <2>4, <2>5, <2>6, <2>7 DEF Labels!LabelNext
<1> QED  BY <1>1, <1>2, <1>3, OtherToolKeeps DEF OtherTool, WeightTools, ExportTools

LEMMA BuildingKeeps ==
    ASSUME PipelineInv, args # None, Trainer!build_dataset, UNCHANGED plan
    PROVE  PipelineInv'
<1>1. args.tool = "build_dataset" /\ outcome = None /\ UNCHANGED <<args, trainer>>
  BY DEF Trainer!build_dataset
<1>2. LeftAlone \subseteq DOMAIN files
  BY DEF PipelineInv, InputsAreLegal, Artifacts, LeftAlone
<1>3. FilesKept
  BY <1>2 DEF Trainer!build_dataset, Trainer!Save, FilesKept, LeftAlone
<1> QED  BY <1>1, <1>3, OtherToolKeeps DEF OtherTool, WeightTools, ExportTools

\* What is imported is the artifact, at its scale.
LEMMA ImportArtifactKeeps ==
    ASSUME PipelineInv, args # None, Trainer!import_artifact, UNCHANGED plan
    PROVE  PipelineInv'
<1>1. args.tool = "import_artifact" /\ outcome = None /\ UNCHANGED <<args, trainer>>
  BY DEF Trainer!import_artifact
<1>2. CASE UNCHANGED files
  BY <1>1, <1>2, OtherToolKeeps DEF FilesKept, OtherTool, WeightTools, ExportTools
<1>3. CASE ~UNCHANGED files
  <2>1. /\ files.payload # None
        /\ files' = [files EXCEPT !.source = files.payload,
              !.initial = [values |-> [k \in Trainer!Keys |->
                                          Trainer!dequantize(files.payload.values[k])],
                           set |-> files.payload.set, trained |-> files.manifest.trained]]
    BY <1>3 DEF Trainer!import_artifact, Trainer!Fail, Trainer!Save
  <2>2. {"weights", "trained", "payload", "exporting", "source", "initial"} \subseteq DOMAIN files
    BY DEF PipelineInv, InputsAreLegal, Artifacts
  <2>3. /\ DOMAIN files' = DOMAIN files /\ files'.source = files.payload
        /\ \A k \in Trainer!Keys : files'.initial.values[k] = Weight(files.payload, k)
        /\ files'.payload = files.payload /\ files'.exporting = files.exporting
        /\ files'.weights = files.weights /\ files'.trained = files.trained
    BY <2>1, <2>2 DEF Trainer!dequantize, Weight
  <2>4. WholeArtifact(files.payload)
    BY <2>1 DEF PipelineInv, ArtifactsAreWhole
  <2>5. ArtifactsAreWhole'
    BY <2>3, <2>4 DEF ArtifactsAreWhole, WholeArtifact, Weight, Trainer!Keys
  <2>6. InputsAreLegal'
    BY <1>1, <2>3 DEF PipelineInv, InputsAreLegal, Legal, Trainer!trainer_parse_args
  <2>7. ExportsAreOfWeights'
    <3>1. files.exporting = None
      BY <1>1 DEF PipelineInv, ExportsAreOfWeights, ExportingNow, ExportTools
    <3> QED  BY <1>1, <2>3, <3>1 DEF ExportsAreOfWeights, Finished, Running
  <2>8. TrainerIsSound'
    BY <1>1 DEF PipelineInv, TrainerIsSound, UnmovedWeights, FrozenKeys, InitialOfArtifact,
       HistoryIsSound, FirstBest, WholeArtifact, Weight, Trainer!Keys
  <2>9. TrainingHasItsRows'
    BY <1>1 DEF TrainingHasItsRows, Running
  <2>10. TrainingsEnd'
    <3>1. trainer # None => TrainedWeights
      BY <1>1 DEF PipelineInv, TrainingsEnd, Running
    <3>2. TrainedWeights => TrainedWeights'
      BY <1>1, <2>3 DEF TrainedWeights, Trainer!FinalWeights
    <3> QED  BY <1>1, <3>1, <3>2 DEF TrainingsEnd
  <2> QED  BY <2>5, <2>6, <2>7, <2>8, <2>9, <2>10 DEF PipelineInv
<1> QED  BY <1>2, <1>3

\* Only a finished tool lets another one start, and a new training forgets
\* the last.
LEMMA StartKeeps == PipelineInv /\ start_tool => PipelineInv'
<1> SUFFICES ASSUME PipelineInv, start_tool
             PROVE  PipelineInv'
  OBVIOUS
<1>1. plan # <<>> /\ outcome \in {"ok", "shortage", "killed"} /\ plan' = Tail(plan)
  BY DEF start_tool
<1>2. PICK a \in CommandLines[Head(plan)] :
        CASE a.tool = "import_games" -> Import!start_import(a) /\ UNCHANGED <<flow, trainer>>
          [] a.tool = "import_board_scores" ->
               BoardScores!start_board_scores(a) /\ UNCHANGED <<theoretical, flow, trainer>>
          [] OTHER ->
               /\ args' = a /\ outcome' = None /\ flow' = None
               /\ trainer' = IF a.tool = "train" THEN None ELSE trainer
               /\ unread' = {} /\ lines' = <<>> /\ summary' = None
               /\ sample' = None /\ theoretical' = None
               /\ UNCHANGED files
  BY DEF start_tool
<1>3. Head(plan) \in DOMAIN CommandLines /\ Tail(plan) \in Seq(DOMAIN CommandLines)
  BY <1>1 DEF PipelineInv, InputsAreLegal
<1>4. Legal(a)
  BY <1>2, <1>3, CommandLinesAssumption
<1>5. args' = a /\ files' = files
  <2>1. CASE a.tool = "import_games"
    BY <1>2, <2>1 DEF Import!start_import
  <2>2. CASE a.tool = "import_board_scores"
    BY <1>2, <2>2 DEF BoardScores!start_board_scores
  <2>3. CASE a.tool \notin {"import_games", "import_board_scores"}
    BY <1>2, <2>3
  <2> QED  BY <2>1, <2>2, <2>3
<1>6. a.tool \in WeightTools => outcome' = None
  BY <1>2 DEF WeightTools, ExportTools
<1>7. IF a.tool = "train" THEN trainer' = None ELSE trainer' = trainer
  <2>1. CASE a.tool = "import_games"
    BY <1>2, <2>1
  <2>2. CASE a.tool = "import_board_scores"
    BY <1>2, <2>2
  <2>3. CASE a.tool \notin {"import_games", "import_board_scores"}
    BY <1>2, <2>3
  <2> QED  BY <2>1, <2>2, <2>3
<1>8. outcome # None
  BY <1>1, NumbersAssumption
<1>9. InputsAreLegal'
  BY <1>1, <1>3, <1>4, <1>5 DEF PipelineInv, InputsAreLegal, Legal, Trainer!trainer_parse_args
<1>10. ArtifactsAreWhole'
  BY <1>5 DEF PipelineInv, ArtifactsAreWhole, WholeArtifact, Weight, Trainer!Keys
<1>11. ExportsAreOfWeights'
  <2>1. files.exporting = None
    BY <1>8 DEF PipelineInv, ExportsAreOfWeights, ExportingNow
  <2>2. ~Finished("export_v0b")'
    BY <1>5, <1>6, NumbersAssumption DEF Finished, Running, WeightTools, ExportTools
  <2> QED  BY <1>5, <2>1, <2>2 DEF ExportsAreOfWeights
<1>12. TrainerIsSound'
  <2>1. CASE trainer' = None
    BY <2>1 DEF TrainerIsSound
  <2>2. CASE trainer' = trainer
    BY <2>2 DEF PipelineInv, TrainerIsSound, UnmovedWeights, FrozenKeys, InitialOfArtifact,
       HistoryIsSound, FirstBest, WholeArtifact, Weight, Trainer!Keys
  <2> QED  BY <1>7, <2>1, <2>2
<1>13. TrainingHasItsRows'
  BY <1>5, <1>7 DEF TrainingHasItsRows, Running
<1>14. TrainingsEnd'
  <2>1. CASE trainer' = None
    BY <2>1 DEF TrainingsEnd
  <2>2. CASE trainer' = trainer
    <3>1. trainer # None => TrainedWeights
      BY <1>8 DEF PipelineInv, TrainingsEnd
    <3>2. TrainedWeights => TrainedWeights'
      BY <1>5, <2>2 DEF TrainedWeights, Trainer!FinalWeights
    <3> QED  BY <2>2, <3>1, <3>2 DEF TrainingsEnd
  <2> QED  BY <1>7, <2>1, <2>2
<1> QED  BY <1>9, <1>10, <1>11, <1>12, <1>13, <1>14 DEF PipelineInv

-----------------------------------------------------------------------------
(* A training.                                                             *)

\* What a step of the trainer leaves of the rest.
LEMMA TrainerOnly ==
    ASSUME PipelineInv, UNCHANGED <<args, files, plan>>, Running("train")
    PROVE  InputsAreLegal' /\ ArtifactsAreWhole' /\ ExportsAreOfWeights'
<1>1. InputsAreLegal'
  BY DEF PipelineInv, InputsAreLegal, Legal, Trainer!trainer_parse_args
<1>2. ArtifactsAreWhole'
  BY DEF PipelineInv, ArtifactsAreWhole, WholeArtifact, Weight, Trainer!Keys
<1>3. ExportsAreOfWeights'
  BY DEF PipelineInv, ExportsAreOfWeights, ExportingNow, ExportTools, Finished, Running
<1> QED  BY <1>1, <1>2, <1>3

\* The example of a row of the teachers is the one that was checked.
LEMMA JoinedExample ==
    ASSUME ~Trainer!bad_teachers(Trainer!load_examples), NEW row \in Trainer!AllMoves
    PROVE  \E e \in Trainer!load_examples :
              /\ e.split = row.split /\ e.phase = PhaseOfBoard(row.child_board)
              /\ e.patterns = Trainer!features(row)
<1> DEFINE E == Trainer!load_examples
<1>1. PICK i \in DOMAIN Trainer!Teachers : row \in Trainer!Teachers[i]
  BY DEF Trainer!AllMoves, Trainer!Range
<1>2. ~Trainer!bad_teacher(Trainer!Teachers[i], E)
  BY DEF Trainer!bad_teachers
<1>3. PICK e \in E : /\ e.record = row.child /\ e.split = row.split
                     /\ e.phase = PhaseOfBoard(row.child_board)
  BY <1>1, <1>2 DEF Trainer!bad_teacher
<1>4. \A x, y \in E : x.record = y.record => x = y
  BY DEF Trainer!bad_teachers
<1>5. e = CHOOSE x \in E : x.record = row.child
  BY <1>3, <1>4
<1> QED  BY <1>3, <1>5 DEF Trainer!features

\* Every weight that ranking moves is read by a train row, and is none of a
\* frozen phase.
LEMMA RankKeys ==
    ASSUME ~Trainer!bad_teachers(Trainer!load_examples), NEW pairs,
           NEW k \in Trainer!rank_keys(pairs)
    PROVE  k[1] \notin args.freeze /\ ReadByTrainRow(k)
<1>1. \E row \in Trainer!unfrozen_moves :
          \/ k = <<Trainer!ChildPhase(row), Trainer!Bias>>
          \/ \E p \in Trainer!features(row) : k = <<Trainer!ChildPhase(row), p>>
  <2>1. Trainer!pulled_moves(pairs) \subseteq Trainer!unfrozen_moves
    BY DEF Trainer!pulled_moves
  <2>2. CASE k \in {<<Trainer!ChildPhase(row), Trainer!Bias>> : row \in Trainer!pulled_moves(pairs)}
    BY <2>1, <2>2
  <2>3. CASE \E row \in Trainer!unfrozen_moves :
                k \in {<<Trainer!ChildPhase(row), p>> : p \in Trainer!trainable_patterns(row)}
    <3>1. \A row : Trainer!trainable_patterns(row) \subseteq Trainer!features(row)
      BY DEF Trainer!trainable_patterns
    <3> QED  BY <2>3, <3>1
  <2> QED  BY <2>1, <2>2, <2>3 DEF Trainer!rank_keys
<1>2. PICK row \in Trainer!unfrozen_moves :
          \/ k = <<Trainer!ChildPhase(row), Trainer!Bias>>
          \/ \E p \in Trainer!features(row) : k = <<Trainer!ChildPhase(row), p>>
  BY <1>1
<1>3. /\ row \in Trainer!AllMoves /\ row.split = "train"
      /\ PhaseOfBoard(row.child_board) \notin args.freeze
  BY DEF Trainer!unfrozen_moves, Trainer!OfSplit, Trainer!ChildPhase
<1>4. PICK e \in Trainer!load_examples :
          /\ e.split = row.split /\ e.phase = PhaseOfBoard(row.child_board)
          /\ e.patterns = Trainer!features(row)
  BY <1>3, JoinedExample
<1>5. k[1] = PhaseOfBoard(row.child_board) /\ (k[2] = Trainer!Bias \/ k[2] \in e.patterns)
  BY <1>2, <1>4 DEF Trainer!ChildPhase
<1> QED  BY <1>3, <1>4, <1>5 DEF ReadByTrainRow

LEMMA SgdKeys ==
    ASSUME NEW k \in Trainer!sgd_keys(Trainer!load_examples)
    PROVE  ReadByTrainRow(k)
<1>1. PICK e \in Trainer!OfSplit(Trainer!load_examples, "train") :
          k \in {<<e.phase, p>> : p \in e.patterns}
  BY DEF Trainer!sgd_keys
<1> QED  BY <1>1 DEF ReadByTrainRow, Trainer!OfSplit

\* What a training begins with.
LEMMA StartedIsSound ==
    ASSUME PipelineInv, NEW weights, NEW keys, NEW updated, NEW validates,
           trainer' = Trainer!Started(weights, keys, updated, validates),
           \A k \in keys : k[1] \notin args.freeze,
           args.initial => files.initial # None /\ weights = files.initial.values
    PROVE  TrainerIsSound'
<1>1. /\ DOMAIN trainer' = TrainerFields
      /\ trainer'.weights = weights /\ trainer'.best = weights /\ trainer'.initial = weights
      /\ trainer'.keys = keys /\ trainer'.freeze = args.freeze
      /\ trainer'.artifact = IF args.initial THEN files.source ELSE None
      /\ trainer'.history = <<>> /\ trainer'.epoch = 0
      /\ trainer'.best_loss = None /\ trainer'.best_epoch = None
  BY DEF Trainer!Started, TrainerFields
<1>2. UnmovedWeights(trainer') /\ FrozenKeys(trainer')
  BY <1>1 DEF UnmovedWeights, FrozenKeys
<1>3. InitialOfArtifact(trainer')
  BY <1>1 DEF InitialOfArtifact, PipelineInv, ArtifactsAreWhole
<1>4. HistoryIsSound(trainer')
  <2>1. <<>> \in Seq({}) /\ Len(<<>>) = 0 /\ DOMAIN <<>> = {}
    OBVIOUS
  <2> QED  BY <1>1, <2>1 DEF HistoryIsSound
<1> QED  BY <1>1, <1>2, <1>3, <1>4 DEF TrainerIsSound, UnmovedWeights, FrozenKeys,
            InitialOfArtifact, HistoryIsSound, FirstBest, WholeArtifact, Weight, Trainer!Keys

LEMMA StartTrainingKeeps ==
    ASSUME PipelineInv, args # None, Trainer!start_training, UNCHANGED plan
    PROVE  PipelineInv'
<1> DEFINE E == Trainer!load_examples
<1>1. /\ args.tool = "train" /\ outcome = None /\ trainer = None
      /\ UNCHANGED <<args, files>>
  BY DEF Trainer!start_training, Trainer!Fail
<1>2. Running("train") /\ Running("train")' /\ Legal(args)
  BY <1>1 DEF Running, PipelineInv, InputsAreLegal
<1>3. \/ trainer' = None
      \/ /\ outcome' = None /\ args.mode # "v0e" /\ Trainer!run_pattern_sgd(E)
      \/ /\ outcome' = None /\ args.mode = "v0e" /\ ~Trainer!bad_teachers(E)
         /\ args.initial => files.initial # None
         /\ Trainer!run_pattern_rank_v0e(E)
  BY <1>1 DEF Trainer!start_training
<1>4. args.mode # "v0e" => ~args.initial /\ args.freeze = {}
  BY <1>1, <1>2 DEF Legal, Trainer!trainer_parse_args
<1>5. /\ TrainerIsSound'
      /\ trainer' # None =>
            /\ outcome' = None /\ trainer'.freeze = args.freeze
            /\ \A k \in trainer'.keys : ReadByTrainRow(k)
  <2>1. CASE trainer' = None
    BY <2>1 DEF TrainerIsSound
  <2>2. CASE outcome' = None /\ args.mode # "v0e" /\ Trainer!run_pattern_sgd(E)
    <3>1. PICK weights, keys, updated, validates :
              /\ trainer' = Trainer!Started(weights, keys, updated, validates)
              /\ keys = IF args.mode = "v0a" THEN {} ELSE Trainer!sgd_keys(E)
      <4> HIDE DEF E
      <4> QED  BY <2>2 DEF Trainer!run_pattern_sgd
    <3>2. \A k \in keys : k \in Trainer!sgd_keys(E)
      BY <3>1
    <3>3. TrainerIsSound'
      BY <1>4, <2>2, <3>1, StartedIsSound
    <3>4. trainer'.keys = keys /\ trainer'.freeze = args.freeze
      BY <3>1 DEF Trainer!Started
    <3> QED  BY <2>2, <3>2, <3>3, <3>4, SgdKeys
  <2>3. CASE /\ outcome' = None /\ args.mode = "v0e" /\ ~Trainer!bad_teachers(E)
             /\ args.initial => files.initial # None
             /\ Trainer!run_pattern_rank_v0e(E)
    <3>1. PICK pairs :
              trainer' = Trainer!Started(
                  IF args.initial THEN files.initial.values ELSE Trainer!Initial(E),
                  Trainer!rank_keys(pairs),
                  {Trainer!ChildPhase(row) : row \in Trainer!pulled_moves(pairs)},
                  Trainer!ranks_validation)
      BY <2>3 DEF Trainer!run_pattern_rank_v0e
    <3>2. \A k \in Trainer!rank_keys(pairs) : k[1] \notin args.freeze /\ ReadByTrainRow(k)
      BY <2>3, RankKeys
    <3>3. PICK weights, keys, updated, validates :
              /\ trainer' = Trainer!Started(weights, keys, updated, validates)
              /\ keys = Trainer!rank_keys(pairs)
              /\ args.initial => weights = files.initial.values
      BY <3>1 DEF Trainer!ranks_validation
    <3>4. TrainerIsSound'
      BY <2>3, <3>2, <3>3, StartedIsSound
    <3>5. trainer'.keys = keys /\ trainer'.freeze = args.freeze
      BY <3>3 DEF Trainer!Started
    <3> QED  BY <2>3, <3>2, <3>3, <3>4, <3>5
  <2> QED  BY <1>3, <2>1, <2>2, <2>3
<1>6. InputsAreLegal' /\ ArtifactsAreWhole'
  BY <1>1, <1>2, TrainerOnly
<1>7. ExportsAreOfWeights'
  BY <1>1, <1>2, TrainerOnly
<1>8. TrainingHasItsRows'
  <2>1. \A k : ReadByTrainRow(k) => ReadByTrainRow(k)'
    BY <1>1 DEF ReadByTrainRow, Trainer!load_examples
  <2> QED  BY <1>1, <1>5, <2>1 DEF TrainingHasItsRows
<1>9. TrainingsEnd'
  BY <1>2, <1>5 DEF TrainingsEnd
<1> QED  BY <1>5, <1>6, <1>7, <1>8, <1>9 DEF PipelineInv

Improves(t, loss) == loss # None /\ (t.best_loss = None \/ loss < t.best_loss)

\* An epoch that is better than all before it is the first best one; any
\* other leaves the first best where it was.
LEMMA NextBest ==
    ASSUME NEW t, HistoryIsSound(t), NEW weights, NEW loss,
           t.validates => loss \in Losses, ~t.validates => loss = None,
           NEW u, u.validates = t.validates,
           u.history = Append(t.history, [weights |-> weights, loss |-> loss]),
           u.epoch = t.epoch + 1,
           u.best = IF Improves(t, loss) THEN weights ELSE t.best,
           u.best_loss = IF Improves(t, loss) THEN loss ELSE t.best_loss,
           u.best_epoch = IF Improves(t, loss) THEN t.epoch + 1 ELSE t.best_epoch
    PROVE  HistoryIsSound(u)
<1> DEFINE entry == [weights |-> weights, loss |-> loss]
           n == Len(t.history)
<1>1. PICK S : t.history \in Seq(S)
  BY DEF HistoryIsSound
<1>2. /\ u.history \in Seq(S \cup {entry}) /\ Len(u.history) = n + 1 /\ n \in Nat
      /\ DOMAIN u.history = 1..(n + 1) /\ DOMAIN t.history = 1..n
      /\ u.history[n + 1] = entry /\ \A j \in 1..n : u.history[j] = t.history[j]
  BY <1>1
<1>3. t.epoch = n /\ u.epoch = n + 1
  BY DEF HistoryIsSound
<1>4. t.validates => \A j \in DOMAIN u.history : u.history[j].loss \in Losses
  BY <1>2 DEF HistoryIsSound
<1>5. None \notin Losses /\ \A x \in Losses : x \in Int
  BY NumbersAssumption
<1>6. CASE Improves(t, loss)
  <2>1. t.validates /\ loss \in Losses /\ u.best_loss = loss /\ u.best = weights
        /\ u.best_epoch = n + 1
    BY <1>3, <1>6 DEF Improves
  <2>2. \A j \in 1..n : loss < t.history[j].loss
    <3> SUFFICES ASSUME NEW j \in 1..n
                 PROVE  loss < t.history[j].loss
      OBVIOUS
    <3>1. t.history # <<>> /\ t.history[j].loss \in Losses
      BY <1>2, <2>1 DEF HistoryIsSound
    <3>2. t.best_loss # None
      BY <2>1, <3>1 DEF HistoryIsSound
    <3>3. /\ t.history[t.best_epoch].loss = t.best_loss
          /\ t.best_loss <= t.history[j].loss /\ t.best_loss \in Losses
      BY <1>2, <2>1, <3>2 DEF HistoryIsSound, FirstBest
    <3>4. loss < t.best_loss
      BY <1>6, <3>2 DEF Improves
    <3>5. loss \in Int /\ t.best_loss \in Int /\ t.history[j].loss \in Int
      BY <1>5, <2>1, <3>1, <3>3
    <3> QED  BY <3>3, <3>4, <3>5
  <2>3. FirstBest(u.history, n + 1)
    <3>1. ASSUME NEW j \in 1..(n + 1)
          PROVE  /\ u.history[n + 1].loss <= u.history[j].loss
                 /\ j < n + 1 => u.history[n + 1].loss < u.history[j].loss
      <4>1. CASE j \in 1..n
        <5>1. loss < t.history[j].loss /\ t.history[j].loss \in Losses
          BY <1>2, <2>1, <2>2, <4>1 DEF HistoryIsSound
        <5>2. u.history[j].loss = t.history[j].loss /\ u.history[n + 1].loss = loss
          BY <1>2, <4>1
        <5>3. loss \in Int /\ t.history[j].loss \in Int
          BY <1>5, <2>1, <5>1
        <5> QED  BY <5>1, <5>2, <5>3
      <4>2. CASE j = n + 1
        <5>1. u.history[j].loss = loss /\ u.history[n + 1].loss = loss /\ loss \in Int
          BY <1>2, <1>5, <2>1, <4>2
        <5> QED  BY <1>2, <4>2, <5>1
      <4> QED  BY <1>2, <4>1, <4>2
    <3> QED  BY <1>2, <3>1 DEF FirstBest
  <2>4. u.history[n + 1].weights = u.best /\ u.history[n + 1].loss = u.best_loss
    BY <1>2, <2>1
  <2>5. u.best_loss # None
    BY <1>5, <2>1
  <2> QED  BY <1>2, <1>3, <1>4, <2>1, <2>3, <2>4, <2>5 DEF HistoryIsSound
<1>7. CASE ~Improves(t, loss)
  <2>1. u.best_loss = t.best_loss /\ u.best = t.best /\ u.best_epoch = t.best_epoch
    BY <1>7
  <2>2. t.validates => t.best_loss # None /\ t.best_loss <= loss
    <3> SUFFICES ASSUME t.validates
                 PROVE  t.best_loss # None /\ t.best_loss <= loss
      OBVIOUS
    <3>1. loss \in Losses /\ t.best_loss # None /\ ~(loss < t.best_loss)
      BY <1>5, <1>7 DEF Improves
    <3>2. t.best_loss \in Losses
      BY <3>1 DEF HistoryIsSound, FirstBest
    <3>3. loss \in Int /\ t.best_loss \in Int
      BY <1>5, <3>1, <3>2
    <3> QED  BY <3>1, <3>3
  <2>3. t.best_loss # None =>
          /\ FirstBest(u.history, t.best_epoch)
          /\ u.history[t.best_epoch].weights = t.best
          /\ u.history[t.best_epoch].loss = t.best_loss
    <3> SUFFICES ASSUME t.best_loss # None
                 PROVE  /\ FirstBest(u.history, t.best_epoch)
                        /\ u.history[t.best_epoch].weights = t.best
                        /\ u.history[t.best_epoch].loss = t.best_loss
      OBVIOUS
    <3>1. /\ t.validates /\ FirstBest(t.history, t.best_epoch)
          /\ t.history[t.best_epoch].weights = t.best
          /\ t.history[t.best_epoch].loss = t.best_loss
      BY DEF HistoryIsSound
    <3>2. t.best_epoch \in 1..n /\ u.history[t.best_epoch] = t.history[t.best_epoch]
      BY <1>2, <3>1 DEF FirstBest
    <3>3. ASSUME NEW j \in 1..(n + 1)
          PROVE  /\ t.history[t.best_epoch].loss <= u.history[j].loss
                 /\ j < t.best_epoch => t.history[t.best_epoch].loss < u.history[j].loss
      <4>1. CASE j \in 1..n
        BY <1>2, <3>1, <4>1 DEF FirstBest
      <4>2. CASE j = n + 1
        BY <1>2, <2>2, <3>1, <3>2, <4>2
      <4> QED  BY <1>2, <4>1, <4>2
    <3>4. FirstBest(u.history, t.best_epoch)
      BY <1>2, <3>2, <3>3 DEF FirstBest
    <3> QED  BY <3>1, <3>2, <3>4
  <2>4. t.validates => u.best_loss # None
    BY <2>1, <2>2
  <2> QED  BY <1>2, <1>3, <1>4, <2>1, <2>3, <2>4 DEF HistoryIsSound
<1> QED  BY <1>6, <1>7

LEMMA EpochKeeps ==
    ASSUME PipelineInv, args # None, Trainer!train_epoch, UNCHANGED plan
    PROVE  PipelineInv'
<1>1. /\ args.tool = "train" /\ outcome = None /\ trainer # None
      /\ UNCHANGED <<args, files, outcome>>
  BY DEF Trainer!train_epoch
<1>2. Running("train") /\ Running("train")'
  BY <1>1 DEF Running
<1>3. /\ DOMAIN trainer = TrainerFields /\ UnmovedWeights(trainer) /\ FrozenKeys(trainer)
      /\ InitialOfArtifact(trainer) /\ HistoryIsSound(trainer)
  BY <1>1 DEF PipelineInv, TrainerIsSound
<1>4. PICK step \in [trainer.keys -> Steps],
           loss \in (IF trainer.validates THEN Losses ELSE {None}) :
               trainer' = Trainer!after_epoch(Trainer!moved_weights(step), loss)
  BY DEF Trainer!train_epoch
<1> DEFINE weights == Trainer!moved_weights(step)
<1>5. /\ DOMAIN trainer' = TrainerFields
      /\ trainer'.weights = weights /\ trainer'.epoch = trainer.epoch + 1
      /\ trainer'.best = IF Improves(trainer, loss) THEN weights ELSE trainer.best
      /\ trainer'.best_loss = IF Improves(trainer, loss) THEN loss ELSE trainer.best_loss
      /\ trainer'.best_epoch = IF Improves(trainer, loss) THEN trainer.epoch + 1 ELSE trainer.best_epoch
      /\ trainer'.history = Append(trainer.history, [weights |-> weights, loss |-> loss])
      /\ trainer'.keys = trainer.keys /\ trainer'.freeze = trainer.freeze
      /\ trainer'.initial = trainer.initial /\ trainer'.artifact = trainer.artifact
      /\ trainer'.validates = trainer.validates
  BY <1>3, <1>4 DEF TrainerFields, Trainer!after_epoch, Trainer!improves, Improves
<1>6. \A k \in Trainer!Keys : k \notin trainer.keys => weights[k] = trainer.weights[k]
  BY DEF Trainer!moved_weights
<1> HIDE DEF weights
<1>7. HistoryIsSound(trainer')
  <2>1. trainer.validates => loss \in Losses
    BY <1>4
  <2>2. ~trainer.validates => loss = None
    BY <1>4
  <2> QED  BY <1>3, <1>5, <2>1, <2>2, NextBest
<1>8. UnmovedWeights(trainer')
  BY <1>3, <1>5, <1>6 DEF UnmovedWeights
<1>9. FrozenKeys(trainer') /\ InitialOfArtifact(trainer')
  BY <1>3, <1>5 DEF FrozenKeys, InitialOfArtifact
<1>10. TrainerIsSound'
  BY <1>5, <1>7, <1>8, <1>9 DEF TrainerIsSound, UnmovedWeights, FrozenKeys,
     InitialOfArtifact, HistoryIsSound, FirstBest, WholeArtifact, Weight, Trainer!Keys
<1>11. TrainingHasItsRows'
  <2>1. \A k : ReadByTrainRow(k) => ReadByTrainRow(k)'
    BY <1>1 DEF ReadByTrainRow, Trainer!load_examples
  <2> QED  BY <1>1, <1>2, <1>5, <2>1 DEF PipelineInv, TrainingHasItsRows
<1>12. TrainingsEnd'
  BY <1>1, <1>2 DEF TrainingsEnd
<1>13. InputsAreLegal' /\ ArtifactsAreWhole' /\ ExportsAreOfWeights'
  BY <1>1, <1>2, TrainerOnly
<1> QED  BY <1>10, <1>11, <1>12, <1>13 DEF PipelineInv

\* Frozen phases were trained before, and stay among the trained ones.
LEMMA WriteWeightsKeeps ==
    ASSUME PipelineInv, args # None, Trainer!write_weights, UNCHANGED plan
    PROVE  PipelineInv'
<1>1. /\ args.tool = "train" /\ outcome = None /\ trainer # None
      /\ UNCHANGED <<args, trainer>> /\ outcome' = "ok"
  BY DEF Trainer!write_weights, Trainer!Save
<1>2. Running("train") /\ Running("train")'
  BY <1>1 DEF Running
<1>3. Artifacts \subseteq DOMAIN files
  BY DEF PipelineInv, InputsAreLegal
<1>4. /\ DOMAIN files' = DOMAIN files
      /\ files'.weights.values = Trainer!FinalWeights /\ files'.trained = Trainer!trained_phases
      /\ files'.payload = files.payload /\ files'.exporting = files.exporting
      /\ files'.source = files.source /\ files'.initial = files.initial
      /\ files'.dataset = files.dataset
  BY <1>3 DEF Artifacts, Trainer!write_weights, Trainer!Save
<1>5. InputsAreLegal'
  BY <1>1, <1>4 DEF PipelineInv, InputsAreLegal, Legal, Trainer!trainer_parse_args
<1>6. ArtifactsAreWhole'
  BY <1>4 DEF PipelineInv, ArtifactsAreWhole, WholeArtifact, Weight, Trainer!Keys
<1>7. ExportsAreOfWeights'
  BY <1>1, <1>4 DEF PipelineInv, ExportsAreOfWeights, ExportingNow, ExportTools, Finished, Running
<1>8. TrainerIsSound'
  BY <1>1 DEF PipelineInv, TrainerIsSound, UnmovedWeights, FrozenKeys, InitialOfArtifact,
     HistoryIsSound, FirstBest, WholeArtifact, Weight, Trainer!Keys
<1>9. TrainingHasItsRows'
  <2>1. \A k : ReadByTrainRow(k) => ReadByTrainRow(k)'
    BY <1>4 DEF ReadByTrainRow, Trainer!load_examples
  <2> QED  BY <1>1, <1>2, <2>1 DEF PipelineInv, TrainingHasItsRows
<1>10. TrainingsEnd'
  <2>1. trainer.freeze # {} => trainer.freeze \subseteq Trainer!trained_phases
    <3> SUFFICES ASSUME trainer.freeze # {}
                 PROVE  trainer.freeze \subseteq Trainer!trained_phases
      OBVIOUS
    <3>1. trainer.freeze = args.freeze /\ args \in Trainer!trainer_parse_args({args})
      BY <1>1, <1>2 DEF PipelineInv, TrainingHasItsRows, InputsAreLegal, Legal
    <3>2. args.mode = "v0e" /\ args.freeze \subseteq args.initial_trained
      BY <3>1 DEF Trainer!trainer_parse_args
    <3> QED  BY <3>1, <3>2 DEF Trainer!trained_phases
  <2>2. TrainedWeights'
    BY <1>1, <1>4, <2>1 DEF TrainedWeights, Trainer!FinalWeights
  <2> QED  BY <2>2 DEF TrainingsEnd
<1> QED  BY <1>5, <1>6, <1>7, <1>8, <1>9, <1>10 DEF PipelineInv

-----------------------------------------------------------------------------
(* An export.                                                              *)

\* An exporter leaves the trainer and what it made alone.
ExporterOnly ==
    /\ args # None /\ args.tool \in ExportTools
    /\ DOMAIN files' = DOMAIN files
    /\ files'.weights = files.weights /\ files'.trained = files.trained
    /\ files'.source = files.source /\ files'.initial = files.initial
    /\ UNCHANGED <<args, trainer, plan>>

LEMMA ExporterLeaves ==
    ASSUME PipelineInv, ExporterOnly
    PROVE  InputsAreLegal' /\ TrainerIsSound' /\ TrainingHasItsRows' /\ TrainingsEnd'
<1>1. args' = args /\ trainer' = trainer /\ plan' = plan /\ ~Running("train")
  BY DEF ExporterOnly, ExportTools, Running
<1>2. InputsAreLegal'
  BY <1>1 DEF PipelineInv, InputsAreLegal, ExporterOnly, Legal, Trainer!trainer_parse_args
<1>3. TrainerIsSound'
  BY <1>1 DEF PipelineInv, TrainerIsSound, UnmovedWeights, FrozenKeys, InitialOfArtifact,
     HistoryIsSound, FirstBest, WholeArtifact, Weight, Trainer!Keys
<1>4. TrainingHasItsRows'
  BY <1>1 DEF TrainingHasItsRows, Running
<1>5. TrainingsEnd'
  <2>1. trainer # None => TrainedWeights
    BY <1>1 DEF PipelineInv, TrainingsEnd
  <2>2. TrainedWeights => TrainedWeights'
    BY <1>1 DEF TrainedWeights, ExporterOnly, Trainer!FinalWeights
  <2> QED  BY <1>1, <2>1, <2>2 DEF TrainingsEnd
<1> QED  BY <1>2, <1>3, <1>4, <1>5

\* A payload is written only of weights that fit.
LEMMA WritePayloadKeeps ==
    ASSUME PipelineInv, args # None, Trainer!write_payload, UNCHANGED plan
    PROVE  PipelineInv'
<1> DEFINE values == Trainer!Quantized(files.weights.values, Trainer!Scale)
           payload == [values |-> values, scale |-> Trainer!Scale, set |-> args.set]
<1>1. /\ args.tool \in ExportTools /\ outcome = None /\ UNCHANGED <<args, outcome, trainer>>
      /\ files' = [files EXCEPT !.payload = payload, !.exporting = payload]
  BY DEF Trainer!write_payload, ExportTools
<1>2. Artifacts \subseteq DOMAIN files
  BY DEF PipelineInv, InputsAreLegal
<1>3. \A k \in Trainer!Keys :
          /\ values[k] = Trainer!quantize_weight(files.weights.values[k], Trainer!Scale)
          /\ values[k] \in Int
  <2>1. ~Trainer!outside_int32(values)
    BY DEF Trainer!write_payload, Trainer!validate_phase_biases, Trainer!validate_weights,
       Trainer!Scale
  <2>2. \A k \in Trainer!Keys : values[k] \in Int
    BY <2>1, NumbersAssumption DEF Trainer!outside_int32
  <2>3. \A k \in Trainer!Keys :
            values[k] = Trainer!quantize_weight(files.weights.values[k], Trainer!Scale)
    BY DEF Trainer!Quantized
  <2> QED  BY <2>2, <2>3
<1>4. Trainer!Scale \in Nat \ {0} /\ Unit % Trainer!Scale = 0
  <2>1. Legal(args)
    BY DEF PipelineInv, InputsAreLegal
  <2> QED  BY <1>1, <2>1, NumbersAssumption DEF Legal, Trainer!Scale, ExportTools
<1> HIDE DEF values
<1>5. /\ DOMAIN files' = DOMAIN files
      /\ files'.payload = payload
      /\ files'.weights = files.weights /\ files'.trained = files.trained
      /\ files'.source = files.source /\ files'.initial = files.initial
  BY <1>1, <1>2 DEF Artifacts
<1>6. ArtifactsAreWhole'
  <2>1. WholeArtifact(payload)
    BY <1>3, <1>4 DEF WholeArtifact
  <2>2. WholeArtifact(files'.payload)
    BY <1>5, <2>1
  <2> QED  BY <1>5, <2>2 DEF PipelineInv, ArtifactsAreWhole, WholeArtifact, Weight, Trainer!Keys
<1>7. ExportsAreOfWeights'
  <2>1. PayloadOfWeights'
    BY <1>1, <1>3, <1>5 DEF PayloadOfWeights, Trainer!quantize_weight, Trainer!Scale, Trainer!Keys
  <2>2. ExportingNow'
    BY <1>1 DEF ExportingNow
  <2>3. ~Finished("export_v0b")'
    BY <1>1, NumbersAssumption DEF Finished
  <2> QED  BY <2>1, <2>2, <2>3 DEF ExportsAreOfWeights
<1>8. InputsAreLegal' /\ TrainerIsSound' /\ TrainingHasItsRows' /\ TrainingsEnd'
  BY <1>1, <1>5, ExporterLeaves DEF ExporterOnly
<1> QED  BY <1>6, <1>7, <1>8 DEF PipelineInv

LEMMA WriteManifestKeeps ==
    ASSUME PipelineInv, args # None, Trainer!write_manifest, UNCHANGED plan
    PROVE  PipelineInv'
<1>1. /\ args.tool \in ExportTools /\ UNCHANGED <<args, trainer>>
      /\ files.exporting # None
  BY DEF Trainer!write_manifest, ExportTools
<1>2. Artifacts \subseteq DOMAIN files
  BY DEF PipelineInv, InputsAreLegal
<1>3. /\ DOMAIN files' = DOMAIN files
      /\ files'.payload = files.payload /\ files'.exporting = None
      /\ files'.weights = files.weights /\ files'.trained = files.trained
      /\ files'.source = files.source /\ files'.initial = files.initial
      /\ files'.manifest.trained = IF args.tool = "export_v0a" THEN None ELSE files.trained
  BY <1>2 DEF Artifacts, Trainer!write_manifest, Trainer!Save
<1>4. ArtifactsAreWhole'
  BY <1>3 DEF PipelineInv, ArtifactsAreWhole, WholeArtifact, Weight, Trainer!Keys
<1>5. ExportsAreOfWeights'
  <2>1. PayloadOfWeights
    BY <1>1 DEF PipelineInv, ExportsAreOfWeights
  <2>2. PayloadOfWeights'
    BY <1>1, <1>3, <2>1 DEF PayloadOfWeights, Trainer!quantize_weight, Trainer!Scale, Trainer!Keys
  <2>3. Finished("export_v0b")' => files'.manifest.trained = files'.trained
    BY <1>1, <1>3 DEF Finished, Running
  <2> QED  BY <1>3, <2>2, <2>3 DEF ExportsAreOfWeights
<1>6. InputsAreLegal' /\ TrainerIsSound' /\ TrainingHasItsRows' /\ TrainingsEnd'
  BY <1>1, <1>3, ExporterLeaves DEF ExporterOnly
<1> QED  BY <1>4, <1>5, <1>6 DEF PipelineInv

\* An export that is refused or killed.
LEMMA NoExportKeeps ==
    ASSUME PipelineInv, args # None, Trainer!refuse_export \/ Trainer!export_killed,
           UNCHANGED plan
    PROVE  PipelineInv'
<1>1. /\ args.tool \in ExportTools /\ UNCHANGED <<args, trainer>>
      /\ outcome' \in {"weights-refused", "killed"}
  BY DEF Trainer!refuse_export, Trainer!Fail, Trainer!export_killed, ExportTools,
     PipelineInv, ExportsAreOfWeights, ExportingNow
<1>2. Artifacts \subseteq DOMAIN files
  BY DEF PipelineInv, InputsAreLegal
<1>3. /\ DOMAIN files' = DOMAIN files
      /\ files'.payload = files.payload /\ files'.exporting = None
      /\ files'.weights = files.weights /\ files'.trained = files.trained
      /\ files'.source = files.source /\ files'.initial = files.initial
  <2>1. CASE Trainer!refuse_export
    BY <2>1 DEF Trainer!refuse_export, Trainer!Fail
  <2>2. CASE Trainer!export_killed
    BY <1>2, <2>2 DEF Artifacts, Trainer!export_killed
  <2> QED  BY <2>1, <2>2
<1>4. ArtifactsAreWhole'
  BY <1>3 DEF PipelineInv, ArtifactsAreWhole, WholeArtifact, Weight, Trainer!Keys
<1>5. ExportsAreOfWeights'
  BY <1>1, <1>3 DEF ExportsAreOfWeights, Finished
<1>6. InputsAreLegal' /\ TrainerIsSound' /\ TrainingHasItsRows' /\ TrainingsEnd'
  BY <1>1, <1>3, ExporterLeaves DEF ExporterOnly
<1> QED  BY <1>4, <1>5, <1>6 DEF PipelineInv

LEMMA TrainingKeeps == PipelineInv /\ training => PipelineInv'
<1> SUFFICES ASSUME PipelineInv, training
             PROVE  PipelineInv'
  OBVIOUS
<1>1. args # None /\ UNCHANGED plan /\ Trainer!TrainerNext
  BY DEF training
<1>2. CASE Trainer!build_dataset
  BY <1>1, <1>2, BuildingKeeps
<1>3. CASE Trainer!start_training
  BY <1>1, <1>3, StartTrainingKeeps
<1>4. CASE Trainer!train_epoch
  BY <1>1, <1>4, EpochKeeps
<1>5. CASE Trainer!write_weights
  BY <1>1, <1>5, WriteWeightsKeeps
<1>6. CASE Trainer!write_payload
  BY <1>1, <1>6, WritePayloadKeeps
<1>7. CASE Trainer!write_manifest
  BY <1>1, <1>7, WriteManifestKeeps
<1>8. CASE Trainer!refuse_export \/ Trainer!export_killed
  BY <1>1, <1>8, NoExportKeeps
<1>9. CASE Trainer!import_artifact
  BY <1>1, <1>9, ImportArtifactKeeps
<1> QED  BY <1>1, <1>2, <1>3, <1>4, <1>5, <1>6, <1>7, <1>8, <1>9 DEF Trainer!TrainerNext

\* What a step outside the pipeline leaves of it.
LEMMA PipelineStands ==
    ASSUME PipelineInv, UNCHANGED <<args, outcome, files, trainer, plan>>
    PROVE  PipelineInv'
<1>1. InputsAreLegal'
  BY DEF PipelineInv, InputsAreLegal, Legal, Trainer!trainer_parse_args
<1>2. ArtifactsAreWhole'
  BY DEF PipelineInv, ArtifactsAreWhole, WholeArtifact, Weight, Trainer!Keys
<1>3. ExportsAreOfWeights'
  BY DEF PipelineInv, ExportsAreOfWeights, ExportingNow, PayloadOfWeights, Finished, Running,
     Trainer!quantize_weight, Trainer!Scale, Trainer!Keys
<1>4. TrainerIsSound'
  BY DEF PipelineInv, TrainerIsSound, UnmovedWeights, FrozenKeys, InitialOfArtifact,
     HistoryIsSound, FirstBest, WholeArtifact, Weight, Trainer!Keys
<1>5. TrainingHasItsRows'
  <2>1. \A k : ReadByTrainRow(k) => ReadByTrainRow(k)'
    BY DEF ReadByTrainRow, Trainer!load_examples
  <2> QED  BY <2>1 DEF PipelineInv, TrainingHasItsRows, Running
<1>6. TrainingsEnd'
  BY DEF PipelineInv, TrainingsEnd, Running, TrainedWeights, Trainer!FinalWeights
<1> QED  BY <1>1, <1>2, <1>3, <1>4, <1>5, <1>6 DEF PipelineInv

-----------------------------------------------------------------------------
(* The runs of board-score training.                                       *)

LEMMA StageNumbers ==
    /\ TrainingRun!Stages[1] = "import" /\ TrainingRun!Stages[2] = "dataset"
    /\ TrainingRun!Stages[3] = "train"
    /\ \A s \in 1..3 : TrainingRun!Stages[s] \in TrainingRun!StageNames
    /\ \A s, r \in 1..3 : TrainingRun!Stages[s] = TrainingRun!Stages[r] => s = r
BY DEF TrainingRun!Stages, TrainingRun!StageNames

\* What a run that found nothing may do: only it moves, it stays a founder,
\* what it writes bears its name, and if it is alone its files stay its own.
StepOfRun(id) ==
    /\ DOMAIN runner' = 1..Runs
    /\ \A j \in 1..Runs : j # id => runner'[j] = runner[j]
    /\ RunType(id)' /\ runner'[id].found = "nothing"
    /\ DirectoryType'
    /\ directory.exists => directory'.exists
    /\ directory'.manifest \in {directory.manifest, id}
    /\ directory'.report = directory.report \/ directory'.report.id = id
    /\ \A s \in TrainingRun!StageNames :
          directory'.files[s] = directory.files[s] \/ directory'.files[s][1] = id
    /\ OneRunOnly(id) => OneRunOnly(id)'

LEMMA StepOfRunKeeps ==
    ASSUME RunsAreWhole, runner # None, NEW id \in 1..Runs,
           runner[id].pc \notin {"idle", "ended"}, StepOfRun(id)
    PROVE  RunsAreWhole'
<1>1. /\ DOMAIN runner = 1..Runs /\ \A j \in 1..Runs : RunType(j)
      /\ DirectoryType /\ WritersAreFounders
      /\ \A j \in 1..Runs : TrainingRun!Founders = {j} => OneRunOnly(j)
  BY DEF RunsAreWhole
<1>2. runner[id].found = "nothing" /\ runner'[id].found = "nothing"
  BY <1>1 DEF RunType, StepOfRun
<1>3. TrainingRun!Founders' = TrainingRun!Founders /\ id \in TrainingRun!Founders
  BY <1>2 DEF StepOfRun, TrainingRun!Founders
<1>4. \A j \in 1..Runs : RunType(j)'
  <2>1. ASSUME NEW j \in 1..Runs, j # id
        PROVE  RunType(j)'
    <3>1. runner'[j] = runner[j] /\ (directory.exists => directory'.exists)
      BY <2>1 DEF StepOfRun
    <3>2. RunType(j)
      BY <1>1
    <3> QED  BY <3>1, <3>2 DEF RunType, Made
  <2> QED  BY <2>1 DEF StepOfRun
<1>5. WritersAreFounders'
  BY <1>1, <1>3 DEF WritersAreFounders, StepOfRun, TrainingRun!StageNames
<1>6. ASSUME NEW j \in 1..Runs, TrainingRun!Founders' = {j}
      PROVE  OneRunOnly(j)'
  <2>1. j = id /\ OneRunOnly(id)
    BY <1>1, <1>3, <1>6
  <2> QED  BY <2>1 DEF StepOfRun
<1>7. DOMAIN runner' = 1..Runs /\ DirectoryType'
  BY DEF StepOfRun
<1> QED  BY <1>4, <1>5, <1>6, <1>7 DEF RunsAreWhole

\* A directory that is there is refused; before it is, nothing is written.
LEMMA LookKeeps ==
    ASSUME RunsAreWhole, runner # None, NEW id \in 1..Runs, TrainingRun!look(id)
    PROVE  RunsAreWhole'
<1> DEFINE next == runner'[id]
<1>1. /\ DOMAIN runner = 1..Runs /\ \A j \in 1..Runs : RunType(j)
      /\ DirectoryType /\ WritersAreFounders
      /\ \A j \in 1..Runs : TrainingRun!Founders = {j} => OneRunOnly(j)
  BY DEF RunsAreWhole
<1>2. runner[id].pc = "idle" /\ runner[id].found = None /\ directory' = directory
  BY <1>1 DEF RunType, TrainingRun!look, TrainingRun!At
<1>3. /\ DOMAIN runner' = 1..Runs
      /\ \A j \in 1..Runs : j # id => runner'[j] = runner[j]
      /\ DOMAIN next = {"pc", "found", "stage", "read", "stages"} /\ next.stage = 1
      /\ directory.exists => next.pc = "ended" /\ next.found = "directory"
      /\ ~directory.exists => next.pc = "making" /\ next.found = "nothing"
  BY <1>1 DEF TrainingRun!look, TrainingRun!NotStarted
<1> HIDE DEF next
<1>4. RunType(id)'
  BY <1>1, <1>3 DEF RunType, Made, PCs, DirectoryType, next
<1>5. \A j \in 1..Runs : RunType(j)'
  BY <1>1, <1>2, <1>3, <1>4 DEF RunType, Made
<1>6. DirectoryType'
  BY <1>1, <1>2 DEF DirectoryType, TrainingRun!StageNames, TrainingRun!NoDirectory
<1>7. TrainingRun!Founders \subseteq TrainingRun!Founders'
  BY <1>2, <1>3, NumbersAssumption DEF TrainingRun!Founders
<1>8. WritersAreFounders'
  BY <1>1, <1>2, <1>7 DEF WritersAreFounders, TrainingRun!StageNames
<1>9. ASSUME NEW j \in 1..Runs, TrainingRun!Founders' = {j}
      PROVE  OneRunOnly(j)'
  <2>1. CASE directory.exists
    <3>1. TrainingRun!Founders = {j} /\ j # id
      BY <1>2, <1>3, <1>9, <2>1, NumbersAssumption DEF TrainingRun!Founders, next
    <3>2. OneRunOnly(j) /\ runner'[j] = runner[j]
      BY <1>1, <1>3, <3>1
    <3> QED  BY <1>2, <3>2 DEF OneRunOnly, StageBehind, FilesOfRun, SourceOf
  <2>2. CASE ~directory.exists
    <3>1. j = id
      BY <1>3, <1>9, <2>2 DEF TrainingRun!Founders, next
    <3>2. runner'[j].pc = "making" /\ directory'.report = None
      BY <1>1, <1>2, <1>3, <2>2, <3>1 DEF DirectoryType, TrainingRun!NoDirectory, next
    <3> QED  BY <3>2 DEF OneRunOnly, StageBehind
  <2> QED  BY <2>1, <2>2
<1> QED  BY <1>3, <1>5, <1>6, <1>8, <1>9 DEF RunsAreWhole

\* Making the directory, copying the manifest and the first report leave no
\* file of a stage.
LEMMA FoundingKeeps ==
    ASSUME RunsAreWhole, runner # None, NEW id \in 1..Runs,
           \/ TrainingRun!make_directories(id) \/ TrainingRun!copy_manifest(id)
           \/ TrainingRun!report_start(id)
    PROVE  RunsAreWhole'
<1> DEFINE pc == runner[id].pc
           next == runner'[id]
<1>1. /\ DOMAIN runner = 1..Runs /\ RunType(id) /\ DirectoryType
  BY DEF RunsAreWhole
<1>2. /\ pc \in {"making", "copying", "starting"}
      /\ DOMAIN runner' = 1..Runs
      /\ \A j \in 1..Runs : j # id => runner'[j] = runner[j]
      /\ DOMAIN next = DOMAIN runner[id]
      /\ next.found = runner[id].found /\ next.stage = runner[id].stage
      /\ next.read = runner[id].read
      /\ next.pc = IF pc = "making" THEN "copying"
                   ELSE IF pc = "copying" THEN "starting" ELSE "stage"
  <2>1. /\ "pc" \in DOMAIN runner[id]
        /\ \/ pc = "making" /\ runner' = [runner EXCEPT ![id].pc = "copying"]
           \/ pc = "copying" /\ runner' = [runner EXCEPT ![id].pc = "starting"]
           \/ pc = "starting" /\ runner' = [runner EXCEPT ![id].pc = "stage"]
    BY <1>1 DEF RunType, TrainingRun!make_directories, TrainingRun!copy_manifest,
       TrainingRun!report_start, TrainingRun!At, TrainingRun!Goes
  <2>2. CASE pc = "making"
    BY <1>1, <2>1, <2>2 DEF RunType
  <2>3. CASE pc = "copying"
    BY <1>1, <2>1, <2>3 DEF RunType
  <2>4. CASE pc = "starting"
    BY <1>1, <2>1, <2>4 DEF RunType
  <2> QED  BY <2>1, <2>2, <2>3, <2>4
<1>3. /\ DOMAIN directory' = DOMAIN directory /\ directory'.files = directory.files
      /\ directory'.exists = TRUE
      /\ directory'.manifest = IF pc = "copying" THEN id ELSE directory.manifest
      /\ \/ directory'.report = directory.report
         \/ directory'.report.id = id /\ directory'.report.status = "running"
  <2>1. CASE TrainingRun!make_directories(id)
    BY <1>1, <2>1 DEF DirectoryType, TrainingRun!make_directories, TrainingRun!At
  <2>2. CASE TrainingRun!copy_manifest(id)
    BY <1>1, <2>2 DEF DirectoryType, RunType, Made, TrainingRun!copy_manifest, TrainingRun!At
  <2>3. CASE TrainingRun!report_start(id)
    <3> DEFINE report == TrainingRun!Report(id, runner[id].stages, "running")
    <3>1. report.id = id /\ report.status = "running"
      BY DEF TrainingRun!Report
    <3>2. directory' = [directory EXCEPT !.report = report] /\ pc = "starting"
      BY <2>3 DEF TrainingRun!report_start, TrainingRun!At
    <3>3. directory.exists
      BY <1>1, <3>2 DEF RunType, Made
    <3> HIDE DEF report
    <3> QED  BY <1>1, <3>1, <3>2, <3>3 DEF DirectoryType
  <2> QED  BY <2>1, <2>2, <2>3
<1> HIDE DEF next
<1>4. RunType(id)'
  BY <1>1, <1>2, <1>3 DEF RunType, Made, PCs, next
<1>5. DirectoryType'
  BY <1>1, <1>3 DEF DirectoryType, TrainingRun!StageNames
<1>6. ASSUME OneRunOnly(id)
      PROVE  OneRunOnly(id)'
  <2>1. next.stage = 1
    BY <1>1, <1>2 DEF RunType
  <2>2. ~(directory.report # None /\ directory.report.status = "complete")
    BY <1>2, <1>6 DEF OneRunOnly
  <2>3. ~(directory'.report # None /\ directory'.report.status = "complete")
    BY <1>3, <2>2
  <2>4. next.pc \in {"starting", "stage"} => directory'.manifest = id
    BY <1>2, <1>3, <1>6 DEF OneRunOnly
  <2>5. \A s \in 1..3 : ~StageBehind(id, s)'
    BY <1>2, <2>1 DEF StageBehind, next
  <2> QED  BY <1>2, <2>3, <2>4, <2>5 DEF OneRunOnly, next
<1>7. next.found = "nothing"
  BY <1>1, <1>2 DEF RunType
<1>8. StepOfRun(id)
  BY <1>2, <1>3, <1>4, <1>5, <1>6, <1>7 DEF StepOfRun, next
<1> QED  BY <1>2, <1>8, StepOfRunKeeps

\* A tool reads what the stage before it left.
LEMMA BeginKeeps ==
    ASSUME RunsAreWhole, runner # None, NEW id \in 1..Runs, TrainingRun!stage_begins(id)
    PROVE  RunsAreWhole'
<1> DEFINE s == runner[id].stage
           next == runner'[id]
<1>1. DOMAIN runner = 1..Runs /\ RunType(id) /\ DirectoryType
  BY DEF RunsAreWhole
<1>2. /\ runner[id].pc = "stage" /\ directory' = directory
      /\ DOMAIN runner' = 1..Runs
      /\ \A j \in 1..Runs : j # id => runner'[j] = runner[j]
      /\ DOMAIN next = DOMAIN runner[id]
      /\ next.found = runner[id].found /\ next.stage = s /\ next.pc = "tool"
      /\ next.read = CASE TrainingRun!Stage(id) = "import" -> directory.manifest
                       [] TrainingRun!Stage(id) = "dataset" -> directory.files["import"]
                       [] TrainingRun!Stage(id) = "train" -> directory.files["dataset"]
  BY <1>1 DEF RunType, TrainingRun!stage_begins, TrainingRun!At
<1> HIDE DEF next
<1>3. s \in 1..3 /\ directory.exists /\ runner[id].found = "nothing"
  BY <1>1, <1>2 DEF RunType, Made
<1>4. RunType(id)'
  BY <1>1, <1>2, <1>3 DEF RunType, Made, PCs, next
<1>5. DirectoryType'
  BY <1>1, <1>2 DEF DirectoryType, TrainingRun!StageNames, TrainingRun!NoDirectory
<1>6. ASSUME OneRunOnly(id)
      PROVE  OneRunOnly(id)'
  <2>1. directory.manifest = id
    BY <1>2, <1>6 DEF OneRunOnly
  <2>2. next.read = SourceOf(id, s)
    <3>1. CASE s = 1
      BY <1>2, <2>1, <3>1, StageNumbers DEF SourceOf, TrainingRun!Stage
    <3>2. CASE s = 2
      <4>1. s - 1 = 1 /\ s # 1
        BY <3>2
      <4> QED  BY <1>2, <3>2, <4>1, StageNumbers DEF SourceOf, TrainingRun!Stage
    <3>3. CASE s = 3
      <4>1. s - 1 = 2 /\ s # 1
        BY <3>3
      <4> QED  BY <1>2, <3>3, <4>1, StageNumbers DEF SourceOf, TrainingRun!Stage
    <3> QED  BY <1>3, <3>1, <3>2, <3>3
  <2>3. SourceOf(id, s)' = SourceOf(id, s)
    BY <1>2 DEF SourceOf, next
  <2>4. \A r \in 1..3 : StageBehind(id, r)' => FilesOfRun(id, r)'
    BY <1>2, <1>6 DEF OneRunOnly, StageBehind, FilesOfRun, SourceOf, next
  <2> QED  BY <1>2, <1>6, <2>1, <2>2, <2>3, <2>4 DEF OneRunOnly, SourceOf, next
<1>7. StepOfRun(id)
  BY <1>2, <1>3, <1>4, <1>5, <1>6 DEF StepOfRun, next
<1> QED  BY <1>2, <1>7, StepOfRunKeeps

\* A stage writes a file of its run, from the one it read.
LEMMA StageKeeps ==
    ASSUME RunsAreWhole, runner # None, NEW id \in 1..Runs,
           TrainingRun!stage_succeeds(id) \/ TrainingRun!stage_fails(id)
    PROVE  RunsAreWhole'
<1> DEFINE s == runner[id].stage
           name == TrainingRun!Stages[s]
           file == <<id, runner[id].read>>
           next == runner'[id]
<1>1. DOMAIN runner = 1..Runs /\ RunType(id) /\ DirectoryType
  BY DEF RunsAreWhole
<1>2. /\ runner[id].pc = "tool"
      /\ DOMAIN runner' = 1..Runs
      /\ \A j \in 1..Runs : j # id => runner'[j] = runner[j]
      /\ DOMAIN next = DOMAIN runner[id]
      /\ next.found = runner[id].found /\ next.stage = s /\ next.read = runner[id].read
      /\ \/ next.pc = "report" /\ directory' = [directory EXCEPT !.files[name] = file]
         \/ next.pc = "failing" /\ directory' = [directory EXCEPT !.files[name] = file]
         \/ next.pc = "failing" /\ directory' = directory
  <2> HIDE DEF next
  <2>1. /\ runner[id].pc = "tool"
        /\ \/ /\ runner' = [runner EXCEPT ![id].pc = "report"]
              /\ directory' = [directory EXCEPT !.files[name] = file]
           \/ /\ runner' = [runner EXCEPT ![id].pc = "failing"]
              /\ \/ directory' = [directory EXCEPT !.files[name] = file]
                 \/ directory' = directory
    BY DEF TrainingRun!stage_succeeds, TrainingRun!stage_fails, TrainingRun!Stage,
       TrainingRun!At, TrainingRun!Goes, TrainingRun!Leaves
  <2> HIDE DEF name, file
  <2>2. CASE runner' = [runner EXCEPT ![id].pc = "report"]
    <3>1. /\ DOMAIN runner' = 1..Runs
          /\ \A j \in 1..Runs : j # id => runner'[j] = runner[j]
          /\ next = [runner[id] EXCEPT !.pc = "report"]
      BY <1>1, <2>2 DEF next
    <3>2. next.pc = "report"
      BY <1>1, <3>1 DEF RunType
    <3>3. "report" # "failing"
      OBVIOUS
    <3>4. \/ directory' = [directory EXCEPT !.files[name] = file]
          \/ directory' = directory /\ runner' = [runner EXCEPT ![id].pc = "failing"]
      BY <2>1
    <3>5. runner' # [runner EXCEPT ![id].pc = "failing"]
      BY <1>1, <2>2 DEF RunType
    <3> QED  BY <1>1, <2>1, <3>1, <3>2, <3>4, <3>5 DEF RunType
  <2>3. CASE runner' = [runner EXCEPT ![id].pc = "failing"]
    <3>1. /\ DOMAIN runner' = 1..Runs
          /\ \A j \in 1..Runs : j # id => runner'[j] = runner[j]
          /\ next = [runner[id] EXCEPT !.pc = "failing"]
      BY <1>1, <2>3 DEF next
    <3>2. next.pc = "failing"
      BY <1>1, <3>1 DEF RunType
    <3>3. /\ DOMAIN next = DOMAIN runner[id]
          /\ next.found = runner[id].found /\ next.stage = s /\ next.read = runner[id].read
      BY <1>1, <3>1 DEF RunType
    <3>4. \/ directory' = [directory EXCEPT !.files[name] = file]
          \/ directory' = directory
      BY <2>1
    <3> QED  BY <2>1, <3>1, <3>2, <3>3, <3>4
  <2> QED  BY <2>1, <2>2, <2>3
<1>3. s \in 1..3 /\ directory.exists /\ runner[id].found = "nothing"
  BY <1>1, <1>2 DEF RunType, Made
<1>4. name \in TrainingRun!StageNames /\ file[1] = id
      /\ \A r \in 1..3 : r # s => TrainingRun!Stages[r] # name
  BY <1>3, StageNumbers
<1> HIDE DEF next, file
<1>5. /\ DOMAIN directory' = DOMAIN directory /\ directory'.manifest = directory.manifest
      /\ directory'.report = directory.report /\ directory'.exists = directory.exists
      /\ DOMAIN directory'.files = DOMAIN directory.files
      /\ \A n \in TrainingRun!StageNames :
            directory'.files[n] = directory.files[n] \/ (n = name /\ directory'.files[n] = file)
      /\ next.pc = "report" => directory'.files[name] = file
  <2>1. CASE directory' = directory /\ next.pc = "failing"
    BY <2>1
  <2>2. CASE directory' = [directory EXCEPT !.files[name] = file]
    <3>1. "files" \in DOMAIN directory /\ name \in DOMAIN directory.files
      BY <1>1, <1>4 DEF DirectoryType
    <3> HIDE DEF name
    <3>2. directory'.files = [directory.files EXCEPT ![name] = file]
      BY <2>2, <3>1
    <3> QED  BY <1>1, <2>2, <3>1, <3>2 DEF DirectoryType
  <2> QED  BY <1>2, <2>1, <2>2
<1>6. RunType(id)'
  BY <1>1, <1>2, <1>3, <1>5 DEF RunType, Made, PCs, next
<1>7. DirectoryType'
  BY <1>1, <1>3, <1>5 DEF DirectoryType, TrainingRun!StageNames
<1>8. ASSUME OneRunOnly(id)
      PROVE  OneRunOnly(id)'
  <2>1. file = <<id, SourceOf(id, s)>>
    BY <1>2, <1>8 DEF OneRunOnly, file
  <2>2. \A r \in 1..3 : r < s => FilesOfRun(id, r)
    BY <1>2, <1>8 DEF OneRunOnly, StageBehind
  <2>3. \A r \in 1..3 : r # s => directory'.files[TrainingRun!Stages[r]]
                                   = directory.files[TrainingRun!Stages[r]]
    BY <1>4, <1>5, StageNumbers
  <2>4. ASSUME NEW r \in 1..3, r <= s
        PROVE  SourceOf(id, r)' = SourceOf(id, r)
    <3>1. r # 1 => r - 1 \in 1..3 /\ r - 1 # s
      BY <1>3, <2>4
    <3> QED  BY <2>3, <3>1 DEF SourceOf
  <2>5. ASSUME NEW r \in 1..3, StageBehind(id, r)'
        PROVE  FilesOfRun(id, r)'
    <3>1. r <= s /\ (r = s => next.pc = "report")
      BY <1>2, <1>3, <2>5 DEF StageBehind, next
    <3>2. SourceOf(id, r)' = SourceOf(id, r)
      BY <2>4, <3>1
    <3>3. CASE r = s
      BY <1>5, <2>1, <3>1, <3>2, <3>3 DEF FilesOfRun
    <3>4. CASE r < s
      BY <2>2, <2>3, <3>2, <3>4 DEF FilesOfRun
    <3> QED  BY <1>3, <3>1, <3>3, <3>4
  <2>6. ~(directory.report # None /\ directory.report.status = "complete")
    BY <1>2, <1>8 DEF OneRunOnly
  <2>7. directory'.manifest = id /\ next.pc # "tool"
    BY <1>2, <1>5, <1>8 DEF OneRunOnly
  <2> QED  BY <1>5, <2>5, <2>6, <2>7 DEF OneRunOnly, next
<1>9. StepOfRun(id)
  BY <1>2, <1>3, <1>4, <1>5, <1>6, <1>7, <1>8 DEF StepOfRun, next
<1> QED  BY <1>2, <1>9, StepOfRunKeeps

\* Only the report of the last stage says complete, and ends the run.
LEMMA ReportKeeps ==
    ASSUME RunsAreWhole, runner # None, NEW id \in 1..Runs, TrainingRun!report_stage(id)
    PROVE  RunsAreWhole'
<1> DEFINE s == runner[id].stage
           next == runner'[id]
<1>1. DOMAIN runner = 1..Runs /\ RunType(id) /\ DirectoryType
  BY DEF RunsAreWhole
<1>2. runner[id].pc = "report" /\ s \in 1..3 /\ directory.exists /\ runner[id].found = "nothing"
  BY <1>1 DEF RunType, Made, TrainingRun!report_stage, TrainingRun!At
<1>3. TrainingRun!Stage(id) = "train" <=> s = 3
  BY <1>2, StageNumbers DEF TrainingRun!Stage
<1>4. /\ DOMAIN runner' = 1..Runs
      /\ \A j \in 1..Runs : j # id => runner'[j] = runner[j]
      /\ DOMAIN next = DOMAIN runner[id] /\ next.found = runner[id].found
      /\ \/ /\ s = 3 /\ next.pc = "ended" /\ next.stage = 1
            /\ directory'.report.id = id /\ directory'.report.status = "complete"
         \/ /\ s # 3 /\ next.pc = "stage" /\ next.stage = s + 1
            /\ directory'.report.id = id /\ directory'.report.status = "running"
         \/ /\ next.pc = "failing" /\ next.stage = s
            /\ directory'.report = directory.report
      /\ DOMAIN directory' = DOMAIN directory /\ directory'.files = directory.files
      /\ directory'.exists = directory.exists /\ directory'.manifest = directory.manifest
  <2> DEFINE stages == [runner[id].stages EXCEPT ![TrainingRun!Stage(id)] = "complete"]
  <2>1. DOMAIN runner[id] = {"pc", "found", "stage", "read", "stages"}
    BY <1>1 DEF RunType
  <2>2. CASE /\ s = 3
             /\ directory' = [directory EXCEPT
                     !.report = TrainingRun!Report(id, stages, "complete")]
             /\ runner' = [runner EXCEPT ![id] = TrainingRun!Ended(id)]
    <3> HIDE DEF stages
    <3> QED  BY <1>1, <2>1, <2>2 DEF DirectoryType, TrainingRun!Report, TrainingRun!Ended,
                TrainingRun!NotStarted
  <2>3. CASE /\ s # 3
             /\ directory' = [directory EXCEPT
                     !.report = TrainingRun!Report(id, stages, "running")]
             /\ runner' = [runner EXCEPT
                     ![id] = [@ EXCEPT !.pc = "stage", !.stages = stages,
                                !.stage = runner[id].stage + 1]]
    <3> HIDE DEF stages
    <3>1. /\ DOMAIN runner' = 1..Runs
          /\ \A j \in 1..Runs : j # id => runner'[j] = runner[j]
          /\ next = [runner[id] EXCEPT !.pc = "stage", !.stages = stages,
                                !.stage = runner[id].stage + 1]
      <4> DEFINE moved == [runner[id] EXCEPT !.pc = "stage", !.stages = stages,
                                !.stage = runner[id].stage + 1]
      <4>1. runner' = [runner EXCEPT ![id] = moved]
        BY <2>3
      <4> HIDE DEF moved
      <4>2. /\ DOMAIN runner' = 1..Runs /\ runner'[id] = moved
            /\ \A j \in 1..Runs : j # id => runner'[j] = runner[j]
        BY <1>1, <4>1
      <4> QED  BY <4>2 DEF moved
    <3>2. /\ DOMAIN next = DOMAIN runner[id] /\ next.found = runner[id].found
          /\ next.pc = "stage" /\ next.stage = s + 1
      <4> HIDE DEF next
      <4> QED  BY <2>1, <3>1
    <3>3. /\ directory'.report.id = id /\ directory'.report.status = "running"
          /\ DOMAIN directory' = DOMAIN directory /\ directory'.files = directory.files
          /\ directory'.exists = directory.exists /\ directory'.manifest = directory.manifest
      BY <1>1, <2>3 DEF DirectoryType, TrainingRun!Report
    <3> HIDE DEF next
    <3> QED  BY <2>3, <3>1, <3>2, <3>3
  <2>4. CASE /\ runner' = [runner EXCEPT ![id].pc = "failing", ![id].stages = stages]
             /\ UNCHANGED directory
    <3> HIDE DEF stages
    <3> QED  BY <1>1, <2>1, <2>4
  <2>5. \/ /\ directory' = [directory EXCEPT !.report = TrainingRun!Report(id, stages,
                  IF TrainingRun!Stage(id) = "train" THEN "complete" ELSE "running")]
           /\ runner' = [runner EXCEPT
                  ![id] = IF TrainingRun!Stage(id) = "train" THEN TrainingRun!Ended(id)
                          ELSE [@ EXCEPT !.pc = "stage", !.stages = stages,
                                !.stage = runner[id].stage + 1]]
        \/ /\ runner' = [runner EXCEPT ![id].pc = "failing", ![id].stages = stages]
           /\ UNCHANGED directory
    BY DEF TrainingRun!report_stage
  <2>6. CASE s = 3
    <3>1. TrainingRun!Stage(id) = "train"
      BY <1>3, <2>6
    <3>2. \/ /\ directory' = [directory EXCEPT
                  !.report = TrainingRun!Report(id, stages, "complete")]
             /\ runner' = [runner EXCEPT ![id] = TrainingRun!Ended(id)]
          \/ /\ runner' = [runner EXCEPT ![id].pc = "failing", ![id].stages = stages]
             /\ UNCHANGED directory
      <4> HIDE DEF stages
      <4> QED  BY <2>5, <3>1
    <3> HIDE DEF stages, next
    <3> QED  BY <2>2, <2>4, <2>6, <3>2
  <2>7. CASE s # 3
    <3>1. TrainingRun!Stage(id) # "train"
      BY <1>3, <2>7
    <3>2. \/ /\ directory' = [directory EXCEPT
                  !.report = TrainingRun!Report(id, stages, "running")]
             /\ runner' = [runner EXCEPT
                  ![id] = [@ EXCEPT !.pc = "stage", !.stages = stages,
                                !.stage = runner[id].stage + 1]]
          \/ /\ runner' = [runner EXCEPT ![id].pc = "failing", ![id].stages = stages]
             /\ UNCHANGED directory
      <4> HIDE DEF stages
      <4> QED  BY <2>5, <3>1
    <3> HIDE DEF stages, next
    <3> QED  BY <2>3, <2>4, <2>7, <3>2
  <2> QED  BY <2>6, <2>7
<1> HIDE DEF next
<1>5. RunType(id)'
  BY <1>1, <1>2, <1>4 DEF RunType, Made, PCs, next
<1>6. DirectoryType'
  BY <1>1, <1>2, <1>4 DEF DirectoryType, TrainingRun!StageNames
<1>7. ASSUME OneRunOnly(id)
      PROVE  OneRunOnly(id)'
  <2>1. directory.manifest = id /\ \A r \in 1..3 : r <= s => FilesOfRun(id, r)
    BY <1>2, <1>7 DEF OneRunOnly, StageBehind
  <2>2. \A r \in 1..3 : FilesOfRun(id, r) => FilesOfRun(id, r)'
    BY <1>4 DEF FilesOfRun, SourceOf
  <2>3. ~(directory.report # None /\ directory.report.status = "complete")
    BY <1>2, <1>7 DEF OneRunOnly
  <2>4. \A r \in 1..3 : StageBehind(id, r)' => r <= s
    BY <1>2, <1>4 DEF StageBehind, next
  <2>5. directory'.report # None /\ directory'.report.status = "complete" =>
            next.pc = "ended" /\ \A r \in 1..3 : r <= s
    BY <1>4, <2>3
  <2> QED  BY <1>4, <2>1, <2>2, <2>4, <2>5 DEF OneRunOnly, next
<1>8. StepOfRun(id)
  BY <1>2, <1>4, <1>5, <1>6, <1>7 DEF StepOfRun, next
<1> QED  BY <1>2, <1>8, StepOfRunKeeps

\* A run that ends leaves at most the report that it failed.
LEMMA EndKeeps ==
    ASSUME RunsAreWhole, runner # None, NEW id \in 1..Runs,
           TrainingRun!report_failure(id) \/ TrainingRun!run_killed(id)
    PROVE  RunsAreWhole'
<1> DEFINE next == runner'[id]
<1>1. DOMAIN runner = 1..Runs /\ RunType(id) /\ DirectoryType
  BY DEF RunsAreWhole
<1>2. runner[id].pc \notin {"idle", "ended"} /\ runner[id].found = "nothing"
  BY <1>1 DEF RunType, TrainingRun!report_failure, TrainingRun!run_killed, TrainingRun!At
<1>3. /\ DOMAIN runner' = 1..Runs
      /\ \A j \in 1..Runs : j # id => runner'[j] = runner[j]
      /\ DOMAIN next = {"pc", "found", "stage", "read", "stages"}
      /\ next.found = "nothing" /\ next.stage = 1 /\ next.pc = "ended"
  BY <1>1, <1>2 DEF TrainingRun!report_failure, TrainingRun!run_killed, TrainingRun!Ended,
     TrainingRun!NotStarted
<1>4. /\ DOMAIN directory' = DOMAIN directory /\ directory'.files = directory.files
      /\ directory'.exists = directory.exists /\ directory'.manifest = directory.manifest
      /\ \/ directory' = directory
         \/ /\ directory'.report.id = id /\ directory'.report.status = "failed"
            /\ directory.exists
  <2>1. CASE TrainingRun!run_killed(id)
    BY <2>1 DEF TrainingRun!run_killed
  <2>2. CASE TrainingRun!report_failure(id)
    <3>1. directory.exists
      BY <1>1, <2>2 DEF RunType, Made, TrainingRun!report_failure, TrainingRun!At
    <3> QED
      BY <1>1, <2>2, <3>1 DEF DirectoryType, TrainingRun!report_failure, TrainingRun!Report
  <2> QED  BY <2>1, <2>2
<1> HIDE DEF next
<1>5. RunType(id)'
  BY <1>3 DEF RunType, Made, PCs, next
<1>6. DirectoryType'
  BY <1>1, <1>4 DEF DirectoryType, TrainingRun!StageNames, TrainingRun!NoDirectory
<1>7. ASSUME OneRunOnly(id)
      PROVE  OneRunOnly(id)'
  <2>1. ~(directory'.report # None /\ directory'.report.status = "complete")
    BY <1>2, <1>4, <1>7 DEF OneRunOnly
  <2> QED  BY <1>3, <2>1 DEF OneRunOnly, StageBehind, next
<1>8. StepOfRun(id)
  BY <1>2, <1>3, <1>4, <1>5, <1>6, <1>7 DEF StepOfRun, next
<1> QED  BY <1>2, <1>8, StepOfRunKeeps

LEMMA RunsKeep == RunsAreWhole /\ running => RunsAreWhole'
<1> SUFFICES ASSUME RunsAreWhole, running
             PROVE  RunsAreWhole'
  OBVIOUS
<1>1. runner # None /\ TrainingRun!RunNext
  BY DEF running
<1>2. PICK id \in 1..Runs :
        \/ TrainingRun!look(id) \/ TrainingRun!make_directories(id)
        \/ TrainingRun!copy_manifest(id) \/ TrainingRun!report_start(id)
        \/ TrainingRun!stage_begins(id) \/ TrainingRun!stage_succeeds(id)
        \/ TrainingRun!stage_fails(id) \/ TrainingRun!report_stage(id)
        \/ TrainingRun!report_failure(id) \/ TrainingRun!run_killed(id)
  BY <1>1 DEF TrainingRun!RunNext
<1> QED
  BY <1>1, <1>2, LookKeeps, FoundingKeeps, BeginKeeps, StageKeeps, ReportKeeps, EndKeeps

\* Nothing but a run touches its directory.
LEMMA RunsStand == RunsAreWhole /\ UNCHANGED <<directory, runner>> => RunsAreWhole'
<1> SUFFICES ASSUME RunsAreWhole, directory' = directory, runner' = runner
             PROVE  RunsAreWhole'
  OBVIOUS
<1>1. \A id : RunType(id) => RunType(id)'
  BY DEF RunType, Made, PCs
<1>2. DirectoryType => DirectoryType'
  BY DEF DirectoryType, TrainingRun!StageNames, TrainingRun!NoDirectory
<1>3. TrainingRun!Founders' = TrainingRun!Founders
  BY DEF TrainingRun!Founders
<1>4. WritersAreFounders => WritersAreFounders'
  BY <1>3 DEF WritersAreFounders, TrainingRun!StageNames
<1>5. \A id : OneRunOnly(id) => OneRunOnly(id)'
  BY DEF OneRunOnly, StageBehind, FilesOfRun, SourceOf, TrainingRun!Stages
<1> QED  BY <1>1, <1>2, <1>3, <1>4, <1>5 DEF RunsAreWhole

-----------------------------------------------------------------------------
(* Samples of the least.                                                   *)

Below == OpToRel(<, Nat)

\* A set of natural numbers has a least element.
LEMMA LeastNumber ==
    ASSUME NEW T \in SUBSET Nat, T # {}
    PROVE  \E x \in T : \A y \in T : x <= y
<1>1. PICK x \in T : \A y \in T : ~ (<<y, x>> \in Below)
  <2>1. IsWellFoundedOn(Below, Nat)
    BY NatLessThanWellFounded DEF Below
  <2> QED  BY <2>1, WFMin
<1>2. ASSUME NEW y \in T PROVE ~ (y < x)
  <2>1. y \in Nat /\ x \in Nat /\ (y < x => <<y, x>> \in Below)
    BY DEF Below, OpToRel
  <2> QED  BY <1>1, <2>1, Zenon
<1> QED  BY <1>2

\* Of finitely many things one has the greatest key.
LEMMA GreatestKey ==
    ASSUME NEW S, NEW key, IsFiniteSet(S), S # {}, \A x \in S : key[x] \in Int
    PROVE  \E m \in S : \A x \in S : key[x] <= key[m]
<1> DEFINE Without(T) == ~ \E m \in T : \A x \in T : key[x] <= key[m]
           sizes == {k \in Nat : \E T \in SUBSET S :
                        T # {} /\ Cardinality(T) = k /\ Without(T)}
<1> SUFFICES ASSUME Without(S) PROVE FALSE
  OBVIOUS
<1>1. Cardinality(S) \in sizes
  <2>1. S \in SUBSET S /\ Cardinality(S) \in Nat
    BY FS_CardinalityType
  <2> HIDE DEF Without
  <2> QED  BY <2>1
<1>2. PICK k \in sizes : \A j \in sizes : k <= j
  <2>1. sizes \in SUBSET Nat /\ sizes # {}
    BY <1>1
  <2> HIDE DEF sizes
  <2> QED  BY <2>1, LeastNumber
<1>3. PICK T \in SUBSET S : T # {} /\ Cardinality(T) = k /\ Without(T)
  <2> HIDE DEF Without
  <2> QED  OBVIOUS
<1>4. PICK x \in T : TRUE
  BY <1>3
<1>5. IsFiniteSet(T)
  BY FS_Subset
<1> DEFINE R == T \ {x}
<1>6. Cardinality(R) = k - 1 /\ R \in SUBSET S /\ k \in Nat
  BY <1>3, <1>4, <1>5, FS_RemoveElement
<1>7. CASE R = {}
  BY <1>3, <1>4, <1>7
<1>8. CASE R # {}
  <2>1. k - 1 \in Nat
    BY <1>5, <1>6, FS_Subset, FS_CardinalityType
  <2>2. k - 1 \notin sizes
    BY <1>2, <1>6
  <2>3. ~Without(R)
    <3> HIDE DEF R, Without
    <3> QED  BY <1>6, <1>8, <2>1, <2>2
  <2>4. PICK m \in R : \A y \in R : key[y] <= key[m]
    BY <2>3
  <2>5. \E w \in T : \A y \in T : key[y] <= key[w]
    <3>1. key[m] \in Int /\ key[x] \in Int /\ \A y \in T : key[y] \in Int
      BY <1>6
    <3>2. CASE key[x] <= key[m]
      BY <2>4, <3>1, <3>2
    <3>3. CASE key[m] <= key[x]
      BY <1>4, <2>4, <3>1, <3>3
    <3> QED  BY <3>1, <3>2, <3>3
  <2> QED  BY <1>3, <2>5
<1> QED  BY <1>7, <1>8

\* What a bounded sample keeps of the things it has seen.
LeastOf(kept, S, n, key) ==
    /\ kept \subseteq S /\ IsFiniteSet(kept) /\ Cardinality(kept) <= n
    /\ kept # S => Cardinality(kept) = n
    /\ \A p \in kept, q \in S \ kept : key[p] < key[q]

Fewest(S, n, key) == {x \in S : Cardinality({y \in S : key[y] < key[x]}) < n}

\* That is the set of those that fewer than n precede.
LEMMA KeptIsLeast ==
    ASSUME NEW S, NEW n \in Nat \ {0}, NEW kept, NEW key,
           \A x \in S : key[x] \in Int, LeastOf(kept, S, n, key), IsFiniteSet(S)
    PROVE  kept = Fewest(S, n, key)
<1> DEFINE Before(x) == {y \in S : key[y] < key[x]}
<1>1. kept \subseteq S /\ IsFiniteSet(kept) /\ Cardinality(kept) <= n /\ Cardinality(kept) \in Nat
  BY FS_CardinalityType DEF LeastOf
<1>2. ASSUME NEW x \in kept PROVE Cardinality(Before(x)) < n
  <2>1. Before(x) \subseteq kept \ {x}
    <3>1. ASSUME NEW y \in S, key[y] < key[x] PROVE y \in kept \ {x}
      <4>1. key[x] \in Int /\ key[y] \in Int
        BY <1>1
      <4> QED  BY <3>1, <4>1 DEF LeastOf
    <3> QED  BY <3>1
  <2>2. IsFiniteSet(kept \ {x}) /\ Cardinality(kept \ {x}) = Cardinality(kept) - 1
    BY <1>1, FS_RemoveElement
  <2>3. Cardinality(Before(x)) <= Cardinality(kept) - 1 /\ Cardinality(Before(x)) \in Nat
    <3> HIDE DEF Before
    <3> QED  BY <2>1, <2>2, FS_Subset, FS_CardinalityType
  <2> HIDE DEF Before
  <2> QED  BY <1>1, <2>3
<1>3. ASSUME NEW x \in S \ kept PROVE ~(Cardinality(Before(x)) < n)
  <2>1. Cardinality(kept) = n
    BY DEF LeastOf
  <2>2. kept \subseteq Before(x)
    BY DEF LeastOf
  <2>3. IsFiniteSet(Before(x)) /\ Cardinality(Before(x)) \in Nat
    <3>1. Before(x) \subseteq S
      OBVIOUS
    <3> HIDE DEF Before
    <3> QED  BY <3>1, FS_Subset, FS_CardinalityType
  <2>4. n <= Cardinality(Before(x))
    <3> HIDE DEF Before
    <3> QED  BY <2>1, <2>2, <2>3, FS_Subset
  <2> HIDE DEF Before
  <2> QED  BY <2>3, <2>4
<1> QED  BY <1>1, <1>2, <1>3 DEF Fewest

\* One more is seen, by a sample that keeps it, has room for it, keeps it
\* instead of another, or does without it.
LEMMA SeenAgain ==
    ASSUME NEW S, NEW n, NEW kept, NEW key, NEW p \in kept, LeastOf(kept, S, n, key)
    PROVE  S \cup {p} = S
BY DEF LeastOf

LEMMA RoomForOne ==
    ASSUME NEW S, NEW n \in Nat \ {0}, NEW kept, NEW key, NEW p, LeastOf(kept, S, n, key),
           p \notin kept, Cardinality(kept) < n
    PROVE  kept = S /\ LeastOf(kept \cup {p}, S \cup {p}, n, key)
<1>1. IsFiniteSet(kept) /\ Cardinality(kept) \in Nat /\ kept = S
  BY FS_CardinalityType DEF LeastOf
<1>2. IsFiniteSet(kept \cup {p}) /\ Cardinality(kept \cup {p}) = Cardinality(kept) + 1
  BY <1>1, FS_AddElement
<1>3. Cardinality(kept \cup {p}) <= n
  BY <1>1, <1>2
<1> QED  BY <1>1, <1>2, <1>3 DEF LeastOf

LEMMA OneForAnother ==
    ASSUME NEW S, NEW n \in Nat \ {0}, NEW kept, NEW key, NEW p, NEW worst \in kept,
           LeastOf(kept, S, n, key), Cardinality(kept) = n,
           \A x \in S \cup {p} : key[x] \in Int,
           \A x, y \in S \cup {p} : key[x] = key[y] => x = y,
           \A x \in kept : key[x] <= key[worst], key[p] < key[worst], p \notin kept
    PROVE  p \notin S /\ LeastOf((kept \ {worst}) \cup {p}, S \cup {p}, n, key)
<1> DEFINE rest == kept \ {worst}
           now == rest \cup {p}
<1>1. kept \subseteq S /\ IsFiniteSet(kept) /\ Cardinality(kept) = n
  BY DEF LeastOf
<1>2. p \notin S
  <2>1. key[worst] \in Int /\ key[p] \in Int
    BY <1>1
  <2>2. p \in S => key[worst] < key[p]
    BY DEF LeastOf
  <2> QED  BY <2>1, <2>2
<1>3. IsFiniteSet(now) /\ Cardinality(now) = n
  <2>1. IsFiniteSet(rest) /\ Cardinality(rest) = n - 1 /\ p \notin rest
    BY <1>1, <1>2, FS_RemoveElement
  <2> HIDE DEF rest
  <2>2. IsFiniteSet(now) /\ Cardinality(now) = (n - 1) + 1
    BY <2>1, FS_AddElement
  <2> QED  BY <2>2
<1>4. ASSUME NEW x \in now, NEW y \in (S \cup {p}) \ now PROVE key[x] < key[y]
  <2>1. key[x] \in Int /\ key[y] \in Int /\ key[worst] \in Int /\ key[p] \in Int
    BY <1>1
  <2>2. y = worst \/ y \in S \ kept
    OBVIOUS
  <2>3. key[x] < key[worst]
    <3>1. CASE x = p
      BY <3>1
    <3>2. CASE x \in kept /\ x # worst
      BY <1>1, <2>1, <3>2
    <3> QED  BY <3>1, <3>2
  <2>4. CASE y = worst
    BY <2>3, <2>4
  <2>5. CASE y \in S \ kept
    <3>1. key[worst] < key[y]
      BY <2>5 DEF LeastOf
    <3> QED  BY <2>1, <2>3, <3>1
  <2> QED  BY <2>2, <2>4, <2>5
<1>5. now \subseteq S \cup {p}
  BY <1>1
<1> HIDE DEF now
<1>6. LeastOf(now, S \cup {p}, n, key)
  BY <1>3, <1>4, <1>5 DEF LeastOf
<1> QED  BY <1>2, <1>6 DEF now

LEMMA OneTooMany ==
    ASSUME NEW S, NEW n \in Nat \ {0}, NEW kept, NEW key, NEW p, NEW worst \in kept,
           LeastOf(kept, S, n, key), Cardinality(kept) = n,
           \A x \in S \cup {p} : key[x] \in Int,
           \A x, y \in S \cup {p} : key[x] = key[y] => x = y,
           \A x \in kept : key[x] <= key[worst], ~(key[p] < key[worst]), p \notin kept
    PROVE  LeastOf(kept, S \cup {p}, n, key)
<1>1. kept \subseteq S /\ IsFiniteSet(kept) /\ Cardinality(kept) = n
  BY DEF LeastOf
<1>2. ASSUME NEW x \in kept, NEW y \in (S \cup {p}) \ kept PROVE key[x] < key[y]
  <2>1. key[x] \in Int /\ key[y] \in Int /\ key[worst] \in Int /\ key[p] \in Int
    BY <1>1
  <2>2. CASE y = p
    <3>1. key[p] # key[worst]
      BY <1>1
    <3> QED  BY <2>1, <2>2, <3>1
  <2>3. CASE y \in S \ kept
    BY <2>3 DEF LeastOf
  <2> QED  BY <2>2, <2>3
<1> QED  BY <1>1, <1>2 DEF LeastOf

-----------------------------------------------------------------------------
(* The sample of a game importer.                                          *)

KeyOf(seed) == [p \in Positions |-> SampleKey(seed, p)]
PositionsOf(rows) == {Import!position(r) : r \in rows}

LEMMA ImportedCardinality == \A S : Import!Cardinality(S) = Cardinality(S)
BY DEF Cardinality, Import!Cardinality

\* The rows that have been considered, the n-th of them with the ordinal n.
RowsConsidered(rows, n) ==
    /\ n \in Nat /\ IsFiniteSet(rows)
    /\ \A r \in rows : /\ {"split", "board", "game", "phase", "ordinal"} \subseteq DOMAIN r
                       /\ r.ordinal \in 1..n
                       /\ Import!position(r) \in Positions
    /\ \A r, x \in rows : r.ordinal = x.ordinal => r = x

SampleFields == {"capacity", "mode", "entries", "rows"}

SampleOf(kept, rows, n, seed) ==
    /\ kept = [f \in SampleFields |-> kept[f]] /\ Positive(kept.capacity)
    /\ kept.capacity = None => kept.rows = rows
    /\ kept.capacity # None /\ kept.mode = "streaming" =>
          /\ kept.rows = {r \in rows : r.ordinal <= kept.capacity}
          /\ Cardinality(kept.rows) = IF n < kept.capacity THEN n ELSE kept.capacity
    /\ kept.capacity # None /\ kept.mode # "streaming" =>
          /\ LeastOf(kept.entries, PositionsOf(rows), kept.capacity, KeyOf(seed))
          /\ kept.rows = {r \in rows : Import!position(r) \in kept.entries}

LEMMA OneMoreRow ==
    ASSUME NEW rows, NEW n, NEW row, RowsConsidered(rows, n), row.ordinal = n + 1,
           {"split", "board", "game", "phase", "ordinal"} \subseteq DOMAIN row, Import!position(row) \in Positions
    PROVE  /\ RowsConsidered(rows \cup {row}, n + 1) /\ row \notin rows
           /\ \A r \in rows : r.ordinal <= n
<1>1. n \in Nat /\ IsFiniteSet(rows) /\ \A r \in rows : r.ordinal \in 1..n
  BY DEF RowsConsidered
<1>2. IsFiniteSet(rows \cup {row})
  BY <1>1, FS_AddElement
<1>3. ASSUME NEW r \in rows PROVE r.ordinal # row.ordinal /\ r.ordinal \in 1..(n + 1)
  BY <1>1
<1>4. ASSUME NEW r \in rows \cup {row}, NEW x \in rows \cup {row}, r.ordinal = x.ordinal
      PROVE  r = x
  BY <1>3, <1>4 DEF RowsConsidered
<1>5. ASSUME NEW r \in rows \cup {row}
      PROVE  /\ {"split", "board", "game", "phase", "ordinal"} \subseteq DOMAIN r
             /\ r.ordinal \in 1..(n + 1)
             /\ Import!position(r) \in Positions
  <2>1. CASE r = row
    BY <1>1, <2>1
  <2>2. CASE r \in rows
    BY <1>3, <2>2 DEF RowsConsidered
  <2> QED  BY <2>1, <2>2
<1>6. row \notin rows
  BY <1>3
<1> QED  BY <1>1, <1>2, <1>4, <1>5, <1>6 DEF RowsConsidered

\* Whichever way a row takes, the sample is the one of the rows so far.
LEMMA ConsiderKeeps ==
    ASSUME NEW seed, KeysApart(seed, Positions), NEW rows, NEW n, NEW row, NEW kept,
           RowsConsidered(rows, n), SampleOf(kept, rows, n, seed), row.ordinal = n + 1,
           {"split", "board", "game", "phase", "ordinal"} \subseteq DOMAIN row, Import!position(row) \in Positions
    PROVE  SampleOf(Import!consider(kept, row, seed), rows \cup {row}, n + 1, seed)
<1> DEFINE after == Import!consider(kept, row, seed)
           p == Import!position(row)
           key == KeyOf(seed)
           Key(q) == SampleKey(seed, q)
           worst == Import!Worst(kept.entries, Key)
           S == PositionsOf(rows)
           all == rows \cup {row}
<1> SUFFICES SampleOf(after, all, n + 1, seed)
  OBVIOUS
<1>1. /\ n \in Nat /\ row \notin rows /\ \A r \in rows : r.ordinal \in Nat /\ r.ordinal <= n
      /\ kept = [f \in SampleFields |-> kept[f]] /\ Positive(kept.capacity)
  BY OneMoreRow DEF RowsConsidered, SampleOf
<1>2. PositionsOf(all) = S \cup {p} /\ S \cup {p} \subseteq Positions
  BY DEF PositionsOf, RowsConsidered
<1>3. /\ \A x \in S \cup {p} : key[x] = SampleKey(seed, x) /\ key[x] \in Int
      /\ \A x, y \in S \cup {p} : key[x] = key[y] => x = y
  BY <1>2 DEF KeysApart, KeyOf
<1>4. kept.rows \subseteq rows
  BY DEF SampleOf
<1>5. CASE kept.capacity = None
  <2>1. after = [kept EXCEPT !.rows = @ \cup {row}]
    BY <1>5 DEF Import!consider, Import!limit_reached
  <2>2. after = [f \in SampleFields |-> after[f]] /\ after.capacity = None
        /\ after.rows = kept.rows \cup {row}
    BY <1>1, <1>5, <2>1 DEF SampleFields
  <2>3. kept.rows = rows
    BY <1>5 DEF SampleOf
  <2> HIDE DEF after
  <2> QED  BY <2>2, <2>3 DEF SampleOf, Positive
<1>6. CASE kept.capacity # None /\ kept.mode = "streaming"
  <2>1. /\ kept.capacity \in Nat \ {0}
        /\ kept.rows = {r \in rows : r.ordinal <= kept.capacity}
        /\ Cardinality(kept.rows) = IF n < kept.capacity THEN n ELSE kept.capacity
    BY <1>6 DEF SampleOf, Positive
  <2>2. Import!Kept(kept) = Cardinality(kept.rows)
    BY <1>6, ImportedCardinality DEF Import!Kept
  <2>3. CASE n < kept.capacity
    <3>1. after = [kept EXCEPT !.rows = @ \cup {row}]
      BY <1>1, <1>6, <2>1, <2>2, <2>3 DEF Import!consider, Import!limit_reached
    <3>2. after = [f \in SampleFields |-> after[f]] /\ after.capacity = kept.capacity
          /\ after.rows = kept.rows \cup {row} /\ after.mode = kept.mode
      BY <1>1, <3>1 DEF SampleFields
    <3>3. Cardinality(after.rows) = n + 1
      <4>1. IsFiniteSet(kept.rows) /\ row \notin kept.rows
        BY <1>1, <1>4, FS_Subset DEF RowsConsidered
      <4>2. Cardinality(kept.rows \cup {row}) = Cardinality(kept.rows) + 1
        BY <4>1, FS_AddElement
      <4> HIDE DEF after
      <4> QED  BY <2>1, <2>3, <3>2, <4>2
    <3>4. after.rows = {r \in all : r.ordinal <= after.capacity}
      <4>1. n + 1 <= kept.capacity
        BY <1>1, <2>1, <2>3
      <4> HIDE DEF after
      <4> QED  BY <2>1, <3>2, <4>1
    <3>5. n + 1 = IF n + 1 < kept.capacity THEN n + 1 ELSE kept.capacity
      BY <1>1, <2>1, <2>3
    <3> HIDE DEF after
    <3> QED  BY <1>1, <1>6, <3>2, <3>3, <3>4, <3>5 DEF SampleOf
  <2>4. CASE ~(n < kept.capacity)
    <3>1. after = kept
      BY <1>1, <1>6, <2>1, <2>2, <2>4 DEF Import!consider, Import!limit_reached
    <3>2. kept.rows = {r \in all : r.ordinal <= kept.capacity}
      BY <1>1, <2>1, <2>4
    <3>3. ~(n + 1 < kept.capacity)
      BY <1>1, <2>1, <2>4
    <3> HIDE DEF after
    <3> QED  BY <1>1, <1>6, <2>1, <2>4, <3>1, <3>2, <3>3 DEF SampleOf
  <2> QED  BY <2>3, <2>4
<1>7. CASE kept.capacity # None /\ kept.mode # "streaming"
  <2>1. /\ kept.capacity \in Nat \ {0}
        /\ LeastOf(kept.entries, S, kept.capacity, key)
        /\ kept.rows = {r \in rows : Import!position(r) \in kept.entries}
    BY <1>7 DEF SampleOf, Positive
  <2>2. /\ kept.entries \subseteq S /\ IsFiniteSet(kept.entries)
        /\ Cardinality(kept.entries) \in Nat /\ Cardinality(kept.entries) <= kept.capacity
    BY <2>1, FS_CardinalityType DEF LeastOf
  <2>3. Import!limit_reached(kept) <=> Cardinality(kept.entries) = kept.capacity
    <3>1. Import!Kept(kept) = Cardinality(kept.entries)
      BY <1>7, ImportedCardinality DEF Import!Kept
    <3> QED  BY <1>7, <2>1, <2>2, <3>1 DEF Import!limit_reached
  <2>4. CASE p \in kept.entries
    <3>1. after = [kept EXCEPT !.rows = @ \cup {row}]
      BY <1>7, <2>4 DEF Import!consider
    <3>2. after = [f \in SampleFields |-> after[f]] /\ after.capacity = kept.capacity
          /\ after.rows = kept.rows \cup {row} /\ after.mode = kept.mode
          /\ after.entries = kept.entries
      BY <1>1, <3>1 DEF SampleFields
    <3>3. PositionsOf(all) = S
      <4> HIDE DEF p, S, key
      <4> QED  BY <1>2, <2>1, <2>4, SeenAgain
    <3>4. kept.rows \cup {row} = {r \in all : Import!position(r) \in kept.entries}
      BY <2>1, <2>4
    <3> HIDE DEF after
    <3> QED  BY <1>1, <1>7, <2>1, <3>2, <3>3, <3>4 DEF SampleOf
  <2>5. CASE p \notin kept.entries /\ Cardinality(kept.entries) < kept.capacity
    <3>1. after = [kept EXCEPT !.entries = @ \cup {p}, !.rows = @ \cup {row}]
      BY <1>7, <2>2, <2>3, <2>5 DEF Import!consider
    <3>2. after = [f \in SampleFields |-> after[f]] /\ after.capacity = kept.capacity
          /\ after.rows = kept.rows \cup {row} /\ after.mode = kept.mode
          /\ after.entries = kept.entries \cup {p}
      BY <1>1, <3>1 DEF SampleFields
    <3>3. kept.entries = S /\ LeastOf(kept.entries \cup {p}, S \cup {p}, kept.capacity, key)
      <4> HIDE DEF p, S, key
      <4> QED  BY <2>1, <2>5, RoomForOne
    <3>4. kept.rows = rows
      BY <2>1, <3>3 DEF PositionsOf
    <3>5. kept.rows \cup {row} = {r \in all : Import!position(r) \in kept.entries \cup {p}}
      BY <2>1, <3>4
    <3> HIDE DEF after
    <3> QED  BY <1>1, <1>2, <1>7, <2>1, <3>2, <3>3, <3>5 DEF SampleOf
  <2>6. CASE p \notin kept.entries /\ Cardinality(kept.entries) = kept.capacity
    <3>1. worst \in kept.entries /\ \A x \in kept.entries : key[x] <= key[worst]
      <4>1. kept.entries # {}
        BY <2>1, <2>6, FS_EmptySet
      <4>2. \A x \in kept.entries : key[x] \in Int
        BY <1>3, <2>2
      <4>3. \E m \in kept.entries : \A x \in kept.entries : key[x] <= key[m]
        <5> HIDE DEF key
        <5> QED  BY <2>2, <4>1, <4>2, GreatestKey
      <4>4. \E m \in kept.entries : \A x \in kept.entries : Key(x) <= Key(m)
        BY <1>3, <2>2, <4>3
      <4>5. worst \in kept.entries /\ \A x \in kept.entries : Key(x) <= Key(worst)
        BY <4>4 DEF Import!Worst
      <4> HIDE DEF worst
      <4> QED  BY <1>3, <2>2, <4>5
    <3>2. key[p] = Key(p) /\ key[worst] = Key(worst)
      BY <1>3, <2>2, <3>1
    <3>3. CASE Key(p) < Key(worst)
      <4>1. after = [kept EXCEPT !.entries = (@ \ {worst}) \cup {p},
                                 !.rows = {r \in kept.rows \cup {row} : Import!position(r) # worst}]
        BY <1>7, <2>2, <2>3, <2>6, <3>3 DEF Import!consider
      <4> HIDE DEF worst
      <4>2. /\ after = [f \in SampleFields |-> after[f]] /\ after.capacity = kept.capacity
            /\ after.rows = {r \in kept.rows \cup {row} : Import!position(r) # worst}
            /\ after.mode = kept.mode
            /\ after.entries = (kept.entries \ {worst}) \cup {p}
        BY <1>1, <4>1 DEF SampleFields
      <4>3. /\ p \notin S
            /\ LeastOf((kept.entries \ {worst}) \cup {p}, S \cup {p}, kept.capacity, key)
        <5>1. key[p] < key[worst]
          BY <3>2, <3>3
        <5> HIDE DEF p, S, key
        <5> QED  BY <1>3, <2>1, <2>6, <3>1, <5>1, OneForAnother
      <4>4. \A r \in rows : Import!position(r) # p
        BY <4>3 DEF PositionsOf
      <4>5. after.rows = {r \in all : Import!position(r) \in after.entries}
        <5>1. p # worst
          BY <2>6, <3>1
        <5> HIDE DEF after
        <5> QED  BY <2>1, <4>2, <4>4, <5>1
      <4> HIDE DEF after
      <4> QED  BY <1>1, <1>2, <1>7, <2>1, <4>2, <4>3, <4>5 DEF SampleOf
    <3>4. CASE ~(Key(p) < Key(worst))
      <4>1. after = kept
        BY <1>7, <2>2, <2>3, <2>6, <3>4 DEF Import!consider
      <4> HIDE DEF worst
      <4>2. LeastOf(kept.entries, S \cup {p}, kept.capacity, key)
        <5>1. ~(key[p] < key[worst])
          BY <3>2, <3>4
        <5> HIDE DEF p, S, key
        <5> QED  BY <1>3, <2>1, <2>6, <3>1, <5>1, OneTooMany
      <4>3. kept.rows = {r \in all : Import!position(r) \in kept.entries}
        BY <2>1, <2>6
      <4> HIDE DEF after
      <4> QED  BY <1>1, <1>2, <1>7, <2>1, <4>1, <4>2, <4>3 DEF SampleOf
    <3> QED  BY <3>3, <3>4
  <2> QED  BY <2>1, <2>2, <2>4, <2>5, <2>6
<1> QED  BY <1>5, <1>6, <1>7

SummaryFields == {"opened", "games", "candidates", "considered"}

\* What an importer has read so far and what it has kept of it.
SummaryOf(counted, kept, seed) ==
    /\ counted = [f \in SummaryFields |-> counted[f]]
    /\ RowsConsidered(counted.considered, counted.candidates)
    /\ SampleOf(kept, counted.considered, counted.candidates, seed)

\* One row of a game.
LEMMA ConsiderRowKeeps ==
    ASSUME NEW t \in DOMAIN Replay, NEW snapshot \in Range(Replay[t].snapshots), NEW so_far,
           KeysApart(args.seed, Positions), SummaryOf(so_far.summary, so_far.sample, args.seed)
    PROVE  LET after == Import!consider_row(so_far, Replay[t], snapshot)
           IN  SummaryOf(after.summary, after.sample, args.seed)
<1> DEFINE after == Import!consider_row(so_far, Replay[t], snapshot)
           counted == so_far.summary
           row == Import!row_of(Replay[t], snapshot, counted.candidates + 1)
<1> SUFFICES SummaryOf(after.summary, after.sample, args.seed)
  OBVIOUS
<1>1. CASE after = so_far
  BY <1>1
<1>2. CASE after # so_far
  <2>1. after = [summary |-> [counted EXCEPT !.candidates = @ + 1, !.considered = @ \cup {row}],
                 sample |-> Import!consider(so_far.sample, row, args.seed)]
    BY <1>2 DEF Import!consider_row
  <2>2. /\ row.ordinal = counted.candidates + 1
        /\ {"split", "board", "game", "phase", "ordinal"} \subseteq DOMAIN row
        /\ Import!position(row) = <<Replay[t].game, snapshot.ply, snapshot.board>>
    BY DEF Import!row_of, Import!make_row, Import!make_candidate_row, Import!CandidateRow,
       Import!position
  <2>3. Import!position(row) \in Positions
    BY <2>2 DEF Positions
  <2> HIDE DEF row, after
  <2>4. RowsConsidered(counted.considered \cup {row}, counted.candidates + 1)
    BY <2>2, <2>3, OneMoreRow DEF SummaryOf
  <2>5. SampleOf(Import!consider(so_far.sample, row, args.seed), counted.considered \cup {row},
                 counted.candidates + 1, args.seed)
    BY <2>2, <2>3, ConsiderKeeps DEF SummaryOf
  <2>6. /\ after.summary = [f \in SummaryFields |-> after.summary[f]]
        /\ after.summary.candidates = counted.candidates + 1
        /\ after.summary.considered = counted.considered \cup {row}
        /\ after.sample = Import!consider(so_far.sample, row, args.seed)
    BY <2>1 DEF SummaryOf, SummaryFields
  <2> QED  BY <2>4, <2>5, <2>6 DEF SummaryOf
<1> QED  BY <1>1, <1>2

\* After so many rows of a game.
AfterRow(after, game, i) ==
    IF i = 0 THEN [summary |-> Import!Counted, sample |-> sample]
    ELSE Import!consider_row(after[i - 1], game, game.snapshots[i])

FollowsTo(after, game, n) ==
    /\ after = [i \in 0..n |-> after[i]]
    /\ \A i \in 0..n : after[i] = AfterRow(after, game, i)

\* The function that consider_rows chooses exists.
LEMMA RowsFollow ==
    ASSUME NEW game, NEW n \in Nat
    PROVE  \E after : FollowsTo(after, game, n)
<1> DEFINE missing == {m \in Nat : ~ \E after : FollowsTo(after, game, m)}
<1> SUFFICES ASSUME missing # {} PROVE FALSE
  OBVIOUS
<1>1. PICK m \in missing : \A k \in missing : m <= k
  <2>1. missing \in SUBSET Nat
    OBVIOUS
  <2> HIDE DEF missing
  <2> QED  BY <2>1, LeastNumber
<1>2. CASE m = 0
  <2> DEFINE first == [i \in 0..0 |-> [summary |-> Import!Counted, sample |-> sample]]
  <2>1. FollowsTo(first, game, 0)
    BY DEF FollowsTo, AfterRow
  <2> QED  BY <1>2, <2>1
<1>3. CASE m # 0
  <2>1. m \in Nat /\ m - 1 \in Nat /\ m - 1 \notin missing
    BY <1>1, <1>3
  <2>2. PICK before : FollowsTo(before, game, m - 1)
    BY <2>1
  <2> DEFINE last == Import!consider_row(before[m - 1], game, game.snapshots[m])
             next == [i \in 0..m |-> IF i = m THEN last ELSE before[i]]
  <2>3. next = [i \in 0..m |-> next[i]]
    OBVIOUS
  <2>4. ASSUME NEW i \in 0..m PROVE next[i] = AfterRow(next, game, i)
    <3>1. CASE i = m
      <4>1. next[i] = last /\ next[i - 1] = before[i - 1] /\ i # 0
        BY <1>3, <2>1, <3>1
      <4> HIDE DEF next
      <4> QED  BY <3>1, <4>1 DEF AfterRow
    <3>2. CASE i # m
      <4>1. i \in 0..(m - 1) /\ next[i] = before[i]
        BY <2>1, <3>2
      <4>2. i # 0 => next[i - 1] = before[i - 1]
        BY <2>1, <3>2
      <4>3. before[i] = AfterRow(before, game, i)
        BY <2>2, <4>1 DEF FollowsTo
      <4> HIDE DEF next
      <4> QED  BY <4>1, <4>2, <4>3 DEF AfterRow
    <3> QED  BY <3>1, <3>2
  <2> HIDE DEF next
  <2> QED  BY <2>3, <2>4 DEF FollowsTo
<1> QED  BY <1>2, <1>3

LEMMA ConsiderRowsUnfolds ==
    ASSUME NEW game, Len(game.snapshots) \in Nat
    PROVE  \E after : /\ FollowsTo(after, game, Len(game.snapshots))
                      /\ Import!consider_rows(game) = after[Len(game.snapshots)]
<1> DEFINE n == Len(game.snapshots)
           follows(f) == f = [i \in 0..n |-> AfterRow(f, game, i)]
           chosen == CHOOSE f : follows(f)
<1>1. PICK after : FollowsTo(after, game, n)
  BY RowsFollow
<1>2. after = [i \in 0..n |-> after[i]]
  BY <1>1 DEF FollowsTo
<1>3. follows(after)
  BY <1>1, <1>2 DEF FollowsTo
<1>4. follows(chosen)
  <2> HIDE DEF follows
  <2> QED  BY <1>3
<1>5. Import!consider_rows(game) = chosen[n]
  BY DEF Import!consider_rows, AfterRow
<1>6. FollowsTo(chosen, game, n)
  <2> HIDE DEF chosen
  <2> QED  BY <1>4 DEF FollowsTo
<1> QED  BY <1>5, <1>6

\* All rows of a game.
LEMMA ConsiderRowsKeeps ==
    ASSUME NEW t \in DOMAIN Replay, KeysApart(args.seed, Positions),
           SummaryOf(summary, sample, args.seed)
    PROVE  LET after == Import!consider_rows(Replay[t])
           IN  SummaryOf(after.summary, after.sample, args.seed)
<1> DEFINE game == Replay[t]
           n == Len(game.snapshots)
<1>1. /\ n \in Nat /\ DOMAIN game.snapshots = 1..n
      /\ \A i \in 1..n : game.snapshots[i] \in Range(game.snapshots)
  BY ReplayAssumption DEF Range
<1>2. PICK after : FollowsTo(after, game, n) /\ Import!consider_rows(game) = after[n]
  <2> HIDE DEF game
  <2> QED  BY <1>1, ConsiderRowsUnfolds
<1> DEFINE SoundAt(i) == SummaryOf(after[i].summary, after[i].sample, args.seed)
           wrong == {i \in 0..n : ~SoundAt(i)}
<1>3. wrong = {}
  <2> SUFFICES ASSUME wrong # {} PROVE FALSE
    OBVIOUS
  <2>1. PICK i \in wrong : \A j \in wrong : i <= j
    <3>1. wrong \in SUBSET Nat
      BY <1>1
    <3> HIDE DEF wrong
    <3> QED  BY <3>1, LeastNumber
  <2>2. i \in 0..n /\ after[i] = AfterRow(after, game, i)
    BY <1>2 DEF FollowsTo
  <2>3. CASE i = 0
    <3>1. after[i] = [summary |-> Import!Counted, sample |-> sample]
      BY <2>2, <2>3 DEF AfterRow
    <3>2. /\ after[i].summary = [f \in SummaryFields |-> after[i].summary[f]]
          /\ after[i].summary.candidates = summary.candidates
          /\ after[i].summary.considered = summary.considered
          /\ after[i].sample = sample
      BY <3>1 DEF Import!Counted, SummaryOf, SummaryFields
    <3>3. SoundAt(i)
      BY <3>2 DEF SummaryOf
    <3> QED  BY <3>3
  <2>4. CASE i # 0
    <3>1. i - 1 \in 0..n /\ i \in 1..n /\ ~(i <= i - 1)
      BY <1>1, <2>2, <2>4
    <3>2. SoundAt(i - 1)
      BY <2>1, <3>1
    <3>3. after[i] = Import!consider_row(after[i - 1], game, game.snapshots[i])
      BY <2>2, <2>4 DEF AfterRow
    <3>4. SoundAt(i)
      BY <1>1, <3>1, <3>2, <3>3, ConsiderRowKeeps
    <3> QED  BY <3>4
  <2> QED  BY <2>3, <2>4
<1>4. SoundAt(n)
  <2>1. n \in 0..n
    BY <1>1
  <2> HIDE DEF SoundAt
  <2> QED  BY <1>3, <2>1
<1> QED  BY <1>2, <1>4

-----------------------------------------------------------------------------
(* The components of games and boards.                                     *)

\* After the rows up to an ordinal.
Joined(rows, find, n) ==
    IF n = 0
    THEN [m \in {Import!BoardNode(r) : r \in rows} \cup {Import!GameNode(r) : r \in rows} |-> m]
    ELSE IF \A r \in rows : r.ordinal # n THEN find[n - 1]
    ELSE LET row == CHOOSE r \in rows : r.ordinal = n
         IN  Import!union(find[n - 1], Import!GameNode(row), Import!BoardNode(row))

JoinedUpTo(rows, find, n) ==
    /\ find = [i \in 0..n |-> find[i]]
    /\ \A i \in 0..n : find[i] = Joined(rows, find, i)

LEMMA RowsAreJoined ==
    ASSUME NEW rows, NEW n \in Nat
    PROVE  \E find : JoinedUpTo(rows, find, n)
<1> DEFINE missing == {m \in Nat : ~ \E find : JoinedUpTo(rows, find, m)}
<1> SUFFICES ASSUME missing # {} PROVE FALSE
  OBVIOUS
<1>1. PICK m \in missing : \A k \in missing : m <= k
  <2>1. missing \in SUBSET Nat
    OBVIOUS
  <2> HIDE DEF missing
  <2> QED  BY <2>1, LeastNumber
<1>2. CASE m = 0
  <2> DEFINE first == [i \in 0..0 |-> Joined(rows, <<>>, 0)]
  <2>1. JoinedUpTo(rows, first, 0)
    BY DEF JoinedUpTo, Joined
  <2> QED  BY <1>2, <2>1
<1>3. CASE m # 0
  <2>1. m \in Nat /\ m - 1 \in Nat /\ m - 1 \notin missing
    BY <1>1, <1>3
  <2>2. PICK before : JoinedUpTo(rows, before, m - 1)
    BY <2>1
  <2> DEFINE last == Joined(rows, [i \in {m - 1} |-> before[m - 1]], m)
             next == [i \in 0..m |-> IF i = m THEN last ELSE before[i]]
  <2>3. next = [i \in 0..m |-> next[i]]
    OBVIOUS
  <2>4. ASSUME NEW i \in 0..m PROVE next[i] = Joined(rows, next, i)
    <3>1. CASE i = m
      <4>1. next[i] = last /\ next[i - 1] = before[m - 1] /\ i # 0
        BY <1>3, <2>1, <3>1
      <4>2. [j \in {m - 1} |-> before[m - 1]][i - 1] = next[i - 1]
        BY <3>1, <4>1
      <4> HIDE DEF next
      <4> QED  BY <3>1, <4>1, <4>2 DEF Joined
    <3>2. CASE i # m
      <4>1. i \in 0..(m - 1) /\ next[i] = before[i]
        BY <2>1, <3>2
      <4>2. i # 0 => next[i - 1] = before[i - 1]
        BY <2>1, <3>2
      <4>3. before[i] = Joined(rows, before, i)
        BY <2>2, <4>1 DEF JoinedUpTo
      <4> HIDE DEF next
      <4> QED  BY <4>1, <4>2, <4>3 DEF Joined
    <3> QED  BY <3>1, <3>2
  <2> HIDE DEF next
  <2> QED  BY <2>3, <2>4 DEF JoinedUpTo
<1> QED  BY <1>2, <1>3

\* The greatest ordinal.
LEMMA LastOrdinal ==
    ASSUME NEW rows, NEW n, RowsConsidered(rows, n)
    PROVE  LET last == Import!Max({r.ordinal : r \in rows} \cup {0})
           IN  last \in Nat /\ \A r \in rows : r.ordinal \in 1..last
<1> DEFINE S == {r.ordinal : r \in rows} \cup {0}
           last == Import!Max(S)
<1>1. n \in Nat /\ \A r \in rows : r.ordinal \in 1..n
  BY DEF RowsConsidered
<1>2. S \subseteq 0..n
  BY <1>1
<1>3. S # {} /\ IsFiniteSet(S)
  <2>1. IsFiniteSet(0..n)
    BY <1>1, FS_Interval
  <2> HIDE DEF S
  <2>2. IsFiniteSet(S)
    BY <1>2, <2>1, FS_Subset
  <2> QED  BY <2>2 DEF S
<1> DEFINE key == [x \in S |-> x]
<1>4. PICK m \in S : \A x \in S : x <= m
  <2>1. \A x \in S : key[x] \in Int /\ key[x] = x
    BY <1>1, <1>2
  <2>2. PICK m \in S : \A x \in S : key[x] <= key[m]
    <3> HIDE DEF key, S
    <3> QED  BY <1>3, <2>1, GreatestKey
  <2>3. \A x \in S : x <= m
    <3> HIDE DEF key
    <3> QED  BY <2>1, <2>2
  <2> QED  BY <2>3
<1>5. \E y \in S : \A x \in S : y >= x
  <2> HIDE DEF S
  <2> QED  BY <1>1, <1>2, <1>4
<1>6. last \in S /\ \A x \in S : last >= x
  <2> HIDE DEF S
  <2> QED  BY <1>5 DEF Import!Max
<1>7. last \in Nat
  <2> HIDE DEF last, S
  <2> QED  BY <1>1, <1>2, <1>6
<1>8. ASSUME NEW r \in rows PROVE r.ordinal \in 1..last
  <2>1. r.ordinal \in S
    OBVIOUS
  <2> HIDE DEF last, S
  <2> QED  BY <1>1, <1>6, <1>7, <2>1
<1> QED  BY <1>7, <1>8

\* A union keeps together what is together, and joins its two nodes.
LEMMA UnionJoins ==
    ASSUME NEW find, NEW left \in DOMAIN find, NEW right \in DOMAIN find
    PROVE  LET now == Import!union(find, left, right)
           IN  /\ DOMAIN now = DOMAIN find /\ now[left] = now[right]
               /\ \A x, y \in DOMAIN find : find[x] = find[y] => now[x] = now[y]
BY DEF Import!union

\* In the end the game and the board of each row are in one component.
LEMMA ComponentsJoin ==
    ASSUME NEW rows, NEW n, RowsConsidered(rows, n)
    PROVE  LET find == Import!Components(rows)
           IN  \A r \in rows : find[Import!GameNode(r)] = find[Import!BoardNode(r)]
<1> DEFINE nodes == {Import!BoardNode(r) : r \in rows} \cup {Import!GameNode(r) : r \in rows}
           last == Import!Max({r.ordinal : r \in rows} \cup {0})
           joins(f) == f = [i \in 0..last |-> Joined(rows, f, i)]
           find == CHOOSE f : joins(f)
<1>1. last \in Nat /\ \A r \in rows : r.ordinal \in 1..last
  BY LastOrdinal
<1>2. Import!Components(rows) = find[last]
  BY DEF Import!Components, Joined
<1> HIDE DEF last
<1>3. joins(find)
  <2>1. PICK f : JoinedUpTo(rows, f, last)
    BY <1>1, RowsAreJoined
  <2>2. f = [i \in 0..last |-> f[i]]
    BY <2>1 DEF JoinedUpTo
  <2>3. \A i \in 0..last : f[i] = Joined(rows, f, i)
    BY <2>1 DEF JoinedUpTo
  <2>4. joins(f)
    BY <2>2, <2>3
  <2> HIDE DEF joins
  <2> QED  BY <2>4
<1>4. \A i \in 0..last : find[i] = Joined(rows, find, i)
  <2> HIDE DEF find
  <2> QED  BY <1>3
<1> HIDE DEF find
<1> DEFINE SoundAt(i) ==
             /\ DOMAIN find[i] = nodes
             /\ \A r \in rows : r.ordinal <= i =>
                   find[i][Import!GameNode(r)] = find[i][Import!BoardNode(r)]
           wrong == {i \in 0..last : ~SoundAt(i)}
<1>5. wrong = {}
  <2> SUFFICES ASSUME wrong # {} PROVE FALSE
    OBVIOUS
  <2>1. PICK i \in wrong : \A j \in wrong : i <= j
    <3>1. wrong \in SUBSET Nat
      BY <1>1
    <3> HIDE DEF wrong
    <3> QED  BY <3>1, LeastNumber
  <2>2. i \in 0..last /\ find[i] = Joined(rows, find, i)
    BY <1>4
  <2>3. CASE i = 0
    <3>1. find[i] = [m \in nodes |-> m]
      BY <2>2, <2>3 DEF Joined
    <3>2. \A r \in rows : ~(r.ordinal <= i)
      BY <1>1, <2>3
    <3>3. SoundAt(i)
      BY <3>1, <3>2
    <3> QED  BY <3>3
  <2>4. CASE i # 0
    <3>1. i - 1 \in 0..last /\ ~(i <= i - 1)
      BY <1>1, <2>2, <2>4
    <3>2. SoundAt(i - 1)
      BY <2>1, <3>1
    <3>3. CASE \A r \in rows : r.ordinal # i
      <4>1. find[i] = find[i - 1]
        BY <2>2, <2>4, <3>3 DEF Joined
      <4>2. \A r \in rows : r.ordinal <= i => r.ordinal <= i - 1
        BY <1>1, <2>2, <3>3
      <4>3. SoundAt(i)
        BY <3>2, <4>1, <4>2
      <4> QED  BY <4>3
    <3>4. CASE \E r \in rows : r.ordinal = i
      <4> DEFINE row == CHOOSE r \in rows : r.ordinal = i
      <4>1. row \in rows /\ row.ordinal = i
        BY <3>4
      <4>2. find[i] = Import!union(find[i - 1], Import!GameNode(row), Import!BoardNode(row))
        BY <2>2, <2>4, <3>4 DEF Joined
      <4> HIDE DEF row
      <4>3. Import!GameNode(row) \in nodes /\ Import!BoardNode(row) \in nodes
        BY <4>1
      <4>4. /\ DOMAIN find[i] = nodes
            /\ find[i][Import!GameNode(row)] = find[i][Import!BoardNode(row)]
            /\ \A x, y \in nodes : find[i - 1][x] = find[i - 1][y] => find[i][x] = find[i][y]
        <5> DEFINE before == find[i - 1]
                   game == Import!GameNode(row)
                   board == Import!BoardNode(row)
                   now == Import!union(before, game, board)
        <5>1. DOMAIN before = nodes /\ game \in nodes /\ board \in nodes /\ find[i] = now
          BY <3>2, <4>2, <4>3
        <5> HIDE DEF nodes, before, game, board
        <5>2. /\ DOMAIN now = DOMAIN before /\ now[game] = now[board]
              /\ \A x, y \in DOMAIN before : before[x] = before[y] => now[x] = now[y]
          BY <5>1, UnionJoins
        <5> HIDE DEF now
        <5> QED  BY <5>1, <5>2 DEF before, game, board
      <4>5. ASSUME NEW r \in rows, r.ordinal <= i
            PROVE  find[i][Import!GameNode(r)] = find[i][Import!BoardNode(r)]
        <5>1. CASE r = row
          BY <4>4, <5>1
        <5>2. CASE r # row
          <6>1. r.ordinal # i
            BY <4>1, <5>2 DEF RowsConsidered
          <6>2. r.ordinal <= i - 1
            BY <1>1, <2>2, <4>5, <6>1
          <6>3. Import!GameNode(r) \in nodes /\ Import!BoardNode(r) \in nodes
            OBVIOUS
          <6> HIDE DEF nodes
          <6> QED  BY <3>2, <4>4, <6>2, <6>3
        <5> QED  BY <5>1, <5>2
      <4>6. SoundAt(i)
        BY <4>4, <4>5
      <4> QED  BY <4>6
    <3> QED  BY <3>3, <3>4
  <2> QED  BY <2>3, <2>4
<1>6. SoundAt(last)
  <2>1. last \in 0..last
    BY <1>1
  <2> HIDE DEF SoundAt
  <2> QED  BY <1>5, <2>1
<1> QED  BY <1>1, <1>2, <1>6

\* Of things that are all alike there is not more than one.
LEMMA NotMoreThanOne ==
    ASSUME NEW S, \A x, y \in S : x = y
    PROVE  ~(Import!Cardinality(S) > 1)
<1>1. CASE S = {}
  BY <1>1, FS_EmptySet, ImportedCardinality
<1>2. CASE S # {}
  <2>1. PICK x \in S : TRUE
    BY <1>2
  <2>2. S = {x}
    BY <2>1
  <2>3. Cardinality({x}) = 1
    BY FS_Singleton
  <2> QED  BY <2>2, <2>3, ImportedCardinality
<1> QED  BY <1>1, <1>2

\* Rows that share a game or a board share their split.
LEMMA SplitsShared ==
    ASSUME NEW rows, NEW n, RowsConsidered(rows, n)
    PROVE  LET split == Import!connected_board_game_resplit(rows)
           IN  Import!BoardCollisions(split) = {} /\ Import!GameCollisions(split) = {}
<1> DEFINE find == Import!Components(rows)
           members(m) == {k \in DOMAIN find : find[k] = find[m]}
           SplitOf(r) == ComponentSplit(Import!Min(members(Import!GameNode(r))))
           split == Import!connected_board_game_resplit(rows)
<1>1. split = {[r EXCEPT !.split = SplitOf(r)] : r \in rows}
  BY DEF Import!connected_board_game_resplit
<1>2. \A r \in rows : find[Import!GameNode(r)] = find[Import!BoardNode(r)]
  BY ComponentsJoin
<1> HIDE DEF find
<1>3. ASSUME NEW r \in rows, NEW x \in rows, r.board = x.board \/ r.game = x.game
      PROVE  SplitOf(r) = SplitOf(x)
  <2>1. find[Import!GameNode(r)] = find[Import!GameNode(x)]
    <3>1. CASE r.game = x.game
      BY <3>1 DEF Import!GameNode
    <3>2. CASE r.board = x.board
      <4>1. Import!BoardNode(r) = Import!BoardNode(x)
        BY <3>2 DEF Import!BoardNode
      <4> QED  BY <1>2, <4>1
    <3> QED  BY <1>3, <3>1, <3>2
  <2>2. members(Import!GameNode(r)) = members(Import!GameNode(x))
    BY <2>1
  <2> HIDE DEF members
  <2> QED  BY <2>2
<1> HIDE DEF SplitOf, split
<1>4. ASSUME NEW r \in rows
      PROVE  LET s == [r EXCEPT !.split = SplitOf(r)]
             IN  s.board = r.board /\ s.game = r.game /\ s.split = SplitOf(r)
  BY DEF RowsConsidered
<1>5. ASSUME NEW x \in split, NEW y \in split, x.board = y.board \/ x.game = y.game
      PROVE  x.split = y.split
  <2>1. PICK r \in rows : x.board = r.board /\ x.game = r.game /\ x.split = SplitOf(r)
    BY <1>1, <1>4
  <2>2. PICK s \in rows : y.board = s.board /\ y.game = s.game /\ y.split = SplitOf(s)
    BY <1>1, <1>4
  <2> QED  BY <1>3, <1>5, <2>1, <2>2
<1>6. Import!BoardCollisions(split) = {}
  <2> SUFFICES ASSUME NEW b
               PROVE  ~(Import!Cardinality({r.split : r \in {x \in split : x.board = b}}) > 1)
    BY DEF Import!BoardCollisions
  <2> DEFINE S == {r.split : r \in {x \in split : x.board = b}}
  <2>1. \A x, y \in S : x = y
    BY <1>5
  <2> HIDE DEF S
  <2>2. ~(Import!Cardinality(S) > 1)
    BY <2>1, NotMoreThanOne
  <2> QED  BY <2>2 DEF S
<1>7. Import!GameCollisions(split) = {}
  <2> SUFFICES ASSUME NEW g
               PROVE  ~(Import!Cardinality({r.split : r \in {x \in split : x.game = g}}) > 1)
    BY DEF Import!GameCollisions
  <2> DEFINE S == {r.split : r \in {x \in split : x.game = g}}
  <2>1. \A x, y \in S : x = y
    BY <1>5
  <2> HIDE DEF S
  <2>2. ~(Import!Cardinality(S) > 1)
    BY <2>1, NotMoreThanOne
  <2> QED  BY <2>2 DEF S
<1> QED  BY <1>6, <1>7 DEF split

-----------------------------------------------------------------------------
(* The buckets of the board-score importer.                                *)

LEMMA ScoresCardinality == \A S : BoardScores!Cardinality(S) = Cardinality(S)
BY DEF Cardinality, BoardScores!Cardinality

BoardsOf(rows) == {r.board : r \in rows}
BoardKey(seed, b) == SampleKey(seed, <<b>>)
BoardKeys(seed, boards) == [b \in boards |-> BoardKey(seed, b)]
BoardsApart(seed, boards) ==
    /\ \A b \in boards : BoardKey(seed, b) \in Int
    /\ \A b, c \in boards : BoardKey(seed, b) = BoardKey(seed, c) => b = c
BucketFields == {"capacity", "entries", "heap"}
Unnumbered(r) == [r EXCEPT !.ordinal = 0]

LEMMA BoardsKeysApart ==
    ASSUME NEW seed, NEW boards, KeysApart(seed, {<<b>> : b \in boards})
    PROVE  BoardsApart(seed, boards)
<1> DEFINE singly == {<<b>> : b \in boards}
<1>1. ASSUME NEW b \in boards, NEW c \in boards
      PROVE  /\ BoardKey(seed, b) \in Int
             /\ BoardKey(seed, b) = BoardKey(seed, c) => b = c
  <2> DEFINE p == <<b>>
             q == <<c>>
  <2>1. p \in singly /\ q \in singly /\ (p = q => b = c)
    OBVIOUS
  <2>2. BoardKey(seed, b) = SampleKey(seed, p) /\ BoardKey(seed, c) = SampleKey(seed, q)
    BY DEF BoardKey
  <2> HIDE DEF p, q, singly
  <2>3. SampleKey(seed, p) \in Int /\ (SampleKey(seed, p) = SampleKey(seed, q) => p = q)
    BY <2>1 DEF KeysApart, singly
  <2> QED  BY <2>1, <2>2, <2>3
<1> QED  BY <1>1 DEF BoardsApart

LEMMA EntryOnHeap ==
    ASSUME NEW row, NEW seed
    PROVE  BoardScores!HeapEntry(row, seed) = <<BoardKey(seed, row.board), row.board, row.record>>
BY DEF BoardScores!HeapEntry, BoardKey

\* Rows of these boards, told apart by their records.
RowsRead(rows, boards) ==
    /\ IsFiniteSet(rows)
    /\ \A r \in rows : r.board \in boards /\ r.board \in Int /\ r.record \in Int
    /\ \A r, x \in rows : r.record = x.record => Unnumbered(r) = Unnumbered(x)

BucketIsSound(bucket, rows, boards, seed) ==
    /\ bucket = [f \in BucketFields |-> bucket[f]] /\ bucket.capacity \in Nat \ {0}
    /\ bucket.entries \subseteq rows
    /\ \A r, x \in bucket.entries : r.board = x.board => r = x
    /\ \A r \in bucket.entries, x \in rows : x.board = r.board => r.record <= x.record
    /\ LeastOf(BoardsOf(bucket.entries), BoardsOf(rows), bucket.capacity, BoardKeys(seed, boards))
    /\ \A r \in bucket.entries : BoardScores!HeapEntry(r, seed) \in bucket.heap
    /\ \A e \in bucket.heap : \E b \in boards, record \in Int :
          b \in Int /\ e = <<BoardKey(seed, b), b, record>>

\* An entry comes before another on the heap.
Before(e, f) ==
    \/ f[1] < e[1]
    \/ f[1] = e[1] /\ e[2] < f[2]
    \/ f[1] = e[1] /\ e[2] = f[2] /\ e[3] < f[3]

Triple(e) == e = <<e[1], e[2], e[3]>> /\ e[1] \in Int /\ e[2] \in Int /\ e[3] \in Int

LEMMA TopIsFirst ==
    ASSUME NEW heap, NEW e \in heap, \A f \in heap : Triple(f),
           \A f \in heap : f # e => Before(e, f)
    PROVE  BoardScores!Top(heap) = e
<1> DEFINE First(x) == x \in heap /\ \A f \in heap \ {x} : Before(x, f)
           top == CHOOSE x : First(x)
<1>1. BoardScores!Top(heap) = CHOOSE x \in heap : \A f \in heap \ {x} : Before(x, f)
  BY DEF BoardScores!Top, Before
<1>2. First(e)
  OBVIOUS
<1>3. ASSUME NEW x \in heap, \A f \in heap \ {x} : Before(x, f) PROVE x = e
  <2>1. x # e => Before(x, e) /\ Before(e, x)
    BY <1>3
  <2>2. Triple(x) /\ Triple(e)
    OBVIOUS
  <2> QED  BY <2>1, <2>2 DEF Before, Triple
<1> QED  BY <1>1, <1>2, <1>3

LEMMA TopOfTwo ==
    ASSUME NEW e, NEW f, Triple(e), Triple(f), BoardScores!Top({e, f}) = f
    PROVE  e = f \/ Before(f, e)
<1>1. e = f \/ Before(e, f) \/ Before(f, e)
  BY DEF Triple, Before
<1>2. ASSUME e # f, Before(e, f) PROVE FALSE
  <2> DEFINE pair == {e, f}
  <2>1. /\ e \in pair /\ \A g \in pair : Triple(g)
        /\ \A g \in pair : g # e => Before(e, g)
    BY <1>2
  <2> HIDE DEF pair
  <2>2. BoardScores!Top(pair) = e
    BY <2>1, TopIsFirst
  <2> QED  BY <1>2, <2>2 DEF pair
<1> QED  BY <1>1, <1>2

LEMMA TopOfOne ==
    ASSUME NEW f PROVE BoardScores!Top({f, f}) = f
<1>1. {f, f} \ {f} = {}
  OBVIOUS
<1> QED  BY <1>1 DEF BoardScores!Top

\* One entry for each board.
LEMMA AsManyBoards ==
    ASSUME NEW entries, IsFiniteSet(entries),
           \A r, x \in entries : r.board = x.board => r = x
    PROVE  Cardinality(entries) = Cardinality(BoardsOf(entries))
<1> DEFINE f == [r \in entries |-> r.board]
<1>1. f \in Surjection(entries, BoardsOf(entries)) /\ f \in Injection(entries, BoardsOf(entries))
  BY DEF BoardsOf, Surjection, Injection, IsInjective
<1> HIDE DEF f
<1> QED  BY <1>1, FS_Surjection

\* What lies on the heap is an entry.
LEMMA HeapOfTriples ==
    ASSUME NEW bucket, NEW rows, NEW boards, NEW seed,
           BoardsApart(seed, boards), BucketIsSound(bucket, rows, boards, seed)
    PROVE  \A e \in bucket.heap : /\ Triple(e) /\ e[2] \in boards
                                  /\ e[1] = BoardKey(seed, e[2])
<1> TAKE e \in bucket.heap
<1>1. PICK b \in boards, record \in Int : b \in Int /\ e = <<BoardKey(seed, b), b, record>>
  BY DEF BucketIsSound
<1>2. BoardKey(seed, b) \in Int
  BY DEF BoardsApart
<1>3. e[1] = BoardKey(seed, b) /\ e[2] = b /\ e[3] = record
  BY <1>1
<1> QED  BY <1>1, <1>2, <1>3 DEF Triple

\* Once the stale entries above it are gone, the topmost one belongs to the
\* board that has the greatest key of those in the sample.
LEMMA SweptHeap ==
    ASSUME NEW bucket, NEW rows, NEW boards, NEW seed,
           BoardsApart(seed, boards), BucketIsSound(bucket, rows, boards, seed),
           RowsRead(rows, boards), bucket.entries # {}
    PROVE  LET swept == BoardScores!DiscardStale(bucket, seed)
           IN  /\ swept = [bucket EXCEPT !.heap = swept.heap]
               /\ swept.heap \subseteq bucket.heap
               /\ \A r \in bucket.entries : BoardScores!HeapEntry(r, seed) \in swept.heap
               /\ \E w \in bucket.entries :
                     /\ BoardScores!Top(swept.heap) = BoardScores!HeapEntry(w, seed)
                     /\ \A r \in bucket.entries :
                           BoardKey(seed, r.board) <= BoardKey(seed, w.board)
<1> DEFINE entry(r) == BoardScores!HeapEntry(r, seed)
           live == bucket.heap \cap BoardScores!Live(bucket, seed)
           swept == BoardScores!DiscardStale(bucket, seed)
           key == [r \in bucket.entries |-> BoardKey(seed, r.board)]
<1>1. /\ bucket = [f \in BucketFields |-> bucket[f]] /\ bucket.entries \subseteq rows
      /\ \A r \in bucket.entries : entry(r) \in bucket.heap
      /\ \A e \in bucket.heap : /\ Triple(e) /\ e[2] \in boards
                                /\ e[1] = BoardKey(seed, e[2])
  <2>1. \A e \in bucket.heap : /\ Triple(e) /\ e[2] \in boards
                               /\ e[1] = BoardKey(seed, e[2])
    <3> HIDE DEF entry, live, swept, key
    <3> QED  BY HeapOfTriples
  <2> QED  BY <2>1 DEF BucketIsSound
<1>2. ASSUME NEW r \in bucket.entries
      PROVE  /\ entry(r)[1] = BoardKey(seed, r.board) /\ entry(r)[2] = r.board
             /\ entry(r)[3] = r.record /\ entry(r)[1] \in Int
             /\ entry(r) \in live
  BY <1>1, EntryOnHeap DEF BoardScores!Live, Triple
<1>3. live = {entry(r) : r \in bucket.entries}
  BY <1>1 DEF BoardScores!Live
<1>4. /\ swept = [bucket EXCEPT !.heap = swept.heap]
      /\ swept.heap = {e \in bucket.heap : \E f \in live : BoardScores!Top({e, f}) = f}
  BY <1>1 DEF BoardScores!DiscardStale, BucketFields
<1>5. \A r \in bucket.entries : entry(r) \in swept.heap
  <2> TAKE r \in bucket.entries
  <2>1. entry(r) \in live /\ entry(r) \in bucket.heap
    BY <1>1, <1>2
  <2>2. BoardScores!Top({entry(r), entry(r)}) = entry(r)
    BY TopOfOne
  <2> HIDE DEF entry, live, swept
  <2> QED  BY <1>4, <2>1, <2>2
<1>6. PICK w \in bucket.entries :
          \A r \in bucket.entries : BoardKey(seed, r.board) <= BoardKey(seed, w.board)
  <2>1. \A r \in bucket.entries : key[r] = BoardKey(seed, r.board) /\ key[r] \in Int
    BY <1>2
  <2>2. IsFiniteSet(bucket.entries)
    BY <1>1, FS_Subset DEF RowsRead
  <2>3. \E w \in bucket.entries : \A r \in bucket.entries : key[r] <= key[w]
    <3> HIDE DEF key
    <3> QED  BY <2>1, <2>2, GreatestKey
  <2> HIDE DEF key
  <2> QED  BY <2>1, <2>3
<1>7. ASSUME NEW e \in swept.heap, e # entry(w) PROVE Before(entry(w), e)
  <2>1. e \in bucket.heap /\ Triple(e) /\ e[1] = BoardKey(seed, e[2]) /\ e[2] \in boards
    BY <1>1, <1>4
  <2>2. PICK r \in bucket.entries : BoardScores!Top({e, entry(r)}) = entry(r)
    BY <1>3, <1>4
  <2>3. e = entry(r) \/ Before(entry(r), e)
    <3>1. Triple(entry(r))
      BY <1>1
    <3> HIDE DEF entry
    <3> QED  BY <2>1, <2>2, <3>1, TopOfTwo
  <2>4. /\ r.board \in boards /\ w.board \in boards
        /\ entry(r)[1] <= entry(w)[1]
        /\ entry(r)[1] \in Int /\ entry(w)[1] \in Int /\ e[1] \in Int
    BY <1>1, <1>2, <1>6, <2>1 DEF RowsRead, Triple
  <2>5. CASE r = w
    BY <1>7, <2>3, <2>5
  <2>6. CASE r # w
    <3>1. r.board # w.board
      BY <2>6 DEF BucketIsSound
    <3>2. entry(r)[1] # entry(w)[1]
      <4>1. BoardKey(seed, r.board) # BoardKey(seed, w.board)
        BY <2>4, <3>1 DEF BoardsApart
      <4> QED  BY <1>2, <4>1
    <3>3. entry(r)[1] < entry(w)[1]
      BY <2>4, <3>2
    <3>4. e[1] <= entry(r)[1]
      BY <2>3, <2>4 DEF Before
    <3>5. e[1] < entry(w)[1]
      BY <2>4, <3>3, <3>4
    <3> QED  BY <3>5 DEF Before
  <2> QED  BY <2>5, <2>6
<1>8. BoardScores!Top(swept.heap) = entry(w)
  <2>1. entry(w) \in swept.heap
    BY <1>5
  <2>2. \A e \in swept.heap : Triple(e)
    BY <1>1, <1>4
  <2>3. \A e \in swept.heap : e # entry(w) => Before(entry(w), e)
    BY <1>7
  <2> HIDE DEF entry, swept
  <2> QED  BY <2>1, <2>2, <2>3, TopIsFirst
<1>9. swept.heap \subseteq bucket.heap
  BY <1>4
<1> HIDE DEF swept
<1> QED  BY <1>4, <1>5, <1>6, <1>8, <1>9 DEF swept

\* Whichever way a row takes, the bucket is the one of the rows so far.
LEMMA ConsiderBoardKeeps ==
    ASSUME NEW bucket, NEW rows, NEW boards, NEW seed, NEW row,
           BoardsApart(seed, boards), BucketIsSound(bucket, rows, boards, seed),
           RowsRead(rows \cup {row}, boards)
    PROVE  BucketIsSound(BoardScores!consider_board(bucket, row, seed),
                         rows \cup {row}, boards, seed)
<1> DEFINE after == BoardScores!consider_board(bucket, row, seed)
           same == {r \in bucket.entries : r.board = row.board}
           pushed == BoardScores!HeapEntry(row, seed)
           swept == BoardScores!DiscardStale(bucket, seed)
           worst == BoardScores!Top(swept.heap)
           all == rows \cup {row}
           key == BoardKeys(seed, boards)
           kept == BoardsOf(bucket.entries)
           seen == BoardsOf(rows)
           n == bucket.capacity
<1> SUFFICES BucketIsSound(after, all, boards, seed)
  OBVIOUS
<1>1. /\ bucket = [f \in BucketFields |-> bucket[f]] /\ n \in Nat \ {0}
      /\ bucket.entries \subseteq rows
      /\ \A r, x \in bucket.entries : r.board = x.board => r = x
      /\ \A r \in bucket.entries, x \in rows : x.board = r.board => r.record <= x.record
      /\ LeastOf(kept, seen, n, key)
      /\ \A r \in bucket.entries : BoardScores!HeapEntry(r, seed) \in bucket.heap
      /\ \A e \in bucket.heap : \E b \in boards, record \in Int :
            b \in Int /\ e = <<BoardKey(seed, b), b, record>>
  BY DEF BucketIsSound
<1>2. /\ IsFiniteSet(rows) /\ IsFiniteSet(bucket.entries) /\ Cardinality(bucket.entries) \in Nat
      /\ \A r \in all : r.board \in boards /\ r.board \in Int /\ r.record \in Int
  <2>1. rows \subseteq all /\ IsFiniteSet(all)
    BY DEF RowsRead
  <2>2. IsFiniteSet(rows)
    <3> HIDE DEF all
    <3> QED  BY <2>1, FS_Subset
  <2> QED  BY <1>1, <2>2, FS_Subset, FS_CardinalityType DEF RowsRead
<1>3. RowsRead(rows, boards)
  BY <1>2 DEF RowsRead
<1>4. BoardsOf(all) = seen \cup {row.board}
  BY DEF BoardsOf
<1>5. /\ \A b \in seen \cup {row.board} : key[b] = BoardKey(seed, b) /\ key[b] \in Int
      /\ \A b, c \in seen \cup {row.board} : key[b] = key[c] => b = c
  <2>1. seen \cup {row.board} \subseteq boards
    BY <1>2 DEF BoardsOf
  <2> QED  BY <2>1 DEF BoardKeys, BoardsApart
<1>6. Cardinality(bucket.entries) = Cardinality(kept) /\ kept \subseteq seen
  BY <1>1, <1>2, AsManyBoards DEF LeastOf
<1>7. row.board \in kept <=> same # {}
  BY DEF BoardsOf
<1>8. pushed = <<BoardKey(seed, row.board), row.board, row.record>>
  BY EntryOnHeap
<1>9. \E b \in boards, record \in Int :
          b \in Int /\ pushed = <<BoardKey(seed, b), b, record>>
  BY <1>2, <1>8
<1>10. ASSUME NEW x \in same, x.record <= row.record
       PROVE  BucketIsSound(after, all, boards, seed)
  <2>1. after = bucket
    BY <1>10 DEF BoardScores!consider_board
  <2>2. LeastOf(kept, BoardsOf(all), n, key)
    <3>1. row.board \in kept
      BY <1>7
    <3>2. seen \cup {row.board} = seen
      BY <1>6, <3>1
    <3> QED  BY <1>1, <1>4, <3>2
  <2>3. ASSUME NEW r \in bucket.entries, NEW y \in all, y.board = r.board
        PROVE  r.record <= y.record
    <3>1. CASE y \in rows
      BY <1>1, <2>3, <3>1
    <3>2. CASE y = row
      BY <1>1, <1>10, <2>3, <3>2
    <3> QED  BY <3>1, <3>2
  <2> HIDE DEF after
  <2> QED  BY <1>1, <2>1, <2>2, <2>3 DEF BucketIsSound
<1>11. CASE (~ \E r \in same : r.record <= row.record)
            /\ (same # {} \/ Cardinality(bucket.entries) < n)
  <2>1. after = [bucket EXCEPT !.entries = (@ \ same) \cup {row}, !.heap = @ \cup {pushed}]
    BY <1>11, ScoresCardinality DEF BoardScores!consider_board
  <2>2. /\ after = [f \in BucketFields |-> after[f]] /\ after.capacity = n
        /\ after.entries = (bucket.entries \ same) \cup {row}
        /\ after.heap = bucket.heap \cup {pushed}
    BY <1>1, <2>1 DEF BucketFields
  <2>3. BoardsOf(after.entries) = kept \cup {row.board}
    <3> HIDE DEF after
    <3> QED  BY <2>2 DEF BoardsOf
  <2>4. LeastOf(kept \cup {row.board}, seen \cup {row.board}, n, key)
    <3>1. CASE same # {}
      <4>1. row.board \in kept /\ kept \cup {row.board} = kept
        BY <1>7, <3>1
      <4>2. seen \cup {row.board} = seen
        BY <1>6, <4>1
      <4> HIDE DEF kept, seen
      <4> QED  BY <1>1, <4>1, <4>2
    <3>2. CASE same = {}
      <4>1. Cardinality(kept) < n /\ row.board \notin kept
        BY <1>6, <1>7, <1>11, <3>2
      <4> HIDE DEF kept, seen, n, key
      <4> QED  BY <1>1, <4>1, RoomForOne
    <3> QED  BY <3>1, <3>2
  <2>5. \A y \in rows : y.board = row.board => row.record <= y.record
    <3>1. CASE same = {}
      <4>1. Cardinality(kept) < n /\ row.board \notin kept
        BY <1>6, <1>7, <1>11, <3>1
      <4>2. kept = seen
        <5> HIDE DEF kept, seen, n, key
        <5> QED  BY <1>1, <4>1, RoomForOne
      <4> QED  BY <4>1, <4>2 DEF BoardsOf
    <3>2. CASE same # {}
      <4>1. PICK x \in bucket.entries : x.board = row.board /\ ~(x.record <= row.record)
        BY <1>11, <3>2
      <4>2. x.record \in Int /\ row.record \in Int
        BY <1>1, <1>2
      <4>3. \A y \in rows : y.board = row.board => x.record <= y.record /\ y.record \in Int
        BY <1>1, <1>2, <4>1
      <4> QED  BY <4>1, <4>2, <4>3
    <3> QED  BY <3>1, <3>2
  <2>6. \A r, x \in after.entries : r.board = x.board => r = x
    <3> HIDE DEF after
    <3> QED  BY <1>1, <2>2
  <2>7. ASSUME NEW r \in after.entries, NEW y \in all, y.board = r.board
        PROVE  r.record <= y.record
    <3>1. CASE r = row
      BY <1>2, <2>5, <2>7, <3>1
    <3>2. CASE r # row
      <4>1. r \in bucket.entries /\ r \notin same
        BY <2>2, <3>2
      <4>2. y # row
        BY <2>7, <4>1
      <4> QED  BY <1>1, <2>7, <4>1, <4>2
    <3> QED  BY <3>1, <3>2
  <2>8. after.entries \subseteq all
    BY <1>1, <2>2
  <2>9. \A r \in after.entries : BoardScores!HeapEntry(r, seed) \in after.heap
    <3> HIDE DEF after
    <3> QED  BY <1>1, <2>2
  <2>10. \A e \in after.heap : \E b \in boards, record \in Int :
            b \in Int /\ e = <<BoardKey(seed, b), b, record>>
    <3> HIDE DEF after, pushed
    <3> QED  BY <1>1, <1>9, <2>2
  <2>11. LeastOf(BoardsOf(after.entries), BoardsOf(all), after.capacity, key)
    <3> HIDE DEF after, kept, seen, all
    <3> QED  BY <1>4, <2>2, <2>3, <2>4
  <2> HIDE DEF after, all
  <2> QED  BY <1>1, <2>2, <2>6, <2>7, <2>8, <2>9, <2>10, <2>11 DEF BucketIsSound
<1>12. CASE same = {} /\ ~(Cardinality(bucket.entries) < n)
  <2>1. Cardinality(kept) = n /\ row.board \notin kept /\ bucket.entries # {}
    <3>1. Cardinality(kept) <= n
      BY <1>1 DEF LeastOf
    <3>2. Cardinality(kept) = n
      BY <1>1, <1>2, <1>6, <1>12, <3>1
    <3> QED  BY <1>1, <1>6, <1>7, <1>12, <3>2, FS_EmptySet
  <2>2. /\ swept = [bucket EXCEPT !.heap = swept.heap]
        /\ swept.heap \subseteq bucket.heap
        /\ \A r \in bucket.entries : BoardScores!HeapEntry(r, seed) \in swept.heap
        /\ \E w \in bucket.entries :
              /\ BoardScores!Top(swept.heap) = BoardScores!HeapEntry(w, seed)
              /\ \A r \in bucket.entries : BoardKey(seed, r.board) <= BoardKey(seed, w.board)
    BY <1>3, <2>1, SweptHeap
  <2>3. PICK w \in bucket.entries :
              /\ worst = BoardScores!HeapEntry(w, seed)
              /\ \A r \in bucket.entries : BoardKey(seed, r.board) <= BoardKey(seed, w.board)
    BY <2>2
  <2>4. worst = <<BoardKey(seed, w.board), w.board, w.record>>
    BY <2>3, EntryOnHeap
  <2>5. w.board \in kept /\ \A b \in kept : key[b] <= key[w.board]
    <3>1. w.board \in kept
      BY DEF BoardsOf
    <3>2. \A b \in kept : BoardKey(seed, b) <= BoardKey(seed, w.board)
      BY <2>3 DEF BoardsOf
    <3>3. \A b \in kept : key[b] = BoardKey(seed, b)
      BY <1>5, <1>6
    <3> QED  BY <3>1, <3>2, <3>3
  <2>6. key[row.board] # key[w.board]
    BY <1>5, <1>6, <2>1, <2>5
  <2>7. key[row.board] = pushed[1] /\ key[w.board] = worst[1] /\ worst[2] = w.board
    BY <1>5, <1>6, <1>8, <2>4, <2>5
  <2>8. after = IF pushed[1] < worst[1]
                THEN [swept EXCEPT !.entries = {r \in @ : r.board # worst[2]} \cup {row},
                                   !.heap = (@ \ {worst}) \cup {pushed}]
                ELSE swept
    <3>1. pushed[1] # worst[1]
      BY <2>6, <2>7
    <3> HIDE DEF swept, pushed
    <3> QED  BY <1>12, <3>1, ScoresCardinality DEF BoardScores!consider_board, swept, pushed
  <2> HIDE DEF worst
  <2>9. CASE pushed[1] < worst[1]
    <3>1. /\ after = [f \in BucketFields |-> after[f]] /\ after.capacity = n
          /\ after.entries = {r \in bucket.entries : r.board # w.board} \cup {row}
          /\ after.heap = (swept.heap \ {worst}) \cup {pushed}
      <4> HIDE DEF swept, pushed, after
      <4>1. after = [swept EXCEPT !.entries = {r \in @ : r.board # w.board} \cup {row},
                                  !.heap = (@ \ {worst}) \cup {pushed}]
        BY <2>7, <2>8, <2>9
      <4>2. DOMAIN swept = BucketFields /\ swept.entries = bucket.entries /\ swept.capacity = n
        BY <1>1, <2>2 DEF BucketFields
      <4> QED  BY <1>1, <2>2, <4>1, <4>2 DEF BucketFields
    <3>2. BoardsOf(after.entries) = (kept \ {w.board}) \cup {row.board}
      <4> HIDE DEF after
      <4> QED  BY <3>1 DEF BoardsOf
    <3>3. /\ row.board \notin seen
          /\ LeastOf((kept \ {w.board}) \cup {row.board}, seen \cup {row.board}, n, key)
      <4>1. key[row.board] < key[w.board]
        BY <2>7, <2>9
      <4> DEFINE p == row.board
                 v == w.board
      <4> HIDE DEF kept, seen, n, key, p, v
      <4> SUFFICES p \notin seen /\ LeastOf((kept \ {v}) \cup {p}, seen \cup {p}, n, key)
        BY DEF p, v
      <4>2. /\ \A x \in seen \cup {p} : key[x] \in Int
            /\ \A x, y \in seen \cup {p} : key[x] = key[y] => x = y
            /\ \A x \in kept : key[x] <= key[v]
            /\ key[p] < key[v] /\ p \notin kept /\ v \in kept
        BY <1>5, <2>1, <2>5, <4>1 DEF p, v
      <4>3. n \in Nat \ {0} /\ LeastOf(kept, seen, n, key) /\ Cardinality(kept) = n
        BY <1>1, <2>1
      <4> QED  BY <4>2, <4>3, OneForAnother
    <3>4. \A r, x \in after.entries : r.board = x.board => r = x
      <4>1. \A r \in bucket.entries : r.board # row.board
        BY <1>12
      <4> HIDE DEF after
      <4> QED  BY <1>1, <3>1, <4>1
    <3>5. ASSUME NEW r \in after.entries, NEW y \in all, y.board = r.board
          PROVE  r.record <= y.record
      <4>1. \A x \in rows : x.board # row.board
        BY <3>3 DEF BoardsOf
      <4>2. CASE r = row
        <5>1. y = row
          BY <3>5, <4>1, <4>2
        <5> QED  BY <1>2, <4>2, <5>1
      <4>3. CASE r \in bucket.entries
        <5>1. y \in rows
          BY <1>1, <3>5, <4>1, <4>3
        <5> QED  BY <1>1, <3>5, <4>3, <5>1
      <4> QED  BY <3>1, <4>2, <4>3
    <3>6. after.entries \subseteq all
      BY <1>1, <3>1
    <3>7. ASSUME NEW r \in after.entries PROVE BoardScores!HeapEntry(r, seed) \in after.heap
      <4>1. CASE r = row
        <5> HIDE DEF after
        <5> QED  BY <3>1, <4>1
      <4>2. CASE r \in bucket.entries /\ r.board # w.board
        <5>1. BoardScores!HeapEntry(r, seed) = <<BoardKey(seed, r.board), r.board, r.record>>
          BY EntryOnHeap
        <5>2. BoardScores!HeapEntry(r, seed) # worst
          BY <2>4, <4>2, <5>1
        <5> HIDE DEF after, swept, pushed
        <5> QED  BY <2>2, <3>1, <4>2, <5>2
      <4> QED  BY <3>1, <4>1, <4>2
    <3>8. \A e \in after.heap : \E b \in boards, record \in Int :
              b \in Int /\ e = <<BoardKey(seed, b), b, record>>
      <4> HIDE DEF after, pushed, swept
      <4> QED  BY <1>1, <1>9, <2>2, <3>1
    <3>9. LeastOf(BoardsOf(after.entries), BoardsOf(all), after.capacity, key)
      <4> HIDE DEF after, kept, seen, all
      <4> QED  BY <1>4, <3>1, <3>2, <3>3
    <3> HIDE DEF after, all
    <3> QED  BY <1>1, <3>1, <3>4, <3>5, <3>6, <3>7, <3>8, <3>9 DEF BucketIsSound
  <2>10. CASE ~(pushed[1] < worst[1])
    <3>1. /\ after = [f \in BucketFields |-> after[f]] /\ after.capacity = n
          /\ after.entries = bucket.entries /\ after.heap = swept.heap
      <4> HIDE DEF swept, after, pushed
      <4> QED  BY <1>1, <2>2, <2>8, <2>10 DEF BucketFields
    <3>2. /\ row.board \notin kept
          /\ LeastOf(kept, seen \cup {row.board}, n, key)
      <4>1. ~(key[row.board] < key[w.board])
        BY <2>7, <2>10
      <4> DEFINE p == row.board
                 v == w.board
      <4> HIDE DEF kept, seen, n, key, p, v
      <4> SUFFICES p \notin kept /\ LeastOf(kept, seen \cup {p}, n, key)
        BY DEF p, v
      <4>2. /\ \A x \in seen \cup {p} : key[x] \in Int
            /\ \A x, y \in seen \cup {p} : key[x] = key[y] => x = y
            /\ \A x \in kept : key[x] <= key[v]
            /\ ~(key[p] < key[v]) /\ p \notin kept /\ v \in kept
        BY <1>5, <2>1, <2>5, <4>1 DEF p, v
      <4>3. n \in Nat \ {0} /\ LeastOf(kept, seen, n, key) /\ Cardinality(kept) = n
        BY <1>1, <2>1
      <4> QED  BY <4>2, <4>3, OneTooMany
    <3>3. ASSUME NEW r \in bucket.entries, NEW y \in all, y.board = r.board
          PROVE  r.record <= y.record
      <4>1. y # row
        BY <1>12, <3>3
      <4> QED  BY <1>1, <3>3, <4>1
    <3>4. /\ \A r \in bucket.entries : BoardScores!HeapEntry(r, seed) \in swept.heap
          /\ \A e \in swept.heap : \E b \in boards, record \in Int :
                b \in Int /\ e = <<BoardKey(seed, b), b, record>>
      <4> HIDE DEF swept
      <4> QED  BY <1>1, <2>2
    <3>5. LeastOf(BoardsOf(after.entries), BoardsOf(all), after.capacity, key)
      <4> HIDE DEF after, seen, all
      <4> QED  BY <1>4, <3>1, <3>2
    <3>6. bucket.entries \subseteq all
      BY <1>1
    <3> HIDE DEF after, all, swept
    <3> QED  BY <1>1, <3>1, <3>3, <3>4, <3>5, <3>6 DEF BucketIsSound
  <2> QED  BY <2>9, <2>10
<1> HIDE DEF after
<1> QED  BY <1>10, <1>11, <1>12

\* A sound bucket holds, for each of the least boards, the first record.
LEMMA BucketHoldsLeast ==
    ASSUME NEW bucket, NEW rows, NEW boards, BoardsApart(args.seed, boards),
           BucketIsSound(bucket, rows, boards, args.seed), RowsRead(rows, boards)
    PROVE  BucketIsLeast(bucket, rows)
<1> DEFINE seed == args.seed
           key == BoardKeys(seed, boards)
           seen == BoardsOf(rows)
           held == BoardsOf(bucket.entries)
           Key(b) == SampleKey(seed, <<b>>)
           kept == LeastBy({r.board : r \in rows}, bucket.capacity, Key)
           first(b) == CHOOSE r \in rows :
                          r.board = b /\ \A x \in rows : x.board = b => r.record <= x.record
<1>1. /\ bucket.capacity \in Nat \ {0} /\ bucket.entries \subseteq rows
      /\ \A r \in bucket.entries, x \in rows : x.board = r.board => r.record <= x.record
      /\ LeastOf(held, seen, bucket.capacity, key)
  BY DEF BucketIsSound
<1>2. seen \subseteq boards /\ IsFiniteSet(seen)
  <2>1. seen \subseteq boards
    BY DEF RowsRead, BoardsOf
  <2>2. IsFiniteSet(seen)
    <3> DEFINE f == [r \in rows |-> r.board]
    <3>1. f \in Surjection(rows, seen)
      BY DEF BoardsOf, Surjection
    <3>2. IsFiniteSet(rows)
      BY DEF RowsRead
    <3> HIDE DEF f, seen
    <3> QED  BY <3>1, <3>2, FS_Surjection
  <2> QED  BY <2>1, <2>2
<1>3. \A b \in seen : key[b] = Key(b) /\ key[b] \in Int
  <2>1. \A b \in seen : key[b] = BoardKey(seed, b) /\ key[b] \in Int
    BY <1>2 DEF BoardKeys, BoardsApart
  <2> QED  BY <2>1 DEF BoardKey
<1>4. kept = held
  <2>1. held = {x \in seen : Cardinality({y \in seen : key[y] < key[x]}) < bucket.capacity}
    <3>1. held = Fewest(seen, bucket.capacity, key)
      <4> HIDE DEF held, seen, key
      <4> QED  BY <1>1, <1>2, <1>3, KeptIsLeast
    <3> HIDE DEF held, seen, key
    <3> QED  BY <3>1 DEF Fewest
  <2>2. \A x \in seen : {y \in seen : key[y] < key[x]} = {y \in seen : Key(y) < Key(x)}
    <3> HIDE DEF key, seen
    <3> QED  BY <1>3
  <2>3. kept = {x \in seen : Cardinality({y \in seen : Key(y) < Key(x)}) < bucket.capacity}
    BY DEF LeastBy, BoardsOf
  <2> HIDE DEF held, seen, key, kept, Key
  <2> QED  BY <2>1, <2>2, <2>3
<1>5. ASSUME NEW r \in bucket.entries PROVE Unnumbered(first(r.board)) = Unnumbered(r)
  <2>1. r \in rows /\ \A x \in rows : x.board = r.board => r.record <= x.record
    BY <1>1
  <2>2. /\ first(r.board) \in rows /\ first(r.board).board = r.board
        /\ \A x \in rows : x.board = r.board => first(r.board).record <= x.record
    BY <2>1
  <2> HIDE DEF first
  <2>3. first(r.board).record <= r.record /\ r.record <= first(r.board).record
    BY <2>1, <2>2
  <2>4. first(r.board).record = r.record
    BY <2>1, <2>2, <2>3 DEF RowsRead
  <2> QED  BY <2>1, <2>2, <2>4 DEF RowsRead
<1> HIDE DEF first, kept
<1>6. {Unnumbered(r) : r \in bucket.entries} = {Unnumbered(first(b)) : b \in kept}
  <2>1. kept = {r.board : r \in bucket.entries}
    BY <1>4 DEF BoardsOf
  <2> QED  BY <1>5, <2>1
<1> QED  BY <1>6 DEF BucketIsLeast, Unnumbered, kept, first

-----------------------------------------------------------------------------
(* The two importers.                                                      *)

GameImportIsSound ==
    Running("import_games") =>
        /\ \A source \in unread : source \in Seq(DOMAIN Replay)
        /\ lines \in Seq(DOMAIN Replay)
        /\ SummaryOf(summary, sample, args.seed)

\* A row that was considered is that of a line which was read.
LineRow(line) ==
    [game |-> line.board, ply |-> 0, board |-> line.board, phase |-> line.phase,
     empty |-> line.empty, label |-> line.score, move |-> None,
     split |-> GroupSplit(line.board), record |-> line.record, ordinal |-> 0]

RowsOfLines(rows, read) ==
    /\ IsFiniteSet(rows)
    /\ \A r \in rows : \E line \in read :
          /\ Unnumbered(r) = LineRow(line)
          /\ r.board = line.board /\ r.record = line.record /\ r.phase = line.phase

BoardsRead == {line.board : line \in ScoreLines(args)}
RowsOfBucket(b) == {r \in summary.considered : BoardScores!BucketOf(r) = b}
Buckets == IF args.per_phase # None THEN Phases ELSE {"all"}

BoardImportIsSound ==
    Running("import_board_scores") =>
        /\ \A source \in unread : source \in Seq(ScoreLines(args))
        /\ lines \in Seq(ScoreLines(args))
        /\ summary = [f \in SummaryFields |-> summary[f]]
        /\ RowsOfLines(summary.considered, ScoreLines(args))
        /\ BoardScores!Enabled =>
              /\ sample = [b \in Buckets |-> sample[b]]
              /\ \A b \in Buckets :
                    BucketIsSound(sample[b], RowsOfBucket(b), BoardsRead, args.seed)

ImportsAreSound == GameImportIsSound /\ BoardImportIsSound /\ SplitsAreIsolated

\* Nothing has been read yet.
LEMMA EmptySummary ==
    ASSUME NEW a, Positive(a.max_positions), NEW mode
    PROVE  SummaryOf([opened |-> {}, games |-> 0, candidates |-> 0, considered |-> {}],
                     Import!TopKRows(a.max_positions, mode), a.seed)
<1> DEFINE counted == [opened |-> {}, games |-> 0, candidates |-> 0, considered |-> {}]
           kept == Import!TopKRows(a.max_positions, mode)
<1>1. IsFiniteSet({}) /\ Cardinality({}) = 0
  BY FS_EmptySet
<1>2. RowsConsidered({}, 0)
  BY <1>1 DEF RowsConsidered
<1>3. /\ kept.capacity = a.max_positions /\ kept.mode = mode /\ kept.entries = {} /\ kept.rows = {}
      /\ kept = [f \in SampleFields |-> kept[f]]
  BY DEF Import!TopKRows, SampleFields
<1>4. PositionsOf({}) = {}
  BY DEF PositionsOf
<1> HIDE DEF kept
<1>5. SampleOf(kept, {}, 0, a.seed)
  BY <1>1, <1>3, <1>4 DEF SampleOf, LeastOf, Positive
<1>6. /\ counted = [f \in SummaryFields |-> counted[f]]
      /\ counted.considered = {} /\ counted.candidates = 0
  BY DEF SummaryFields
<1> HIDE DEF counted
<1>7. SummaryOf(counted, kept, a.seed)
  BY <1>2, <1>5, <1>6 DEF SummaryOf
<1> QED  BY <1>7 DEF counted, kept

LEMMA EmptyBucket ==
    ASSUME NEW n \in Nat \ {0}, NEW boards, NEW seed
    PROVE  BucketIsSound(BoardScores!SampleBucket(n), {}, boards, seed)
<1> DEFINE bucket == BoardScores!SampleBucket(n)
<1>1. IsFiniteSet({}) /\ Cardinality({}) = 0
  BY FS_EmptySet
<1>2. /\ bucket = [f \in BucketFields |-> bucket[f]]
      /\ bucket.capacity = n /\ bucket.entries = {} /\ bucket.heap = {}
  BY DEF BoardScores!SampleBucket, BucketFields
<1>3. BoardsOf({}) = {}
  BY DEF BoardsOf
<1> HIDE DEF bucket
<1>4. BucketIsSound(bucket, {}, boards, seed)
  BY <1>1, <1>2, <1>3 DEF BucketIsSound, LeastOf
<1> QED  BY <1>4 DEF bucket

LEMMA ImportsStand ==
    ASSUME ImportsAreSound,
           UNCHANGED <<args, unread, lines, summary, sample, outcome, files>>
    PROVE  ImportsAreSound'
<1>1. GameImportIsSound'
  BY DEF ImportsAreSound, GameImportIsSound, Running
<1>2. BoardImportIsSound'
  BY DEF ImportsAreSound, BoardImportIsSound, Running, ScoreLines, BoardsRead, RowsOfBucket,
     Buckets, BoardScores!BucketOf, BoardScores!Enabled
<1>3. SplitsAreIsolated'
  BY DEF ImportsAreSound, SplitsAreIsolated, Running, Import!BoardCollisions,
     Import!GameCollisions, Import!Cardinality
<1> QED  BY <1>1, <1>2, <1>3 DEF ImportsAreSound

\* Another tool says nothing of imports.
LEMMA NoImport ==
    ASSUME args' # None => args'.tool \notin {"import_games", "import_board_scores"}
    PROVE  ImportsAreSound'
BY DEF ImportsAreSound, GameImportIsSound, BoardImportIsSound, SplitsAreIsolated, Running

LEMMA ImportsBegin == PipelineInv /\ start_tool => ImportsAreSound'
<1> SUFFICES ASSUME PipelineInv, start_tool
             PROVE  ImportsAreSound'
  OBVIOUS
<1>1. plan # <<>> /\ Head(plan) \in DOMAIN CommandLines
  BY DEF start_tool, PipelineInv, InputsAreLegal
<1>2. PICK a \in CommandLines[Head(plan)] :
        CASE a.tool = "import_games" -> Import!start_import(a) /\ UNCHANGED <<flow, trainer>>
          [] a.tool = "import_board_scores" ->
               BoardScores!start_board_scores(a) /\ UNCHANGED <<theoretical, flow, trainer>>
          [] OTHER ->
               /\ args' = a /\ outcome' = None /\ flow' = None
               /\ trainer' = IF a.tool = "train" THEN None ELSE trainer
               /\ unread' = {} /\ lines' = <<>> /\ summary' = None
               /\ sample' = None /\ theoretical' = None
               /\ UNCHANGED files
  BY DEF start_tool
<1>3. Legal(a)
  BY <1>1, <1>2, CommandLinesAssumption
<1>4. CASE a.tool = "import_games"
  <2>1. Import!start_import(a)
    BY <1>2, <1>4
  <2>2. /\ args' = a /\ unread' = a.sources /\ lines' = <<>> /\ outcome' = None
        /\ summary' = [opened |-> {}, games |-> 0, candidates |-> 0, considered |-> {}]
        /\ \E mode : sample' = Import!TopKRows(a.max_positions, mode)
    BY <2>1 DEF Import!start_import
  <2>3. Positive(a.max_positions) /\ \A source \in a.sources : source \in Seq(DOMAIN Replay)
    BY <1>3, <1>4 DEF Legal
  <2>4. SummaryOf(summary', sample', a.seed)
    BY <2>2, <2>3, EmptySummary
  <2>5. GameImportIsSound'
    BY <2>2, <2>3, <2>4 DEF GameImportIsSound
  <2>6. SplitsAreIsolated'
    BY <2>2, NumbersAssumption DEF SplitsAreIsolated
  <2>7. BoardImportIsSound'
    BY <1>4, <2>2 DEF BoardImportIsSound, Running
  <2> QED  BY <2>5, <2>6, <2>7 DEF ImportsAreSound
<1>5. CASE a.tool = "import_board_scores"
  <2>1. BoardScores!start_board_scores(a)
    BY <1>2, <1>5
  <2>2. /\ args' = a /\ unread' = a.sources /\ lines' = <<>>
        /\ summary' = [opened |-> 0, games |-> 0, candidates |-> 0, considered |-> {}]
    BY <2>1 DEF BoardScores!start_board_scores
  <2>3. /\ a.max_positions = None \/ a.per_phase = None
        /\ Positive(a.max_positions) /\ Positive(a.per_phase)
        /\ \A source \in a.sources : source \in Seq(ScoreLines(a))
    BY <1>3, <1>5 DEF Legal, BoardScores!board_score_parse_args
  <2>4. sample' = CASE a.max_positions # None ->
                         [b \in {"all"} |-> BoardScores!SampleBucket(a.max_positions)]
                    [] a.per_phase # None     -> [b \in Phases |-> BoardScores!SampleBucket(a.per_phase)]
                    [] OTHER                  -> {}
    BY <2>1 DEF BoardScores!start_board_scores
  <2>5. RowsOfLines({}, ScoreLines(a))
    BY FS_EmptySet DEF RowsOfLines
  <2>6. summary' = [f \in SummaryFields |-> summary'[f]] /\ summary'.considered = {}
    BY <2>2 DEF SummaryFields
  <2>7. \A b : RowsOfBucket(b)' = {}
    BY <2>6 DEF RowsOfBucket
  <2>8. ASSUME BoardScores!Enabled'
        PROVE  /\ sample' = [b \in Buckets' |-> sample'[b]]
               /\ \A b \in Buckets' : \E n \in Nat \ {0} :
                     sample'[b] = BoardScores!SampleBucket(n)
    <3>1. CASE a.max_positions # None
      <4>1. Buckets' = {"all"} /\ a.max_positions \in Nat \ {0}
        BY <2>2, <2>3, <3>1 DEF Buckets, Positive
      <4>2. sample' = [b \in {"all"} |-> BoardScores!SampleBucket(a.max_positions)]
        BY <2>3, <2>4, <3>1
      <4> QED  BY <4>1, <4>2
    <3>2. CASE a.max_positions = None
      <4>1. a.per_phase # None
        BY <2>2, <2>8, <3>2 DEF BoardScores!Enabled
      <4>2. Buckets' = Phases /\ a.per_phase \in Nat \ {0}
        BY <2>2, <2>3, <4>1 DEF Buckets, Positive
      <4>3. sample' = [b \in Phases |-> BoardScores!SampleBucket(a.per_phase)]
        BY <2>4, <3>2, <4>1
      <4> QED  BY <4>2, <4>3
    <3> QED  BY <3>1, <3>2
  <2>9. ASSUME BoardScores!Enabled', NEW b \in Buckets'
        PROVE  BucketIsSound(sample'[b], RowsOfBucket(b)', BoardsRead', a.seed)
    <3>1. PICK n \in Nat \ {0} : sample'[b] = BoardScores!SampleBucket(n)
      BY <2>8, <2>9
    <3> QED  BY <2>7, <3>1, EmptyBucket
  <2>10. BoardImportIsSound'
    BY <2>2, <2>3, <2>5, <2>6, <2>8, <2>9 DEF BoardImportIsSound
  <2>11. GameImportIsSound' /\ SplitsAreIsolated'
    BY <1>5, <2>2 DEF GameImportIsSound, SplitsAreIsolated, Running
  <2> QED  BY <2>10, <2>11 DEF ImportsAreSound
<1>6. CASE a.tool \notin {"import_games", "import_board_scores"}
  BY <1>2, <1>6, NoImport
<1> QED  BY <1>4, <1>5, <1>6

\* Opening a source or counting a game considers no row.
LEMMA Counts ==
    ASSUME NEW counted, NEW field \in {"opened", "games"}, NEW kept, NEW seed, NEW n,
           SummaryOf(counted, kept, seed)
    PROVE  SummaryOf([counted EXCEPT ![field] = n], kept, seed)
<1> DEFINE now == [counted EXCEPT ![field] = n]
<1>1. /\ now = [f \in SummaryFields |-> now[f]]
      /\ now.considered = counted.considered /\ now.candidates = counted.candidates
  BY DEF SummaryOf, SummaryFields
<1> HIDE DEF now
<1>2. SummaryOf(now, kept, seed)
  BY <1>1 DEF SummaryOf
<1> QED  BY <1>2 DEF now

LEMMA GameIsConsidered ==
    ASSUME NEW t \in DOMAIN Replay, NEW has_rows, KeysApart(args.seed, Positions),
           SummaryOf(summary, sample, args.seed), Import!Considered(Replay[t], has_rows)
    PROVE  SummaryOf(summary', sample', args.seed)
<1> DEFINE after == Import!consider_rows(Replay[t])
<1>1. CASE summary' = after.summary /\ sample' = after.sample
  BY <1>1, ConsiderRowsKeeps
<1>2. CASE summary' = [summary EXCEPT !.games = summary.games + 1] /\ sample' = sample
  <2>1. SummaryOf([summary EXCEPT !["games"] = summary.games + 1], sample, args.seed)
    BY Counts
  <2> QED  BY <1>2, <2>1
<1> QED  BY <1>1, <1>2 DEF Import!Considered, Import!Counted

\* What goes to the table has no board and no game in two splits.
LEMMA SplitRowsAreIsolated ==
    ASSUME SummaryOf(summary, sample, args.seed),
           args.split_policy = "connected-board-game"
    PROVE  /\ Import!BoardCollisions(Import!split_rows) = {}
           /\ Import!GameCollisions(Import!split_rows) = {}
<1>1. PICK n : RowsConsidered(summary.considered, n)
  BY DEF SummaryOf
<1>2. sample.rows \subseteq summary.considered
  BY DEF SummaryOf, SampleOf
<1>3. IsFiniteSet(sample.rows)
  BY <1>1, <1>2, FS_Subset DEF RowsConsidered
<1>4. RowsConsidered(sample.rows, n)
  BY <1>1, <1>2, <1>3 DEF RowsConsidered
<1>5. Import!split_rows = Import!connected_board_game_resplit(sample.rows)
  BY DEF Import!split_rows, Import!apply_split_policy
<1> QED  BY <1>4, <1>5, SplitsShared

LEMMA GameImportKeeps == PipelineInv /\ ImportsAreSound /\ game_import => ImportsAreSound'
<1> SUFFICES ASSUME PipelineInv, ImportsAreSound, game_import
             PROVE  ImportsAreSound'
  OBVIOUS
<1>1. Running("import_games") /\ Import!ImportNext
  BY DEF game_import
<1>2. outcome = None /\ UNCHANGED args
  BY <1>1 DEF Import!ImportNext, Import!process_input, Import!payloads_from_file,
     Import!process_text_stream, Import!process_game, Import!finish_sequences,
     Import!finish_wthor, Import!Reading
<1>3. /\ \A source \in unread : source \in Seq(DOMAIN Replay)
      /\ lines \in Seq(DOMAIN Replay)
      /\ SummaryOf(summary, sample, args.seed)
  BY <1>1 DEF ImportsAreSound, GameImportIsSound
<1>4. KeysApart(args.seed, Positions)
  BY <1>1 DEF Running, PipelineInv, InputsAreLegal, Legal
<1>5. BoardImportIsSound'
  BY <1>1, <1>2 DEF BoardImportIsSound, Running
<1>6. ASSUME NEW source \in unread, unread' = unread \ {source}, Import!open_source(source),
             UNCHANGED <<sample, outcome>>
      PROVE  ImportsAreSound'
  <2>1. lines' = source /\ summary' = [summary EXCEPT !.opened = summary.opened \cup {source}]
    BY <1>6 DEF Import!open_source
  <2>2. SummaryOf([summary EXCEPT !["opened"] = summary.opened \cup {source}], sample, args.seed)
    BY <1>3, Counts
  <2>3. GameImportIsSound'
    BY <1>2, <1>3, <1>6, <2>1, <2>2 DEF GameImportIsSound
  <2>4. SplitsAreIsolated'
    BY <1>2, <1>6, NumbersAssumption DEF SplitsAreIsolated
  <2> QED  BY <1>5, <2>3, <2>4 DEF ImportsAreSound
<1>7. CASE Import!process_input
  <2>1. PICK source \in unread :
            /\ unread' = unread \ {source}
            /\ Import!open_source(source) \/ UNCHANGED <<lines, summary>>
    BY <1>7 DEF Import!process_input
  <2>2. UNCHANGED <<sample, outcome>>
    BY <1>7 DEF Import!process_input
  <2>3. CASE Import!open_source(source)
    BY <1>6, <2>1, <2>2, <2>3
  <2>4. CASE UNCHANGED <<lines, summary>>
    <3>1. GameImportIsSound'
      BY <1>2, <1>3, <2>1, <2>2, <2>4 DEF GameImportIsSound
    <3>2. SplitsAreIsolated'
      BY <1>2, <2>2, NumbersAssumption DEF SplitsAreIsolated
    <3> QED  BY <1>5, <3>1, <3>2 DEF ImportsAreSound
  <2> QED  BY <2>1, <2>3, <2>4
<1>8. CASE Import!payloads_from_file
  BY <1>6, <1>8 DEF Import!payloads_from_file
<1>9. ASSUME lines # <<>>, lines' = Tail(lines), UNCHANGED unread,
             SummaryOf(summary', sample', args.seed),
             outcome' \in {None, "conflicting-labels"}
      PROVE  ImportsAreSound'
  <2>1. lines' \in Seq(DOMAIN Replay)
    BY <1>3, <1>9
  <2>2. GameImportIsSound'
    BY <1>2, <1>3, <1>9, <2>1 DEF GameImportIsSound
  <2>3. SplitsAreIsolated'
    BY <1>2, <1>9, NumbersAssumption DEF SplitsAreIsolated
  <2> QED  BY <1>5, <2>2, <2>3 DEF ImportsAreSound
<1>10. CASE Import!process_text_stream
  <2>1. /\ lines # <<>> /\ lines' = Tail(lines) /\ UNCHANGED <<unread, outcome>>
        /\ \/ Import!Considered(Replay[Head(lines)], Replay[Head(lines)].accepted)
           \/ UNCHANGED <<summary, sample>>
    BY <1>10 DEF Import!process_text_stream, Import!Reading
  <2>2. Head(lines) \in DOMAIN Replay
    BY <1>3, <2>1
  <2>3. SummaryOf(summary', sample', args.seed)
    <3>1. CASE Import!Considered(Replay[Head(lines)], Replay[Head(lines)].accepted)
      <4> DEFINE has_rows == Replay[Head(lines)].accepted
      <4>1. Import!Considered(Replay[Head(lines)], has_rows)
        BY <3>1
      <4> HIDE DEF has_rows
      <4> QED  BY <1>3, <1>4, <2>2, <4>1, GameIsConsidered
    <3>2. CASE UNCHANGED <<summary, sample>>
      BY <1>3, <3>2
    <3> QED  BY <2>1, <3>1, <3>2
  <2> QED  BY <1>2, <1>9, <2>1, <2>3
<1>11. CASE Import!process_game
  <2> DEFINE game == Replay[Head(lines)]
             has_rows == game.accepted /\ game.terminal
  <2>1. lines # <<>> /\ lines' = Tail(lines) /\ UNCHANGED unread
    BY <1>11 DEF Import!process_game, Import!Reading
  <2>2. outcome' \in {None, "conflicting-labels"}
    <3>1. CASE ~game.accepted
      BY <1>2, <1>11, <3>1 DEF Import!process_game
    <3>2. CASE game.accepted /\ Import!conflicting_wld(game)
      BY <1>11, <3>2 DEF Import!process_game
    <3>3. CASE game.accepted /\ ~Import!conflicting_wld(game)
      BY <1>2, <1>11, <3>3 DEF Import!process_game
    <3> QED  BY <3>1, <3>2, <3>3
  <2>3. Import!Considered(Replay[Head(lines)], has_rows)
    BY <1>11 DEF Import!process_game
  <2>4. Head(lines) \in DOMAIN Replay
    BY <1>3, <2>1
  <2> HIDE DEF has_rows
  <2>5. SummaryOf(summary', sample', args.seed)
    BY <1>3, <1>4, <2>3, <2>4, GameIsConsidered
  <2> QED  BY <1>9, <2>1, <2>2, <2>5
<1>12. ASSUME UNCHANGED <<unread, lines, summary, sample>>, SplitsAreIsolated'
       PROVE  ImportsAreSound'
  <2>1. GameImportIsSound'
    BY <1>2, <1>3, <1>12 DEF GameImportIsSound
  <2> QED  BY <1>5, <1>12, <2>1 DEF ImportsAreSound
<1>13. "normalized" \in DOMAIN files
  BY DEF PipelineInv, InputsAreLegal, Artifacts
<1>14. ASSUME args.split_policy = "connected-board-game"
       PROVE  /\ Import!BoardCollisions(Import!split_rows) = {}
              /\ Import!GameCollisions(Import!split_rows) = {}
  BY <1>3, <1>14, SplitRowsAreIsolated
<1>15. ASSUME \/ outcome' \notin {"ok", "connected-board-game-failed"}
              \/ outcome' = "ok" /\ files'.normalized = Import!split_rows
              \/ args.split_policy # "connected-board-game"
       PROVE  SplitsAreIsolated'
  <2>1. CASE args.split_policy # "connected-board-game"
    BY <1>2, <2>1 DEF SplitsAreIsolated
  <2>2. CASE outcome' \notin {"ok", "connected-board-game-failed"}
    BY <2>2 DEF SplitsAreIsolated
  <2>3. CASE /\ args.split_policy = "connected-board-game"
             /\ outcome' = "ok" /\ files'.normalized = Import!split_rows
    <3>1. /\ Import!BoardCollisions(files'.normalized) = {}
          /\ Import!GameCollisions(files'.normalized) = {}
      BY <1>14, <2>3
    <3> QED  BY <2>3, <3>1 DEF SplitsAreIsolated, Import!BoardCollisions, Import!GameCollisions,
             Import!Cardinality
  <2> QED  BY <1>15, <2>1, <2>2, <2>3
<1>16. CASE Import!finish_sequences
  <2>1. UNCHANGED <<unread, lines, summary, sample>>
    BY <1>16 DEF Import!finish_sequences
  <2>2. \/ outcome' \in {"no-positions-emitted", "exact-board-leakage"}
        \/ /\ outcome' = "connected-board-game-failed"
           /\ args.split_policy = "connected-board-game"
           /\ \/ Import!BoardCollisions(Import!split_rows) # {}
              \/ Import!GameCollisions(Import!split_rows) # {}
        \/ outcome' = "ok" /\ files'.normalized = Import!split_rows
    BY <1>13, <1>16 DEF Import!finish_sequences, Import!refuse, Import!leaking_boards
  <2> QED  BY <1>12, <1>14, <1>15, <2>1, <2>2
<1>17. CASE Import!finish_wthor
  <2>1. UNCHANGED <<unread, lines, summary, sample>>
    BY <1>17 DEF Import!finish_wthor
  <2>2. \/ outcome' \in {"inconsistent-policy", "exact-board-leakage"}
        \/ outcome' = "ok" /\ files'.normalized = Import!split_rows
    BY <1>13, <1>17 DEF Import!finish_wthor, Import!refuse, Import!write_theoretical_wld,
       Import!write_normalized
  <2> QED  BY <1>12, <1>15, <2>1, <2>2
<1> QED  BY <1>1, <1>7, <1>8, <1>10, <1>11, <1>16, <1>17 DEF Import!ImportNext

LinesAreLegal ==
    /\ \A line \in ScoreLines(args) :
          line.board \in Int /\ line.record \in Int /\ line.phase \in Phases
    /\ \A x, y \in ScoreLines(args) : x.record = y.record => x = y

LEMMA BoardsReadApart ==
    ASSUME KeysApart(args.seed, {<<line.board>> : line \in ScoreLines(args)})
    PROVE  BoardsApart(args.seed, BoardsRead)
<1>1. {<<b>> : b \in BoardsRead} = {<<line.board>> : line \in ScoreLines(args)}
  <2>1. ASSUME NEW p \in {<<b>> : b \in BoardsRead}
        PROVE  p \in {<<line.board>> : line \in ScoreLines(args)}
    BY DEF BoardsRead
  <2>2. ASSUME NEW p \in {<<line.board>> : line \in ScoreLines(args)}
        PROVE  p \in {<<b>> : b \in BoardsRead}
    BY DEF BoardsRead
  <2> QED  BY <2>1, <2>2
<1>2. KeysApart(args.seed, {<<b>> : b \in BoardsRead})
  BY <1>1
<1> DEFINE boards == BoardsRead
           seed == args.seed
<1>3. KeysApart(seed, {<<b>> : b \in boards})
  BY <1>2
<1> HIDE DEF boards, seed
<1>4. BoardsApart(seed, boards)
  BY <1>3, BoardsKeysApart
<1> QED  BY <1>4 DEF boards, seed

\* Rows with the same record are of the same line.
LEMMA LinesTellApart ==
    ASSUME LinesAreLegal, NEW rows, RowsOfLines(rows, ScoreLines(args))
    PROVE  RowsRead(rows, BoardsRead)
<1>1. ASSUME NEW r \in rows
      PROVE  r.board \in BoardsRead /\ r.board \in Int /\ r.record \in Int
  <2>1. PICK line \in ScoreLines(args) : r.board = line.board /\ r.record = line.record
    BY DEF RowsOfLines
  <2> QED  BY <2>1 DEF BoardsRead, LinesAreLegal
<1>2. ASSUME NEW r \in rows, NEW x \in rows, r.record = x.record
      PROVE  Unnumbered(r) = Unnumbered(x)
  <2>1. PICK line \in ScoreLines(args) : Unnumbered(r) = LineRow(line) /\ r.record = line.record
    BY DEF RowsOfLines
  <2>2. PICK other \in ScoreLines(args) :
            Unnumbered(x) = LineRow(other) /\ x.record = other.record
    BY DEF RowsOfLines
  <2>3. line = other
    BY <1>2, <2>1, <2>2 DEF LinesAreLegal
  <2> QED  BY <2>1, <2>2, <2>3
<1> QED  BY <1>1, <1>2 DEF RowsRead, RowsOfLines

LEMMA SomeOfLines ==
    ASSUME NEW rows, NEW some \in SUBSET rows, NEW read, RowsOfLines(rows, read)
    PROVE  RowsOfLines(some, read)
BY FS_Subset DEF RowsOfLines

\* The row of a line, whatever its number.
LEMMA CandidateOfLine ==
    ASSUME NEW line
    PROVE  LET row == BoardScores!Candidate(line)
           IN  /\ Unnumbered(row) = LineRow(line)
               /\ row.board = line.board /\ row.record = line.record /\ row.phase = line.phase
BY DEF BoardScores!Candidate, Unnumbered, LineRow

LEMMA LineKeeps ==
    ASSUME Running("import_board_scores"), LinesAreLegal, BoardsApart(args.seed, BoardsRead),
           BoardImportIsSound, BoardScores!consider_line
    PROVE  BoardImportIsSound'
<1>1. /\ lines # <<>> /\ lines' = Tail(lines) /\ UNCHANGED <<args, unread>>
  BY DEF BoardScores!consider_line
<1>2. /\ \A source \in unread : source \in Seq(ScoreLines(args))
      /\ lines \in Seq(ScoreLines(args))
      /\ summary = [f \in SummaryFields |-> summary[f]]
      /\ RowsOfLines(summary.considered, ScoreLines(args))
      /\ BoardScores!Enabled =>
            /\ sample = [b \in Buckets |-> sample[b]]
            /\ \A b \in Buckets :
                  BucketIsSound(sample[b], RowsOfBucket(b), BoardsRead, args.seed)
  BY DEF BoardImportIsSound
<1>3. lines' \in Seq(ScoreLines(args)) /\ Head(lines) \in ScoreLines(args)
  BY <1>1, <1>2
<1>4. /\ ScoreLines(args') = ScoreLines(args) /\ Buckets' = Buckets
      /\ BoardsRead' = BoardsRead /\ BoardScores!Enabled' = BoardScores!Enabled
  BY <1>1 DEF ScoreLines, Buckets, BoardsRead, BoardScores!Enabled
<1>5. CASE UNCHANGED <<summary, sample>>
  <2>1. \A b : RowsOfBucket(b)' = RowsOfBucket(b)
    BY <1>1, <1>5 DEF RowsOfBucket, BoardScores!BucketOf
  <2> QED  BY <1>1, <1>2, <1>3, <1>4, <1>5, <2>1 DEF BoardImportIsSound
<1>6. CASE ~UNCHANGED <<summary, sample>>
  <2> DEFINE line == Head(lines)
             row == BoardScores!Candidate(line)
             b0 == BoardScores!BucketOf(row)
             now == RowsOfBucket(b0) \cup {row}
             considered == summary.considered \cup {row}
  <2>1. /\ summary' = [summary EXCEPT !.candidates = @ + 1, !.considered = @ \cup {row}]
        /\ BoardScores!Enabled =>
              sample' = [sample EXCEPT ![b0] = BoardScores!consider_board(@, row, args.seed)]
    BY <1>6 DEF BoardScores!consider_line
  <2>2. summary' = [f \in SummaryFields |-> summary'[f]] /\ summary'.considered = considered
    BY <1>2, <2>1 DEF SummaryFields
  <2>3. /\ Unnumbered(row) = LineRow(line)
        /\ row.board = line.board /\ row.record = line.record /\ row.phase = line.phase
    BY CandidateOfLine
  <2>4. b0 \in Buckets
    BY <1>3, <2>3 DEF BoardScores!BucketOf, Buckets, LinesAreLegal
  <2> HIDE DEF row
  <2>5. RowsOfLines(considered, ScoreLines(args))
    <3>1. IsFiniteSet(considered)
      BY <1>2, FS_AddElement DEF RowsOfLines
    <3>2. ASSUME NEW r \in considered
          PROVE  \E l \in ScoreLines(args) :
                    /\ Unnumbered(r) = LineRow(l)
                    /\ r.board = l.board /\ r.record = l.record /\ r.phase = l.phase
      <4>1. CASE r = row
        BY <1>3, <2>3, <4>1
      <4>2. CASE r \in summary.considered
        BY <1>2, <4>2 DEF RowsOfLines
      <4> QED  BY <4>1, <4>2
    <3> QED  BY <3>1, <3>2 DEF RowsOfLines
  <2>6. ASSUME NEW b
        PROVE  RowsOfBucket(b)' = IF b = b0 THEN now ELSE RowsOfBucket(b)
    <3>1. \A r : BoardScores!BucketOf(r)' = BoardScores!BucketOf(r)
      BY <1>1 DEF BoardScores!BucketOf
    <3>2. RowsOfBucket(b)' = {r \in considered : BoardScores!BucketOf(r) = b}
      BY <2>2, <3>1 DEF RowsOfBucket
    <3> QED  BY <3>2 DEF RowsOfBucket
  <2>7. RowsRead(now, BoardsRead)
    <3>1. now \in SUBSET considered
      BY DEF RowsOfBucket
    <3> HIDE DEF now, considered
    <3>2. RowsOfLines(now, ScoreLines(args))
      BY <2>5, <3>1, SomeOfLines
    <3> QED  BY <3>2, LinesTellApart
  <2>8. ASSUME BoardScores!Enabled
        PROVE  /\ sample' = [b \in Buckets |-> sample'[b]]
               /\ \A b \in Buckets :
                     BucketIsSound(sample'[b], RowsOfBucket(b)', BoardsRead, args.seed)
    <3> DEFINE held == sample[b0]
               seen == RowsOfBucket(b0)
               boards == BoardsRead
               seed == args.seed
               after == BoardScores!consider_board(held, row, seed)
    <3>1. BucketIsSound(after, now, boards, seed)
      <4>1. BucketIsSound(held, seen, boards, seed) /\ BoardsApart(seed, boards)
        BY <1>2, <2>4, <2>8
      <4>2. RowsRead(seen \cup {row}, boards)
        BY <2>7
      <4> HIDE DEF held, seen, boards, seed
      <4>3. BucketIsSound(BoardScores!consider_board(held, row, seed), seen \cup {row},
                          boards, seed)
        BY <4>1, <4>2, ConsiderBoardKeeps
      <4> QED  BY <4>3 DEF seen
    <3>2. sample' = [sample EXCEPT ![b0] = after]
      BY <2>1, <2>8
    <3>3. /\ sample' = [b \in Buckets |-> sample'[b]]
          /\ \A b \in Buckets : sample'[b] = IF b = b0 THEN after ELSE sample[b]
      <4> HIDE DEF after, b0
      <4> QED  BY <1>2, <2>4, <2>8, <3>2
    <3> HIDE DEF after, b0, now
    <3>4. ASSUME NEW b \in Buckets
          PROVE  BucketIsSound(sample'[b], RowsOfBucket(b)', BoardsRead, args.seed)
      <4>1. CASE b = b0
        BY <2>6, <3>1, <3>3, <4>1
      <4>2. CASE b # b0
        <5>1. RowsOfBucket(b)' = RowsOfBucket(b) /\ sample'[b] = sample[b]
          BY <2>6, <3>3, <4>2
        <5> QED  BY <1>2, <2>8, <5>1
      <4> QED  BY <4>1, <4>2
    <3> QED  BY <3>3, <3>4
  <2> HIDE DEF considered, b0, now
  <2> QED  BY <1>1, <1>2, <1>3, <1>4, <2>2, <2>5, <2>8 DEF BoardImportIsSound
<1> QED  BY <1>5, <1>6

LEMMA BoardImportKeeps ==
    PipelineInv /\ ImportsAreSound /\ board_score_import => ImportsAreSound'
<1> SUFFICES ASSUME PipelineInv, ImportsAreSound, board_score_import
             PROVE  ImportsAreSound'
  OBVIOUS
<1>1. Running("import_board_scores") /\ BoardScores!BoardScoreNext /\ BoardImportIsSound
  BY DEF board_score_import, ImportsAreSound
<1>2. UNCHANGED args
  BY <1>1 DEF BoardScores!BoardScoreNext, BoardScores!open_member, BoardScores!consider_line,
     BoardScores!replace_output, BoardScores!write_report
<1>3. Legal(args)
  BY <1>1 DEF PipelineInv, InputsAreLegal, Running
<1>4. LinesAreLegal /\ KeysApart(args.seed, {<<line.board>> : line \in ScoreLines(args)})
  BY <1>1, <1>3 DEF Legal, Running, LinesAreLegal
<1>5. BoardsApart(args.seed, BoardsRead)
  BY <1>4, BoardsReadApart
<1>6. GameImportIsSound' /\ SplitsAreIsolated'
  BY <1>1, <1>2 DEF GameImportIsSound, SplitsAreIsolated, Running
<1>7. /\ ScoreLines(args') = ScoreLines(args) /\ Buckets' = Buckets
      /\ BoardsRead' = BoardsRead /\ BoardScores!Enabled' = BoardScores!Enabled
  BY <1>2 DEF ScoreLines, Buckets, BoardsRead, BoardScores!Enabled
<1>8. CASE BoardScores!open_member
  <2>1. PICK source \in unread :
            /\ unread' = unread \ {source} /\ lines' = source
            /\ summary' = [summary EXCEPT !.opened = summary.opened + 1]
            /\ UNCHANGED sample
    BY <1>8 DEF BoardScores!open_member
  <2>2. /\ summary' = [f \in SummaryFields |-> summary'[f]]
        /\ summary'.considered = summary.considered
    BY <1>1, <2>1 DEF BoardImportIsSound, SummaryFields
  <2>3. \A b : RowsOfBucket(b)' = RowsOfBucket(b)
    BY <1>2, <2>2 DEF RowsOfBucket, BoardScores!BucketOf
  <2>4. BoardImportIsSound'
    BY <1>1, <1>2, <1>7, <2>1, <2>2, <2>3 DEF BoardImportIsSound
  <2> QED  BY <1>6, <2>4 DEF ImportsAreSound
<1>9. CASE BoardScores!consider_line
  BY <1>1, <1>4, <1>5, <1>6, <1>9, LineKeeps DEF ImportsAreSound
<1>10. CASE BoardScores!replace_output \/ BoardScores!write_report
  <2>1. UNCHANGED <<unread, lines, summary, sample>>
    BY <1>10 DEF BoardScores!replace_output, BoardScores!write_report
  <2>2. \A b : RowsOfBucket(b)' = RowsOfBucket(b)
    BY <1>2, <2>1 DEF RowsOfBucket, BoardScores!BucketOf
  <2>3. BoardImportIsSound'
    BY <1>1, <1>2, <1>7, <2>1, <2>2 DEF BoardImportIsSound
  <2> QED  BY <1>6, <2>3 DEF ImportsAreSound
<1> QED  BY <1>1, <1>8, <1>9, <1>10 DEF BoardScores!BoardScoreNext

\* What happens beside the importers.
LEMMA ImportsKeep == PipelineInv /\ ImportsAreSound /\ [Next]_vars => ImportsAreSound'
<1> SUFFICES ASSUME PipelineInv, ImportsAreSound, [Next]_vars
             PROVE  ImportsAreSound'
  OBVIOUS
<1>1. CASE start_tool
  BY <1>1, ImportsBegin
<1>2. CASE game_import
  BY <1>2, GameImportKeeps
<1>3. CASE board_score_import
  BY <1>3, BoardImportKeeps
<1>4. CASE selection
  <2>1. args.tool \in {"select_phases", "select_low_empty", "select_hard"} /\ UNCHANGED args
    BY <1>4 DEF selection, Selection!SelectionNext, Selection!start_selection, Selection!augment,
       Selection!finish_selection, Selection!select_low_empty, Selection!select_hard
  <2> QED  BY <2>1, NoImport
<1>5. CASE labelling
  <2>1. /\ args.tool \in {"search_teacher", "exact_teacher", "partition", "merge", "overlay",
                          "derive", "apply"}
        /\ UNCHANGED args
    BY <1>5 DEF labelling, Labels!LabelNext, Labels!search_teacher, Labels!exact_teacher,
       Labels!partition_selected, Labels!merge_teacher_outputs,
       Labels!overlay_search_move_teacher, Labels!derive_exact_root_labels, Labels!apply_overlay
  <2> QED  BY <2>1, NoImport
<1>6. CASE training
  <2>1. UNCHANGED args
    BY <1>6 DEF training, Trainer!TrainerNext, Trainer!build_dataset, Trainer!start_training,
       Trainer!train_epoch, Trainer!write_weights, Trainer!write_payload, Trainer!write_manifest,
       Trainer!refuse_export, Trainer!export_killed, Trainer!import_artifact
  <2>2. args.tool \in {"build_dataset", "train", "export_v0a", "export_v0b", "import_artifact"}
    <3>1. CASE Trainer!build_dataset \/ Trainer!import_artifact
      BY <3>1 DEF Trainer!build_dataset, Trainer!import_artifact
    <3>2. CASE Trainer!start_training \/ Trainer!train_epoch \/ Trainer!write_weights
      BY <3>2 DEF Trainer!start_training, Trainer!train_epoch, Trainer!write_weights
    <3>3. CASE Trainer!write_payload \/ Trainer!write_manifest \/ Trainer!refuse_export
      BY <3>3 DEF Trainer!write_payload, Trainer!write_manifest, Trainer!refuse_export
    <3>4. CASE Trainer!export_killed
      BY <3>4 DEF Trainer!export_killed, PipelineInv, ExportsAreOfWeights, ExportingNow, ExportTools
    <3> QED  BY <1>6, <3>1, <3>2, <3>3, <3>4 DEF training, Trainer!TrainerNext
  <2> QED  BY <2>1, <2>2, NoImport
<1>7. CASE caching \/ running \/ UNCHANGED vars
  <2>1. UNCHANGED <<args, unread, lines, summary, sample, outcome, files>>
    BY <1>7 DEF caching, running, vars, pipelineState, importState
  <2> QED  BY <2>1, ImportsStand
<1> QED  BY <1>1, <1>2, <1>3, <1>4, <1>5, <1>6, <1>7 DEF Next

-----------------------------------------------------------------------------
(* Tables of labels.                                                       *)

\* Every table of moves that is there has its table of children.
PairsAreWhole ==
    \A t \in DOMAIN ChildTable :
        files[t] # None => WholeTables(files[t], files[ChildTable[t]])

LabelsInv == PairsAreWhole /\ OneLabelPerChild

LEMMA TablesOfChildren ==
    /\ DOMAIN ChildTable = {"moves", "deep_moves", "exact_moves"}
    /\ \A t \in DOMAIN ChildTable : t \in Tables /\ ChildTable[t] \in Tables
    /\ \A t, u \in DOMAIN ChildTable :
          t # ChildTable[u] /\ (t # u => ChildTable[t] # ChildTable[u])
BY DEF ChildTable, Tables

TablesKept == \A t \in Tables : files'[t] = files[t]
TableTools == {"search_teacher", "overlay", "merge"}

\* What a step leaves alone stays whole, and only these tools promise more.
LEMMA PairsStand == PairsAreWhole /\ TablesKept => PairsAreWhole'
BY TablesOfChildren DEF PairsAreWhole, TablesKept

LEMMA OtherTables ==
    ASSUME LabelsInv, TablesKept, args'.tool \notin TableTools
    PROVE  LabelsInv'
BY PairsStand DEF LabelsInv, OneLabelPerChild, Finished, Running, TableTools

LEMMA LabelsStand == LabelsInv /\ UNCHANGED <<args, outcome, files>> => LabelsInv'
BY DEF LabelsInv, PairsAreWhole, OneLabelPerChild, Finished, Running

LEMMA PairWritten ==
    ASSUME PairsAreWhole, NEW t \in DOMAIN ChildTable,
           \A u \in Tables \ {t, ChildTable[t]} : files'[u] = files[u],
           WholeTables(files'[t], files'[ChildTable[t]])
    PROVE  PairsAreWhole'
<1> SUFFICES ASSUME NEW u \in DOMAIN ChildTable, files'[u] # None
             PROVE  WholeTables(files'[u], files'[ChildTable[u]])
  BY DEF PairsAreWhole
<1>1. CASE u = t
  BY <1>1
<1>2. CASE u # t
  <2>1. files'[u] = files[u] /\ files'[ChildTable[u]] = files[ChildTable[u]]
    BY <1>2, TablesOfChildren
  <2> QED  BY <2>1 DEF PairsAreWhole
<1> QED  BY <1>1, <1>2

\* The rows of a teacher, one for each root and move.
TeacherRow(row, root, m) ==
    /\ row.root = root.board /\ row.record = root.ordinal /\ row.split = root.split
    /\ row.move = m[1] /\ row.child_board = m[2] /\ row.score = -row.child_label

LEMMA RowsOfSearch ==
    ASSUME NEW roots, NEW depth
    PROVE  /\ \A row \in Labels!search_moves(roots, depth) :
                 \E root \in roots : \E m \in Moves(root.board) :
                     TeacherRow(row, root, m)
           /\ \A row \in Labels!search_moves(roots, depth) :
                 /\ row.child = <<"board", row.child_board>>
                 /\ row.child_label = SearchScore(depth, row.child_board)
           /\ \A root \in roots : \A m \in Moves(root.board) :
                 \E row \in Labels!search_moves(roots, depth) :
                     TeacherRow(row, root, m)
<1> DEFINE Pairs == UNION {{<<root, m>> : m \in Moves(root.board)} : root \in roots}
           Row(pair) ==
               [root |-> pair[1].board, record |-> pair[1].ordinal, split |-> pair[1].split,
                phase |-> pair[1].phase, move |-> pair[2][1],
                child |-> Labels!CanonicalId(pair[1], pair[2]), child_board |-> pair[2][2],
                child_label |-> SearchScore(depth, pair[2][2]),
                score |-> -SearchScore(depth, pair[2][2]),
                child_baseline |-> BaselineScore(pair[2][2]),
                margin |-> Labels!Best(pair[1], LAMBDA b : SearchScore(depth, b))
                               + SearchScore(depth, pair[2][2]),
                provenance |-> <<"search", depth>>]
<1>1. Labels!search_moves(roots, depth) = {Row(pair) : pair \in Pairs}
  BY DEF Labels!search_moves, Labels!move_rows
<1>2. \A pair \in Pairs : \E root \in roots : \E m \in Moves(root.board) : pair = <<root, m>>
  OBVIOUS
<1>3. \A root \in roots : \A m \in Moves(root.board) : <<root, m>> \in Pairs
  OBVIOUS
<1>4. \A root \in roots : \A m \in Moves(root.board) :
        TeacherRow(Row(<<root, m>>), root, m)
  BY DEF TeacherRow, Labels!CanonicalId
<1>7. \A pair : /\ Row(pair).child = <<"board", Row(pair).child_board>>
                 /\ Row(pair).child_label = SearchScore(depth, Row(pair).child_board)
  BY DEF Labels!CanonicalId
<1> HIDE DEF Pairs, Row
<1>5. ASSUME NEW row \in Labels!search_moves(roots, depth)
      PROVE  \E root \in roots : \E m \in Moves(root.board) :
                 TeacherRow(row, root, m)
  <2>1. PICK pair \in Pairs : row = Row(pair)
    BY <1>1
  <2> QED  BY <2>1, <1>2, <1>4
<1>6. ASSUME NEW root \in roots, NEW m \in Moves(root.board)
      PROVE  \E row \in Labels!search_moves(roots, depth) :
                 TeacherRow(row, root, m)
  <2>1. Row(<<root, m>>) \in Labels!search_moves(roots, depth)
    BY <1>1, <1>3
  <2> QED  BY <2>1, <1>4
<1>8. \A row \in Labels!search_moves(roots, depth) : \E pair \in Pairs : row = Row(pair)
  BY <1>1
<1> QED  BY <1>5, <1>6, <1>7, <1>8

LEMMA RowsOfExact ==
    ASSUME NEW roots
    PROVE  /\ \A row \in Labels!exact_moves(roots) :
                 \E root \in roots : \E m \in Moves(root.board) :
                     TeacherRow(row, root, m)
           /\ \A root \in roots : \A m \in Moves(root.board) :
                 \E row \in Labels!exact_moves(roots) :
                     TeacherRow(row, root, m)
<1> DEFINE Pairs == UNION {{<<root, m>> : m \in Moves(root.board)} : root \in roots}
           Row(pair) ==
               [root |-> pair[1].board, record |-> pair[1].ordinal, split |-> pair[1].split,
                phase |-> pair[1].phase, move |-> pair[2][1],
                child |-> Labels!RootMoveId(pair[1], pair[2]), child_board |-> pair[2][2],
                child_label |-> ExactScore(pair[2][2]), score |-> -ExactScore(pair[2][2]),
                child_baseline |-> BaselineScore(pair[2][2]),
                margin |-> Labels!Best(pair[1], ExactScore) + ExactScore(pair[2][2]),
                provenance |-> <<"exact", 0>>]
<1>1. Labels!exact_moves(roots) = {Row(pair) : pair \in Pairs}
  BY DEF Labels!exact_moves, Labels!move_rows
<1>2. \A pair \in Pairs : \E root \in roots : \E m \in Moves(root.board) : pair = <<root, m>>
  OBVIOUS
<1>3. \A root \in roots : \A m \in Moves(root.board) : <<root, m>> \in Pairs
  OBVIOUS
<1>4. \A root \in roots : \A m \in Moves(root.board) :
        TeacherRow(Row(<<root, m>>), root, m)
  BY DEF TeacherRow, Labels!RootMoveId
<1> HIDE DEF Pairs, Row
<1>5. ASSUME NEW row \in Labels!exact_moves(roots)
      PROVE  \E root \in roots : \E m \in Moves(root.board) :
                 TeacherRow(row, root, m)
  <2>1. PICK pair \in Pairs : row = Row(pair)
    BY <1>1
  <2> QED  BY <2>1, <1>2, <1>4
<1>6. ASSUME NEW root \in roots, NEW m \in Moves(root.board)
      PROVE  \E row \in Labels!exact_moves(roots) :
                 TeacherRow(row, root, m)
  <2>1. Row(<<root, m>>) \in Labels!exact_moves(roots)
    BY <1>1, <1>3
  <2> QED  BY <2>1, <1>4
<1> QED  BY <1>5, <1>6

\* What a teacher writes is whole, however it names the children.
LEMMA TeacherIsWhole ==
    ASSUME NEW roots, NEW moves,
           \A row \in moves : \E root \in roots : \E m \in Moves(root.board) :
               TeacherRow(row, root, m),
           \A root \in roots : \A m \in Moves(root.board) : \E row \in moves :
               TeacherRow(row, root, m)
    PROVE  WholeTables(moves, {Labels!ChildRow(row) : row \in moves})
<1> DEFINE children == {Labels!ChildRow(row) : row \in moves}
<1>1. \A row \in moves : Labels!ChildRow(row) \in children
  OBVIOUS
<1>2. \A x \in children : \E row \in moves : x = Labels!ChildRow(row)
  OBVIOUS
<1>3. \A row : /\ Labels!ChildRow(row).record = row.child
               /\ Labels!ChildRow(row).label = row.child_label
               /\ Labels!ChildRow(row).split = row.split
  BY DEF Labels!ChildRow
<1> HIDE DEF children
<1>4. ASSUME NEW row \in moves
      PROVE  /\ \E m \in Moves(row.root) : row.move = m[1] /\ row.child_board = m[2]
             /\ row.score = -row.child_label
             /\ \E x \in children :
                   x.record = row.child /\ x.label = row.child_label /\ x.split = row.split
  <2>1. PICK root \in roots : \E m \in Moves(root.board) : TeacherRow(row, root, m)
    OBVIOUS
  <2>2. PICK m \in Moves(root.board) : TeacherRow(row, root, m)
    BY <2>1
  <2>3. /\ row.root = root.board /\ row.move = m[1] /\ row.child_board = m[2]
        /\ row.score = -row.child_label
    BY <2>2 DEF TeacherRow
  <2>4. m \in Moves(row.root)
    BY <2>3
  <2>5. Labels!ChildRow(row) \in children
    BY <1>1
  <2> QED  BY <1>3, <2>3, <2>4, <2>5
<1>5. ASSUME NEW r \in Labels!LabelledRoots(moves), NEW m \in Moves(r)
      PROVE  \E row \in moves : row.root = r /\ row.move = m[1] /\ row.child_board = m[2]
  <2>1. PICK x \in moves : x.root = r
    BY DEF Labels!LabelledRoots
  <2>2. PICK root \in roots : root.board = r
    BY <2>1 DEF TeacherRow
  <2>3. PICK row \in moves : TeacherRow(row, root, m)
    BY <2>2
  <2> QED  BY <2>2, <2>3 DEF TeacherRow
<1>6. {x.record : x \in children} = {row.child : row \in moves}
  BY <1>1, <1>2, <1>3
<1>7. WholeTables(moves, children)
  BY <1>4, <1>5, <1>6 DEF WholeTables
<1> QED  BY <1>7 DEF children

\* A child with one row has one label.
LEMMA OneRowOneLabel ==
    ASSUME NEW moves, NEW children,
           WholeTables(moves, children), ~Labels!conflicting_children(children)
    PROVE  ConsistentLabels(moves, children)
<1> SUFFICES ASSUME NEW x \in moves, NEW y \in moves, x.child = y.child
             PROVE  x.score = y.score /\ x.split = y.split
  BY DEF ConsistentLabels
<1>1. PICK c \in children :
          c.record = x.child /\ c.label = x.child_label /\ c.split = x.split
  BY DEF WholeTables
<1>2. PICK d \in children :
          d.record = y.child /\ d.label = y.child_label /\ d.split = y.split
  BY DEF WholeTables
<1>3. c = d
  BY <1>1, <1>2 DEF Labels!conflicting_children
<1>4. x.score = -x.child_label /\ y.score = -y.child_label
  BY DEF WholeTables
<1> QED  BY <1>1, <1>2, <1>3, <1>4

\* Two tables side by side are as whole as each of them.
LEMMA SideBySide ==
    ASSUME NEW early, NEW late, NEW first, NEW second,
           WholeTables(early, first), WholeTables(late, second)
    PROVE  WholeTables(early \cup late, first \cup second)
<1>1. ASSUME NEW row \in early \cup late
      PROVE  /\ \E m \in Moves(row.root) : row.move = m[1] /\ row.child_board = m[2]
             /\ row.score = -row.child_label
             /\ \E x \in first \cup second :
                   x.record = row.child /\ x.label = row.child_label /\ x.split = row.split
  <2>1. CASE row \in early
    BY <2>1 DEF WholeTables
  <2>2. CASE row \in late
    BY <2>2 DEF WholeTables
  <2> QED  BY <2>1, <2>2
<1>2. ASSUME NEW root \in Labels!LabelledRoots(early \cup late), NEW m \in Moves(root)
      PROVE  \E row \in early \cup late :
                 row.root = root /\ row.move = m[1] /\ row.child_board = m[2]
  <2>1. CASE root \in Labels!LabelledRoots(early)
    BY <2>1 DEF WholeTables
  <2>2. CASE root \in Labels!LabelledRoots(late)
    BY <2>2 DEF WholeTables
  <2> QED  BY <2>1, <2>2 DEF Labels!LabelledRoots
<1>3. {x.record : x \in first \cup second} = {row.child : row \in early \cup late}
  <2>1. /\ {x.record : x \in first} = {row.child : row \in early}
        /\ {x.record : x \in second} = {row.child : row \in late}
    BY DEF WholeTables
  <2>2. {x.record : x \in first \cup second}
            = {x.record : x \in first} \cup {x.record : x \in second}
    OBVIOUS
  <2>3. {row.child : row \in early \cup late}
            = {row.child : row \in early} \cup {row.child : row \in late}
    OBVIOUS
  <2> QED  BY <2>1, <2>2, <2>3
<1> QED  BY <1>1, <1>2, <1>3 DEF WholeTables

\* The search teacher scores a child board once and for all, and refuses
\* roots that lead to it from different splits.
LEMMA SearchKeepsLabels ==
    ASSUME PipelineInv, LabelsInv, args # None, Labels!search_teacher
    PROVE  LabelsInv'
<1> DEFINE t == args.move_teacher_out
           c == args.child_normalized_out
           roots == files[args.normalized_tsv]
           moves == Labels!search_moves(roots, args.depth)
           children == {Labels!ChildRow(row) : row \in moves}
<1>1. args.tool = "search_teacher" /\ args' = args
  BY DEF Labels!search_teacher
<1>2. t \in DOMAIN ChildTable /\ c = ChildTable[t] /\ t \in Tables /\ c \in Tables /\ t # c
  BY <1>1, TablesOfChildren DEF PipelineInv, InputsAreLegal, Legal
<1>3. Tables \subseteq DOMAIN files
  BY DEF PipelineInv, InputsAreLegal
<1>4. CASE outcome' = "roots-refused" /\ UNCHANGED files
  <2>1. PairsAreWhole'
    BY <1>4, PairsStand DEF LabelsInv, TablesKept
  <2> QED  BY <1>4, <2>1 DEF LabelsInv, OneLabelPerChild, Finished, Running
<1>5. CASE ~Labels!child_split_collisions(moves) /\ Labels!Labelled(moves)
  <2>1. files' = [files EXCEPT ![t] = moves, ![c] = children]
    BY <1>5 DEF Labels!Labelled, Labels!Write
  <2>2. /\ files'[t] = moves /\ files'[c] = children
        /\ \A u \in Tables \ {t, c} : files'[u] = files[u]
    BY <1>2, <1>3, <2>1
  <2>3. WholeTables(moves, children)
    BY RowsOfSearch, TeacherIsWhole
  <2>4. ConsistentLabels(moves, children)
    <3>1. ASSUME NEW x \in moves, NEW y \in moves, x.child = y.child
          PROVE  x.score = y.score /\ x.split = y.split
      <4> HIDE DEF moves, children
      <4>1. /\ x.child = <<"board", x.child_board>> /\ y.child = <<"board", y.child_board>>
            /\ x.child_label = SearchScore(args.depth, x.child_board)
            /\ y.child_label = SearchScore(args.depth, y.child_board)
        BY RowsOfSearch DEF moves
      <4>2. x.score = -x.child_label /\ y.score = -y.child_label
        BY <2>3 DEF WholeTables
      <4>3. x.child_board = y.child_board
        <5>1. <<"board", x.child_board>> = <<"board", y.child_board>>
          BY <3>1, <4>1
        <5> QED  BY <5>1
      <4>4. x.split = y.split
        BY <1>5, <3>1 DEF Labels!child_split_collisions
      <4> QED  BY <4>1, <4>2, <4>3, <4>4
    <3> QED  BY <2>3, <3>1 DEF ConsistentLabels
  <2>5. PairsAreWhole'
    BY <1>2, <2>2, <2>3, PairWritten DEF LabelsInv
  <2>6. ConsistentLabels(files'[t], files'[c])
    BY <2>2, <2>4
  <2> HIDE DEF moves, children
  <2> QED  BY <1>1, <2>5, <2>6 DEF LabelsInv, OneLabelPerChild, Finished, Running
<1> HIDE DEF t, c
<1> QED  BY <1>4, <1>5 DEF Labels!search_teacher, Labels!Refuse

LEMMA ExactKeepsLabels ==
    ASSUME PipelineInv, LabelsInv, args # None, Labels!exact_teacher
    PROVE  LabelsInv'
<1> DEFINE t == args.move_teacher_out
           c == args.child_normalized_out
           roots == files[args.normalized_tsv]
           moves == Labels!exact_moves(roots)
           children == {Labels!ChildRow(row) : row \in moves}
<1>1. args.tool = "exact_teacher" /\ args' = args
  BY DEF Labels!exact_teacher
<1>2. t \in DOMAIN ChildTable /\ c = ChildTable[t] /\ t \in Tables /\ c \in Tables /\ t # c
  BY <1>1, TablesOfChildren DEF PipelineInv, InputsAreLegal, Legal
<1>3. Tables \subseteq DOMAIN files
  BY DEF PipelineInv, InputsAreLegal
<1>4. PairsAreWhole'
  <2>1. CASE UNCHANGED files
    BY <2>1, PairsStand DEF LabelsInv, TablesKept
  <2>2. CASE Labels!Labelled(moves)
    <3>1. files' = [files EXCEPT ![t] = moves, ![c] = children]
      BY <2>2 DEF Labels!Labelled, Labels!Write
    <3>2. /\ files'[t] = moves /\ files'[c] = children
          /\ \A u \in Tables \ {t, c} : files'[u] = files[u]
      BY <1>2, <1>3, <3>1
    <3>3. WholeTables(moves, children)
      BY RowsOfExact, TeacherIsWhole
    <3> QED  BY <1>2, <3>2, <3>3, PairWritten DEF LabelsInv
  <2> QED  BY <2>1, <2>2 DEF Labels!exact_teacher, Labels!Refuse
<1> QED  BY <1>1, <1>4 DEF LabelsInv, OneLabelPerChild, Finished, Running

\* The join takes no two rows for a child.
LEMMA MergeKeepsLabels ==
    ASSUME PipelineInv, LabelsInv, args # None, Labels!merge_teacher_outputs
    PROVE  LabelsInv'
<1> DEFINE moves == files.moves \cup files.exact_moves
           children == files.children \cup files.exact_children
<1>1. args.tool = "merge" /\ args' = args
  BY DEF Labels!merge_teacher_outputs
<1>2. /\ "merged_children" \in DOMAIN files \ Tables
      /\ Tables \subseteq DOMAIN files
  BY DEF PipelineInv, InputsAreLegal, Artifacts, Tables
<1>3. CASE outcome' = "teachers-not-merged" /\ UNCHANGED files
  <2>1. PairsAreWhole'
    BY <1>3, PairsStand DEF LabelsInv, TablesKept
  <2> QED  BY <1>3, <2>1 DEF LabelsInv, OneLabelPerChild, Finished, Running
<1>4. CASE /\ ~Labels!conflicting_children(children)
           /\ files' = [files EXCEPT !.merged_children = children]
  <2>1. TablesKept /\ files'.merged_children = children
    BY <1>2, <1>4 DEF TablesKept
  <2>2. /\ files'.moves = files.moves /\ files'.exact_moves = files.exact_moves
    BY <2>1 DEF TablesKept, Tables
  <2>3. WholeTables(files.moves, files.children)
    BY TablesOfChildren DEF LabelsInv, PairsAreWhole, ChildTable, Labels!merge_teacher_outputs
  <2>4. WholeTables(files.exact_moves, files.exact_children)
    BY TablesOfChildren DEF LabelsInv, PairsAreWhole, ChildTable, Labels!merge_teacher_outputs
  <2>5. ConsistentLabels(moves, children)
    BY <1>4, <2>3, <2>4, SideBySide, OneRowOneLabel
  <2>6. ConsistentLabels((files.moves \cup files.exact_moves)', files'.merged_children)
    BY <2>1, <2>2, <2>5
  <2> HIDE DEF moves, children
  <2> QED  BY <1>1, <2>1, <2>6, PairsStand DEF LabelsInv, OneLabelPerChild, Finished, Running
<1> QED  BY <1>3, <1>4 DEF Labels!merge_teacher_outputs, Labels!Refuse

\* What is retained of a table is whole roots of it, none of the overlay's,
\* with no label that the overlay disagrees with.
LEMMA RetainedRows ==
    ASSUME NEW base, NEW overlay
    PROVE  LET retained == Labels!retained_base_moves(base, overlay)
           IN  /\ retained \subseteq base
               /\ \A x \in retained, y \in overlay :
                      x.child = y.child => x.child_label = y.child_label
               /\ \A x \in retained, y \in base : x.root = y.root => y \in retained
<1> DEFINE candidates == {row \in base : row.root \notin Labels!LabelledRoots(overlay)}
           conflicting == Labels!conflicting_base_roots(candidates, overlay)
           retained == Labels!retained_base_moves(base, overlay)
<1>1. \A x : x \in retained <=>
          x \in base /\ x.root \notin Labels!LabelledRoots(overlay) /\ x.root \notin conflicting
  BY DEF Labels!retained_base_moves
<1>2. ASSUME NEW x \in retained, NEW y \in overlay, x.child = y.child
      PROVE  x.child_label = y.child_label
  <2>1. SUFFICES ASSUME x.child_label # y.child_label
                 PROVE  FALSE
    OBVIOUS
  <2>2. x \in candidates
    BY <1>1
  <2>3. x \in {row \in candidates :
                   \E z \in overlay : z.child = row.child /\ z.child_label # row.child_label}
    BY <1>2, <2>1, <2>2
  <2>4. x.root \in conflicting
    BY <2>3 DEF Labels!conflicting_base_roots, Labels!LabelledRoots
  <2> QED  BY <1>1, <2>4
<1> HIDE DEF conflicting, retained
<1>3. /\ retained \subseteq base
      /\ \A x \in retained, y \in base : x.root = y.root => y \in retained
  BY <1>1
<1> QED  BY <1>2, <1>3 DEF retained

\* The children that go with the merged rows.
LEMMA MergedChildren ==
    ASSUME NEW base, NEW overlay, NEW shallow, NEW deep,
           WholeTables(base, shallow), WholeTables(overlay, deep),
           ~Labels!conflicting_children(deep), ~Labels!different_children(shallow, deep)
    PROVE  LET merged == Labels!retained_base_moves(base, overlay) \cup overlay
               children == Labels!merged_children(merged, shallow, deep)
           IN  /\ \A row \in merged : \E x \in children :
                     x.record = row.child /\ x.label = row.child_label /\ x.split = row.split
               /\ \A x \in children : \E row \in merged : row.child = x.record
<1> DEFINE retained == Labels!retained_base_moves(base, overlay)
           merged == retained \cup overlay
           children == Labels!merged_children(merged, shallow, deep)
<1>1. /\ retained \subseteq base
      /\ \A x \in retained, y \in overlay :
             x.child = y.child => x.child_label = y.child_label
  BY RetainedRows
<1> HIDE DEF retained
<1>2. \A x : x \in children <=>
          /\ x \in deep \/ (x \in shallow /\ \A y \in deep : y.record # x.record)
          /\ \E row \in merged : row.child = x.record
  BY DEF Labels!merged_children
<1> HIDE DEF children
<1>3. ASSUME NEW row \in overlay
      PROVE  \E x \in children :
                 x.record = row.child /\ x.label = row.child_label /\ x.split = row.split
  <2>1. PICK x \in deep :
            x.record = row.child /\ x.label = row.child_label /\ x.split = row.split
    BY DEF WholeTables
  <2> QED  BY <1>2, <2>1
<1>4. ASSUME NEW row \in retained
      PROVE  \E x \in children :
                 x.record = row.child /\ x.label = row.child_label /\ x.split = row.split
  <2>1. PICK x \in shallow :
            x.record = row.child /\ x.label = row.child_label /\ x.split = row.split
    BY <1>1 DEF WholeTables
  <2>2. CASE \A y \in deep : y.record # x.record
    BY <1>2, <2>1, <2>2
  <2>3. CASE \E y \in deep : y.record = x.record
    <3>1. PICK y \in deep : y.record = x.record
      BY <2>3
    <3>2. y.record \in {over.child : over \in overlay}
      <4>1. {z.record : z \in deep} = {over.child : over \in overlay}
        BY DEF WholeTables
      <4>2. y.record \in {z.record : z \in deep}
        OBVIOUS
      <4> QED  BY <4>1, <4>2
    <3>3. PICK over \in overlay : over.child = y.record
      BY <3>2
    <3>4. PICK z \in deep : z.record = over.child /\ z.label = over.child_label
      BY DEF WholeTables
    <3>5. over.child_label = row.child_label
      BY <1>1, <2>1, <3>1, <3>3
    <3>6. z.split = x.split
      BY <2>1, <3>1, <3>3, <3>4 DEF Labels!different_children
    <3>7. z.record = row.child
      BY <2>1, <3>1, <3>3, <3>4
    <3>8. z \in children
      BY <1>2, <3>7
    <3> QED  BY <2>1, <3>4, <3>5, <3>6, <3>7, <3>8
  <2> QED  BY <2>2, <2>3
<1> QED  BY <1>2, <1>3, <1>4 DEF children, retained

\* The overlay leaves one label of each child, for of a root it does not
\* replace it keeps all rows or none.
LEMMA OverlayIsConsistent ==
    ASSUME NEW base, NEW overlay, NEW shallow, NEW deep,
           WholeTables(base, shallow), WholeTables(overlay, deep),
           ~Labels!conflicting_children(shallow), ~Labels!conflicting_children(deep),
           ~Labels!different_children(shallow, deep)
    PROVE  LET merged == Labels!retained_base_moves(base, overlay) \cup overlay
               children == Labels!merged_children(merged, shallow, deep)
           IN  ConsistentLabels(merged, children)
<1> DEFINE retained == Labels!retained_base_moves(base, overlay)
           merged == retained \cup overlay
           children == Labels!merged_children(merged, shallow, deep)
<1>1. /\ retained \subseteq base
      /\ \A x \in retained, y \in overlay :
             x.child = y.child => x.child_label = y.child_label
      /\ \A x \in retained, y \in base : x.root = y.root => y \in retained
  BY RetainedRows
<1>2. /\ \A row \in merged : \E x \in children :
            x.record = row.child /\ x.label = row.child_label /\ x.split = row.split
      /\ \A x \in children : \E row \in merged : row.child = x.record
  BY MergedChildren
<1>3. ConsistentLabels(base, shallow) /\ ConsistentLabels(overlay, deep)
  BY OneRowOneLabel
<1> HIDE DEF retained, children
<1>4. ASSUME NEW x \in retained, NEW y \in overlay, x.child = y.child
      PROVE  x.score = y.score /\ x.split = y.split
  <2>1. PICK c \in shallow : c.record = x.child /\ c.split = x.split
    BY <1>1 DEF WholeTables
  <2>2. PICK d \in deep : d.record = y.child /\ d.split = y.split
    BY DEF WholeTables
  <2>3. c.split = d.split
    BY <1>4, <2>1, <2>2 DEF Labels!different_children
  <2>4. x.score = -x.child_label /\ y.score = -y.child_label
    BY <1>1 DEF WholeTables
  <2>5. x.child_label = y.child_label
    BY <1>1, <1>4
  <2> QED  BY <2>1, <2>2, <2>3, <2>4, <2>5
<1>5. ASSUME NEW x \in merged, NEW y \in merged, x.child = y.child
      PROVE  x.score = y.score /\ x.split = y.split
  <2>1. CASE x \in retained /\ y \in retained
    BY <1>1, <1>3, <1>5, <2>1 DEF ConsistentLabels
  <2>2. CASE x \in overlay /\ y \in overlay
    BY <1>3, <1>5, <2>2 DEF ConsistentLabels
  <2>3. CASE x \in retained /\ y \in overlay
    BY <1>4, <1>5, <2>3
  <2>4. CASE x \in overlay /\ y \in retained
    BY <1>4, <1>5, <2>4
  <2> QED  BY <2>1, <2>2, <2>3, <2>4
<1>6. ASSUME NEW row \in merged
      PROVE  /\ \E m \in Moves(row.root) : row.move = m[1] /\ row.child_board = m[2]
             /\ row.score = -row.child_label
  <2>1. CASE row \in retained
    BY <1>1, <2>1 DEF WholeTables
  <2>2. CASE row \in overlay
    BY <2>2 DEF WholeTables
  <2> QED  BY <2>1, <2>2
<1>7. ASSUME NEW root \in Labels!LabelledRoots(merged), NEW m \in Moves(root)
      PROVE  \E row \in merged : row.root = root /\ row.move = m[1] /\ row.child_board = m[2]
  <2>1. PICK x \in merged : x.root = root
    BY DEF Labels!LabelledRoots
  <2>2. CASE x \in overlay
    <3>1. root \in Labels!LabelledRoots(overlay)
      BY <2>1, <2>2 DEF Labels!LabelledRoots
    <3> QED  BY <3>1 DEF WholeTables
  <2>3. CASE x \in retained
    <3>1. root \in Labels!LabelledRoots(base)
      BY <1>1, <2>1, <2>3 DEF Labels!LabelledRoots
    <3>2. PICK row \in base :
              row.root = root /\ row.move = m[1] /\ row.child_board = m[2]
      BY <3>1 DEF WholeTables
    <3>3. row \in retained
      BY <1>1, <2>1, <2>3, <3>2
    <3> QED  BY <3>2, <3>3
  <2> QED  BY <2>2, <2>3
<1>8. {x.record : x \in children} = {row.child : row \in merged}
  <2>1. ASSUME NEW row \in merged
        PROVE  row.child \in {x.record : x \in children}
    <3>1. PICK x \in children : x.record = row.child
      BY <1>2
    <3> QED  BY <3>1
  <2>2. ASSUME NEW x \in children
        PROVE  x.record \in {row.child : row \in merged}
    <3>1. PICK row \in merged : row.child = x.record
      BY <1>2
    <3> QED  BY <3>1
  <2> HIDE DEF merged
  <2> QED  BY <2>1, <2>2
<1> HIDE DEF merged
<1>9. WholeTables(merged, children)
  BY <1>2, <1>6, <1>7, <1>8 DEF WholeTables
<1>10. ConsistentLabels(merged, children)
  BY <1>5, <1>9 DEF ConsistentLabels
<1> QED  BY <1>10 DEF merged, children, retained

LEMMA OverlayKeepsLabels ==
    ASSUME PipelineInv, LabelsInv, args # None, Labels!overlay_search_move_teacher
    PROVE  LabelsInv'
<1> DEFINE retained == Labels!retained_base_moves(files.moves, files.deep_moves)
           merged == retained \cup files.deep_moves
           children == Labels!merged_children(merged, files.children, files.deep_children)
<1>1. args.tool = "overlay" /\ args' = args
  BY DEF Labels!overlay_search_move_teacher
<1>2. Tables \subseteq DOMAIN files
  BY DEF PipelineInv, InputsAreLegal
<1>3. CASE outcome' = "inconsistent-overlay" /\ UNCHANGED files
  <2>1. PairsAreWhole'
    BY <1>3, PairsStand DEF LabelsInv, TablesKept
  <2> QED  BY <1>3, <2>1 DEF LabelsInv, OneLabelPerChild, Finished, Running
<1>4. CASE /\ ~Labels!conflicting_children(files.children)
           /\ ~Labels!conflicting_children(files.deep_children)
           /\ ~Labels!different_children(files.children, files.deep_children)
           /\ files' = [files EXCEPT !.moves = merged, !.retained = retained,
                                     !.children = children]
  <2>1. /\ WholeTables(files.moves, files.children)
        /\ WholeTables(files.deep_moves, files.deep_children)
    BY TablesOfChildren
    DEF LabelsInv, PairsAreWhole, ChildTable, Labels!overlay_search_move_teacher
  <2>2. ConsistentLabels(merged, children)
    BY <1>4, <2>1, OverlayIsConsistent
  <2> HIDE DEF retained, merged, children
  <2>3. "retained" \notin Tables /\ "moves" \in Tables /\ "children" \in Tables
    BY DEF Tables
  <2>4. /\ files'["moves"] = merged /\ files'["children"] = children
        /\ \A u \in Tables \ {"moves", "children"} : files'[u] = files[u]
    BY <1>2, <1>4, <2>3
  <2>5. "moves" \in DOMAIN ChildTable /\ ChildTable["moves"] = "children"
    BY DEF ChildTable
  <2>6. WholeTables(files'["moves"], files'["children"])
    BY <2>2, <2>4 DEF ConsistentLabels
  <2>7. PairsAreWhole'
    BY <2>4, <2>5, <2>6, PairWritten DEF LabelsInv
  <2>8. ConsistentLabels(files'.moves, files'.children)
    BY <2>2, <2>4
  <2> QED  BY <1>1, <2>7, <2>8 DEF LabelsInv, OneLabelPerChild, Finished, Running
<1> QED  BY <1>3, <1>4 DEF Labels!overlay_search_move_teacher, Labels!Refuse, Labels!Write

\* The tools that read tables leave them as they are.
LEMMA LabellingKeepsLabels == PipelineInv /\ LabelsInv /\ labelling => LabelsInv'
<1> SUFFICES ASSUME PipelineInv, LabelsInv, args # None, Labels!LabelNext
             PROVE  LabelsInv'
  BY DEF labelling
<1>1. /\ {"early_selected", "late_selected", "labels", "labelled"} \cap Tables = {}
      /\ Tables \subseteq DOMAIN files
  BY DEF PipelineInv, InputsAreLegal, Tables
<1>2. CASE Labels!partition_selected
  <2>1. args' = args /\ args.tool = "partition"
    BY <1>2 DEF Labels!partition_selected
  <2>2. TablesKept
    BY <1>1, <1>2 DEF TablesKept, Labels!partition_selected, Labels!Refuse, Labels!Write
  <2> QED  BY <2>1, <2>2, OtherTables DEF TableTools
<1>3. CASE Labels!derive_exact_root_labels
  <2>1. args' = args /\ args.tool = "derive"
    BY <1>3 DEF Labels!derive_exact_root_labels
  <2>2. TablesKept
    BY <1>1, <1>3 DEF TablesKept, Labels!derive_exact_root_labels, Labels!Refuse, Labels!Write
  <2> QED  BY <2>1, <2>2, OtherTables DEF TableTools
<1>4. CASE Labels!apply_overlay
  <2>1. args' = args /\ args.tool = "apply"
    BY <1>4 DEF Labels!apply_overlay
  <2>2. TablesKept
    BY <1>1, <1>4 DEF TablesKept, Labels!apply_overlay, Labels!Refuse
  <2> QED  BY <2>1, <2>2, OtherTables DEF TableTools
<1> QED  BY <1>2, <1>3, <1>4, SearchKeepsLabels, ExactKeepsLabels, MergeKeepsLabels,
            OverlayKeepsLabels DEF Labels!LabelNext

LEMMA StartKeepsLabels == LabelsInv /\ start_tool => LabelsInv'
<1> SUFFICES ASSUME LabelsInv, start_tool
             PROVE  LabelsInv'
  OBVIOUS
<1>1. PICK a \in CommandLines[Head(plan)] :
        CASE a.tool = "import_games" -> Import!start_import(a) /\ UNCHANGED <<flow, trainer>>
          [] a.tool = "import_board_scores" ->
               BoardScores!start_board_scores(a) /\ UNCHANGED <<theoretical, flow, trainer>>
          [] OTHER ->
               /\ args' = a /\ outcome' = None /\ flow' = None
               /\ trainer' = IF a.tool = "train" THEN None ELSE trainer
               /\ unread' = {} /\ lines' = <<>> /\ summary' = None
               /\ sample' = None /\ theoretical' = None
               /\ UNCHANGED files
  BY DEF start_tool
<1>2. CASE a.tool = "import_games"
  <2>1. args' = a /\ UNCHANGED files
    BY <1>1, <1>2 DEF Import!start_import
  <2> QED  BY <1>2, <2>1, OtherTables DEF TablesKept, TableTools
<1>3. CASE a.tool = "import_board_scores"
  <2>1. args' = a /\ UNCHANGED files
    BY <1>1, <1>3 DEF BoardScores!start_board_scores
  <2> QED  BY <1>3, <2>1, OtherTables DEF TablesKept, TableTools
<1>4. CASE a.tool \notin {"import_games", "import_board_scores"}
  <2>1. outcome' # "ok" /\ UNCHANGED files
    BY <1>1, <1>4, NumbersAssumption
  <2>2. PairsAreWhole'
    BY <2>1, PairsStand DEF LabelsInv, TablesKept
  <2> QED  BY <2>1, <2>2 DEF LabelsInv, OneLabelPerChild, Finished
<1> QED  BY <1>2, <1>3, <1>4

\* No importer, selection or trainer writes a table.
LEMMA ImportsLeaveTables ==
    PipelineInv /\ (game_import \/ board_score_import) => TablesKept
<1> SUFFICES ASSUME PipelineInv, game_import \/ board_score_import
             PROVE  TablesKept
  OBVIOUS
<1>1. /\ {"normalized", "report", "theoretical", "policy"} \cap Tables = {}
      /\ Tables \subseteq DOMAIN files
  BY DEF PipelineInv, InputsAreLegal, Tables
<1>2. CASE game_import
  <2>1. CASE UNCHANGED files
    BY <2>1 DEF TablesKept
  <2>2. CASE Import!finish_sequences
    BY <1>1, <2>2 DEF TablesKept, Import!finish_sequences, Import!refuse
  <2>3. CASE Import!finish_wthor
    BY <1>1, <2>3 DEF TablesKept, Tables, Import!finish_wthor, Import!refuse,
       Import!write_theoretical_wld, Import!write_normalized
  <2> QED  BY <1>2, <2>1, <2>2, <2>3 DEF game_import, Import!ImportNext, Import!process_input,
              Import!payloads_from_file, Import!process_text_stream, Import!process_game
<1>3. CASE board_score_import
  <2>1. CASE UNCHANGED files
    BY <2>1 DEF TablesKept
  <2>2. CASE BoardScores!replace_output
    BY <1>1, <2>2 DEF TablesKept, BoardScores!replace_output
  <2>3. CASE BoardScores!write_report
    BY <1>1, <2>3 DEF TablesKept, BoardScores!write_report
  <2> QED  BY <1>3, <2>1, <2>2, <2>3 DEF board_score_import, BoardScores!BoardScoreNext,
              BoardScores!open_member, BoardScores!consider_line
<1> QED  BY <1>2, <1>3

LEMMA SelectionLeavesTables ==
    PipelineInv /\ selection =>
        TablesKept /\ args.tool \notin TableTools /\ UNCHANGED args
<1> SUFFICES ASSUME PipelineInv, Selection!SelectionNext
             PROVE  TablesKept /\ args.tool \notin TableTools /\ UNCHANGED args
  BY DEF selection
<1>1. {"roots", "hard"} \cap Tables = {} /\ Tables \subseteq DOMAIN files
  BY DEF PipelineInv, InputsAreLegal, Tables
<1>2. args.tool \notin TableTools /\ UNCHANGED args
  BY DEF TableTools, Selection!SelectionNext, Selection!start_selection, Selection!augment,
     Selection!finish_selection, Selection!select_low_empty, Selection!select_hard
<1>3. TablesKept
  <2>1. CASE UNCHANGED files
    BY <2>1 DEF TablesKept
  <2>2. CASE Selection!finish_selection
    BY <1>1, <2>2 DEF TablesKept, Selection!finish_selection, Selection!Report
  <2>3. CASE Selection!select_low_empty
    BY <1>1, <2>3 DEF TablesKept, Selection!select_low_empty, Selection!Report, Selection!Finish
  <2>4. CASE Selection!select_hard
    BY <1>1, <2>4 DEF TablesKept, Selection!select_hard, Selection!Report, Selection!Finish
  <2> QED  BY <2>1, <2>2, <2>3, <2>4 DEF Selection!SelectionNext, Selection!start_selection,
              Selection!augment, Selection!Report
<1> QED  BY <1>2, <1>3

LEMMA TrainingLeavesTables ==
    PipelineInv /\ training =>
        TablesKept /\ args.tool \notin TableTools /\ UNCHANGED args
<1> SUFFICES ASSUME PipelineInv, Trainer!TrainerNext
             PROVE  TablesKept /\ args.tool \notin TableTools /\ UNCHANGED args
  BY DEF training
<1>1. {"dataset", "weights", "trained", "payload", "manifest", "exporting", "source", "initial"}
          \cap Tables = {} /\ Tables \subseteq DOMAIN files
  BY DEF PipelineInv, InputsAreLegal, Tables
<1>2. CASE Trainer!build_dataset
  BY <1>1, <1>2 DEF TableTools, TablesKept, Trainer!build_dataset, Trainer!Save
<1>3. CASE Trainer!start_training \/ Trainer!train_epoch
  BY <1>3 DEF TableTools, TablesKept, Trainer!start_training, Trainer!train_epoch, Trainer!Fail
<1>4. CASE Trainer!write_weights
  BY <1>1, <1>4 DEF TableTools, TablesKept, Trainer!write_weights, Trainer!Save
<1>5. CASE Trainer!write_payload
  BY <1>1, <1>5 DEF TableTools, TablesKept, Trainer!write_payload
<1>6. CASE Trainer!write_manifest
  BY <1>1, <1>6 DEF TableTools, TablesKept, Trainer!write_manifest, Trainer!Save
<1>7. CASE Trainer!refuse_export
  BY <1>7 DEF TableTools, TablesKept, Trainer!refuse_export, Trainer!Fail
<1>8. CASE Trainer!export_killed
  <2>1. args.tool \in ExportTools
    BY <1>8 DEF Trainer!export_killed, PipelineInv, ExportsAreOfWeights, ExportingNow
  <2> QED  BY <1>1, <1>8, <2>1 DEF TableTools, TablesKept, ExportTools, Trainer!export_killed
<1>9. CASE Trainer!import_artifact
  BY <1>1, <1>9 DEF TableTools, TablesKept, Trainer!import_artifact, Trainer!Fail, Trainer!Save
<1> QED  BY <1>2, <1>3, <1>4, <1>5, <1>6, <1>7, <1>8, <1>9 DEF Trainer!TrainerNext

LEMMA LabelsKeep == PipelineInv /\ LabelsInv /\ [Next]_vars => LabelsInv'
<1> SUFFICES ASSUME PipelineInv, LabelsInv, [Next]_vars
             PROVE  LabelsInv'
  OBVIOUS
<1>1. CASE start_tool
  BY <1>1, StartKeepsLabels
<1>2. CASE game_import \/ board_score_import
  <2>1. TablesKept
    BY <1>2, ImportsLeaveTables
  <2>2. args.tool \in {"import_games", "import_board_scores"}
    BY <1>2 DEF game_import, board_score_import, Running
  <2>3. UNCHANGED args
    <3>1. CASE game_import
      BY <3>1 DEF game_import, Import!ImportNext, Import!process_input, Import!payloads_from_file,
         Import!process_text_stream, Import!process_game, Import!finish_sequences,
         Import!finish_wthor, Import!Reading
    <3>2. CASE board_score_import
      BY <3>2 DEF board_score_import, BoardScores!BoardScoreNext, BoardScores!open_member,
         BoardScores!consider_line, BoardScores!replace_output, BoardScores!write_report
    <3> QED  BY <1>2, <3>1, <3>2
  <2> QED  BY <2>1, <2>2, <2>3, OtherTables DEF TableTools
<1>3. CASE selection
  BY <1>3, SelectionLeavesTables, OtherTables
<1>4. CASE labelling
  BY <1>4, LabellingKeepsLabels
<1>5. CASE training
  BY <1>5, TrainingLeavesTables, OtherTables
<1>6. CASE caching \/ running \/ UNCHANGED vars
  BY <1>6, LabelsStand DEF caching, running, vars, pipelineState
<1> QED  BY <1>1, <1>2, <1>3, <1>4, <1>5, <1>6 DEF Next

-----------------------------------------------------------------------------
(* The whole.                                                              *)

IInv ==
    /\ PipelineInv /\ FinishedIsTrained /\ ImportsAreSound /\ LabelsInv /\ RunsAreWhole
    /\ campaign = NoCampaigns \/ CacheInv

LEMMA CampaignsStand ==
    (campaign = NoCampaigns \/ CacheInv) /\ UNCHANGED <<cache, campaign>>
        => (campaign = NoCampaigns \/ CacheInv)'
<1> SUFFICES ASSUME campaign = NoCampaigns \/ CacheInv, cacheVars' = cacheVars
             PROVE  (campaign = NoCampaigns \/ CacheInv)'
  BY DEF cacheVars
<1>1. CASE campaign = NoCampaigns
  BY <1>1 DEF cacheVars, NoCampaigns
<1>2. CASE CacheInv
  BY <1>2, CacheStep
<1> QED  BY <1>1, <1>2

\* A training that is refused is no finished one.
LEMMA FinishedTrains == FinishedIsTrained /\ [Next]_vars => FinishedIsTrained'
<1> SUFFICES ASSUME FinishedIsTrained, [Next]_vars
             PROVE  FinishedIsTrained'
  OBVIOUS
<1> USE DEF pipelineState
<1>1. CASE start_tool
  <2>1. PICK a \in CommandLines[Head(plan)] :
          CASE a.tool = "import_games" -> Import!start_import(a) /\ UNCHANGED <<flow, trainer>>
            [] a.tool = "import_board_scores" ->
                 BoardScores!start_board_scores(a) /\ UNCHANGED <<theoretical, flow, trainer>>
            [] OTHER ->
                 /\ args' = a /\ outcome' = None /\ flow' = None
                 /\ trainer' = IF a.tool = "train" THEN None ELSE trainer
                 /\ unread' = {} /\ lines' = <<>> /\ summary' = None
                 /\ sample' = None /\ theoretical' = None
                 /\ UNCHANGED files
    BY <1>1 DEF start_tool
  <2>2. CASE a.tool = "import_games"
    BY <2>1, <2>2 DEF Import!start_import, FinishedIsTrained, Finished, Running
  <2>3. CASE a.tool = "import_board_scores"
    BY <2>1, <2>3 DEF BoardScores!start_board_scores, FinishedIsTrained, Finished, Running
  <2>4. CASE a.tool \notin {"import_games", "import_board_scores"}
    BY <2>1, <2>4, NumbersAssumption DEF FinishedIsTrained, Finished
  <2> QED  BY <2>2, <2>3, <2>4
<1>2. CASE game_import
  <2>1. UNCHANGED args
    BY <1>2 DEF game_import, Import!ImportNext, Import!process_input, Import!payloads_from_file,
       Import!process_text_stream, Import!process_game, Import!finish_sequences,
       Import!finish_wthor, Import!Reading
  <2> QED  BY <1>2, <2>1 DEF game_import, FinishedIsTrained, Finished, Running
<1>3. CASE board_score_import
  <2>1. UNCHANGED args
    BY <1>3 DEF board_score_import, BoardScores!BoardScoreNext, BoardScores!open_member,
       BoardScores!consider_line, BoardScores!replace_output, BoardScores!write_report
  <2> QED  BY <1>3, <2>1 DEF board_score_import, FinishedIsTrained, Finished, Running
<1>4. CASE selection
  <2>1. args.tool \in {"select_phases", "select_low_empty", "select_hard"} /\ UNCHANGED args
    BY <1>4 DEF selection, Selection!SelectionNext, Selection!start_selection, Selection!augment,
       Selection!finish_selection, Selection!select_low_empty, Selection!select_hard
  <2> QED  BY <2>1 DEF FinishedIsTrained, Finished, Running
<1>5. CASE labelling
  <2>1. /\ args.tool \in {"search_teacher", "exact_teacher", "partition", "merge", "overlay",
                          "derive", "apply"}
        /\ UNCHANGED args
    BY <1>5 DEF labelling, Labels!LabelNext, Labels!search_teacher, Labels!exact_teacher,
       Labels!partition_selected, Labels!merge_teacher_outputs,
       Labels!overlay_search_move_teacher, Labels!derive_exact_root_labels, Labels!apply_overlay
  <2> QED  BY <2>1 DEF FinishedIsTrained, Finished, Running
<1>6. CASE training
  <2>1. UNCHANGED args /\ (outcome' = "ok" => args.tool # "train" \/ trainer' # None)
    <3>1. CASE Trainer!start_training
      BY <3>1, NumbersAssumption DEF Trainer!start_training, Trainer!Fail
    <3>2. CASE Trainer!train_epoch
      BY <3>2, NumbersAssumption DEF Trainer!train_epoch
    <3>3. CASE Trainer!write_weights
      BY <3>3 DEF Trainer!write_weights
    <3>4. CASE Trainer!build_dataset \/ Trainer!import_artifact
      BY <3>4 DEF Trainer!build_dataset, Trainer!import_artifact
    <3>5. CASE Trainer!write_payload \/ Trainer!write_manifest \/ Trainer!refuse_export
      BY <3>5 DEF Trainer!write_payload, Trainer!write_manifest, Trainer!refuse_export
    <3>6. CASE Trainer!export_killed
      BY <3>6 DEF Trainer!export_killed
    <3> QED  BY <1>6, <3>1, <3>2, <3>3, <3>4, <3>5, <3>6 DEF training, Trainer!TrainerNext
  <2> QED  BY <2>1 DEF FinishedIsTrained, Finished, Running
<1>7. CASE UNCHANGED pipelineState
  BY <1>7 DEF FinishedIsTrained, Finished, Running
<1>8. CASE caching \/ running \/ UNCHANGED vars
  <2>1. UNCHANGED pipelineState
    BY <1>8 DEF caching, running, vars
  <2> QED  BY <1>7, <2>1
<1> QED  BY <1>1, <1>2, <1>3, <1>4, <1>5, <1>6, <1>8 DEF Next

LEMMA InitIInv == Init => IInv
<1> SUFFICES ASSUME Init
             PROVE  IInv
  OBVIOUS
<1>1. PICK start \in Starts :
        /\ files = start.files /\ plan = start.plan
        /\ IF start.kind = "cache" THEN InitCache ELSE cache = None /\ campaign = NoCampaigns
        /\ IF start.kind = "run" THEN TrainingRun!InitRuns ELSE directory = None /\ runner = None
  BY DEF Init
<1>2. args = None /\ outcome = "ok" /\ trainer = None
  BY DEF Init
<1>3. /\ Artifacts \cup Tables \subseteq DOMAIN files
      /\ files.payload = None /\ files.exporting = None
      /\ files.source = None /\ files.initial = None
      /\ plan \in Seq(DOMAIN CommandLines)
  BY <1>1, StartsAssumption
<1>4. PipelineInv
  BY <1>2, <1>3 DEF PipelineInv, InputsAreLegal, ArtifactsAreWhole, ExportsAreOfWeights,
     TrainerIsSound, TrainingHasItsRows, TrainingsEnd, Finished, Running
<1>5. RunsAreWhole
  <2>1. CASE runner = None
    BY <2>1 DEF RunsAreWhole
  <2>2. CASE TrainingRun!InitRuns
    <3>1. /\ DOMAIN runner = 1..Runs /\ directory = TrainingRun!NoDirectory
          /\ \A id \in 1..Runs : runner[id] = TrainingRun!NotStarted
      BY <2>2 DEF TrainingRun!InitRuns
    <3>2. \A id \in 1..Runs : RunType(id)
      BY <3>1 DEF RunType, Made, PCs, TrainingRun!NotStarted
    <3>3. DirectoryType /\ WritersAreFounders
      BY <3>1 DEF DirectoryType, WritersAreFounders, TrainingRun!NoDirectory
    <3>4. \A id \in 1..Runs : OneRunOnly(id)
      BY <3>1 DEF OneRunOnly, StageBehind, TrainingRun!NotStarted, TrainingRun!NoDirectory
    <3> QED  BY <3>1, <3>2, <3>3, <3>4 DEF RunsAreWhole
  <2> QED  BY <1>1, <2>1, <2>2
<1>6. campaign = NoCampaigns \/ CacheInv
  BY <1>1, CacheInit, CacheAssumption
<1>7. ImportsAreSound
  BY <1>2 DEF ImportsAreSound, GameImportIsSound, BoardImportIsSound, SplitsAreIsolated, Running
<1>8. LabelsInv
  <2>1. \A t \in DOMAIN ChildTable : files[t] = None
    BY <1>1, StartsAssumption, TablesOfChildren
  <2> QED  BY <1>2, <2>1 DEF LabelsInv, PairsAreWhole, OneLabelPerChild, Finished, Running
<1> QED  BY <1>2, <1>4, <1>5, <1>6, <1>7, <1>8 DEF IInv, FinishedIsTrained, Finished, Running

LEMMA NextIInv == IInv /\ [Next]_vars => IInv'
<1> SUFFICES ASSUME IInv, [Next]_vars
             PROVE  IInv'
  OBVIOUS
<1>1. /\ PipelineInv /\ RunsAreWhole /\ (campaign = NoCampaigns \/ CacheInv)
      /\ FinishedIsTrained' /\ ImportsAreSound' /\ LabelsInv'
  BY FinishedTrains, ImportsKeep, LabelsKeep DEF IInv
<1> USE DEF aside, pipelineState, importState
<1>2. CASE start_tool
  BY <1>1, <1>2, StartKeeps, RunsStand, CampaignsStand DEF IInv, start_tool
<1>3. CASE game_import
  BY <1>1, <1>3, ImportKeeps, RunsStand, CampaignsStand DEF IInv, game_import
<1>4. CASE board_score_import
  BY <1>1, <1>4, BoardScoresKeep, RunsStand, CampaignsStand DEF IInv, board_score_import
<1>5. CASE selection
  BY <1>1, <1>5, SelectionKeeps, RunsStand, CampaignsStand DEF IInv, selection
<1>6. CASE labelling
  BY <1>1, <1>6, LabellingKeeps, RunsStand, CampaignsStand DEF IInv, labelling
<1>7. CASE training
  BY <1>1, <1>7, TrainingKeeps, RunsStand, CampaignsStand DEF IInv, training
<1>8. CASE caching
  <2>1. CacheInv'
    BY <1>1, <1>8, CacheStep DEF caching
  <2>2. PipelineInv' /\ RunsAreWhole'
    BY <1>1, <1>8, PipelineStands, RunsStand DEF caching
  <2> QED  BY <1>1, <2>1, <2>2 DEF IInv
<1>9. CASE running
  BY <1>1, <1>9, PipelineStands, RunsKeep, CampaignsStand DEF IInv, running
<1>10. CASE UNCHANGED vars
  BY <1>1, <1>10, PipelineStands, RunsStand, CampaignsStand DEF IInv, vars
<1> QED  BY <1>2, <1>3, <1>4, <1>5, <1>6, <1>7, <1>8, <1>9, <1>10 DEF Next

\* Whatever tools are run one after the other, the trainer, the artifacts,
\* the campaigns and the runs beside them keep to the invariant.
THEOREM PipelineIInv == Spec => []IInv
BY InitIInv, NextIInv, PTL DEF Spec

\* Frozen phases come out of the exporter as they were in the artifact.
LEMMA FrozenStand == PipelineInv => FrozenPhasesStand
<1> SUFFICES ASSUME PipelineInv, Finished("export_v0b"), trainer # None,
                    trainer.artifact # None, files.payload.scale = trainer.artifact.scale
             PROVE  /\ \A k \in Trainer!Keys : k[1] \in trainer.freeze =>
                          files.payload.values[k] = trainer.artifact.values[k]
                    /\ trainer.freeze # {} => trainer.freeze \subseteq files.manifest.trained
  BY DEF FrozenPhasesStand
<1>1. ~Running("train")
  BY DEF Finished, Running
<1>2. TrainedWeights
  BY <1>1 DEF PipelineInv, TrainingsEnd
<1>3. PayloadOfWeights /\ files.manifest.trained = files.trained
  BY DEF PipelineInv, ExportsAreOfWeights
<1>4. UnmovedWeights(trainer) /\ FrozenKeys(trainer) /\ InitialOfArtifact(trainer)
  BY DEF PipelineInv, TrainerIsSound
<1>5. ASSUME NEW k \in Trainer!Keys, k[1] \in trainer.freeze
      PROVE  files.payload.values[k] = trainer.artifact.values[k]
  <2>1. k \notin trainer.keys
    BY <1>4, <1>5 DEF FrozenKeys
  <2>2. trainer.weights[k] = trainer.initial[k] /\ trainer.best[k] = trainer.initial[k]
    BY <1>4, <2>1 DEF UnmovedWeights
  <2>3. files.weights.values[k] = trainer.initial[k]
    BY <1>2, <2>2 DEF TrainedWeights, Trainer!FinalWeights
  <2>4. /\ trainer.initial[k] = Weight(trainer.artifact, k)
        /\ trainer.artifact.values[k] \in Int
        /\ trainer.artifact.scale \in Nat \ {0} /\ Unit % trainer.artifact.scale = 0
    BY <1>4 DEF InitialOfArtifact, WholeArtifact
  <2>5. files.payload.values[k]
            = Trainer!quantize_weight(Weight(trainer.artifact, k), trainer.artifact.scale)
    BY <1>3, <2>3, <2>4 DEF PayloadOfWeights
  <2> QED  BY <2>4, <2>5, QuantizeDequantize DEF Weight
<1> QED  BY <1>2, <1>3, <1>5 DEF TrainedWeights

\* A training cut short leaves its first best weights.
LEMMA EarlyStopBest == PipelineInv /\ FinishedIsTrained => EarlyStopKeepsBest
<1> SUFFICES ASSUME PipelineInv, FinishedIsTrained, Finished("train"),
                    trainer.stopped, trainer.best_epoch # None
             PROVE  \E k \in DOMAIN trainer.history :
                        /\ files.weights.values = trainer.history[k].weights
                        /\ \A j \in DOMAIN trainer.history :
                              /\ trainer.history[k].loss <= trainer.history[j].loss
                              /\ j < k => trainer.history[k].loss < trainer.history[j].loss
  BY DEF EarlyStopKeepsBest
<1>1. trainer # None /\ outcome # None
  BY NumbersAssumption DEF FinishedIsTrained, Finished
<1>2. files.weights.values = trainer.best
  BY <1>1 DEF PipelineInv, TrainingsEnd, TrainedWeights, Trainer!FinalWeights
<1>3. /\ FirstBest(trainer.history, trainer.best_epoch)
      /\ trainer.history[trainer.best_epoch].weights = trainer.best
  BY <1>1 DEF PipelineInv, TrainerIsSound, HistoryIsSound
<1> QED  BY <1>2, <1>3 DEF FirstBest

\* What a training moved, its train rows read.
LEMMA TrainRowsOnly == PipelineInv /\ FinishedIsTrained => OnlyTrainRowsTrain
<1> SUFFICES ASSUME PipelineInv, FinishedIsTrained, Finished("train"), NEW k \in Trainer!Keys,
                    files.weights.values[k] # trainer.initial[k]
             PROVE  ReadByTrainRow(k)
  BY DEF OnlyTrainRowsTrain, ReadByTrainRow
<1>1. trainer # None /\ outcome # None /\ Running("train")
  BY NumbersAssumption DEF FinishedIsTrained, Finished
<1>2. files.weights.values = Trainer!FinalWeights
  BY <1>1 DEF PipelineInv, TrainingsEnd, TrainedWeights
<1>3. k \in trainer.keys
  BY <1>1, <1>2 DEF PipelineInv, TrainerIsSound, UnmovedWeights, Trainer!FinalWeights
<1> QED  BY <1>1, <1>3 DEF PipelineInv, TrainingHasItsRows

LEMMA OneRun == RunsAreWhole /\ runner # None => TrainingRun!CompleteRunIsOneRun
<1> SUFFICES ASSUME RunsAreWhole, runner # None
             PROVE  TrainingRun!CompleteRunIsOneRun
  OBVIOUS
<1>1. WritersAreFounders
  BY DEF RunsAreWhole
<1>2. ASSUME NEW id \in TrainingRun!Founders, TrainingRun!Founders = {id},
             directory.report # None, directory.report.status = "complete"
      PROVE  /\ directory.files["import"] = <<id, id>>
             /\ directory.files["dataset"] = <<id, directory.files["import"]>>
             /\ directory.files["train"] = <<id, directory.files["dataset"]>>
  <2>1. OneRunOnly(id)
    BY <1>2 DEF RunsAreWhole, TrainingRun!Founders
  <2>2. FilesOfRun(id, 1) /\ FilesOfRun(id, 2) /\ FilesOfRun(id, 3)
    BY <1>2, <2>1 DEF OneRunOnly
  <2>3. 2 - 1 = 1 /\ 3 - 1 = 2
    OBVIOUS
  <2> QED  BY <2>2, <2>3, StageNumbers DEF FilesOfRun, SourceOf
<1> QED  BY <1>1, <1>2 DEF TrainingRun!CompleteRunIsOneRun, WritersAreFounders

\* The promise of trainer, exporters, importer of weights and runner
\* together, for all files, plans and command lines: frozen phases stand,
\* the first best epoch is kept, only train rows train, what a board-score
\* directory holds is of runs that found none, and of one run if one did.
THEOREM TrainingCorrect == Spec => []TrainingIsFaithful
<1>1. IInv => TrainingIsFaithful
  BY FrozenStand, EarlyStopBest, TrainRowsOnly, OneRun DEF IInv, TrainingIsFaithful
<1> QED  BY <1>1, PipelineIInv, PTL

\* What a finished campaign trains on is whole beside all the other tools.
THEOREM PipelineCacheCorrect == Spec => []CacheServesWholeTruth
<1>1. campaign = NoCampaigns => CacheServesWholeTruth
  BY DEF CacheServesWholeTruth, NoCampaigns, Now
<1>2. IInv => CacheServesWholeTruth
  BY <1>1, WholeTruth DEF IInv
<1> QED  BY <1>2, PipelineIInv, PTL

\* The sample of a game importer is the least of what was considered.
LEMMA GameSampleHoldsLeast ==
    ASSUME SummaryOf(summary, sample, args.seed), KeysApart(args.seed, Positions)
    PROVE  GameSampleIsLeast
<1> DEFINE rows == summary.considered
           S == PositionsOf(rows)
           key == KeyOf(args.seed)
           Key(p) == SampleKey(args.seed, p)
           kept == LeastBy({Import!position(r) : r \in rows}, sample.capacity, Key)
<1>1. PICK n : RowsConsidered(rows, n) /\ SampleOf(sample, rows, n, args.seed)
  BY DEF SummaryOf
<1>2. CASE sample.capacity = None
  BY <1>1, <1>2 DEF SampleOf, GameSampleIsLeast
<1>3. CASE sample.capacity # None /\ sample.mode = "streaming"
  BY <1>1, <1>3 DEF SampleOf, GameSampleIsLeast
<1>4. CASE sample.capacity # None /\ sample.mode # "streaming"
  <2>1. /\ sample.capacity \in Nat \ {0}
        /\ LeastOf(sample.entries, S, sample.capacity, key)
        /\ sample.rows = {r \in rows : Import!position(r) \in sample.entries}
    BY <1>1, <1>4 DEF SampleOf, Positive
  <2>2. S \subseteq Positions /\ IsFiniteSet(S)
    <3>1. S \subseteq Positions
      BY <1>1 DEF RowsConsidered, PositionsOf
    <3>2. IsFiniteSet(rows)
      BY <1>1 DEF RowsConsidered
    <3> DEFINE f == [r \in rows |-> Import!position(r)]
    <3>3. f \in Surjection(rows, S)
      BY DEF PositionsOf, Surjection
    <3> HIDE DEF f, S, rows
    <3>4. IsFiniteSet(S)
      BY <3>2, <3>3, FS_Surjection
    <3> QED  BY <3>1, <3>4
  <2>3. \A p \in S : key[p] = Key(p) /\ key[p] \in Int
    BY <2>2 DEF KeyOf, KeysApart
  <2> HIDE DEF S, key
  <2>4. sample.entries = Fewest(S, sample.capacity, key)
    BY <2>1, <2>2, <2>3, KeptIsLeast
  <2>5. kept = Fewest(S, sample.capacity, key)
    <3>1. kept = LeastBy(S, sample.capacity, Key)
      BY DEF S, PositionsOf
    <3>2. LeastBy(S, sample.capacity, Key)
              = {x \in S : Cardinality({y \in S : Key(y) < Key(x)}) < sample.capacity}
      BY DEF LeastBy
    <3>3. \A x \in S : {y \in S : Key(y) < Key(x)} = {y \in S : key[y] < key[x]}
      BY <2>3
    <3> HIDE DEF kept, Key
    <3> QED  BY <3>1, <3>2, <3>3 DEF Fewest
  <2>6. sample.rows = {r \in rows : Import!position(r) \in kept}
    BY <2>1, <2>4, <2>5
  <2> QED  BY <1>4, <2>6 DEF GameSampleIsLeast
<1> QED  BY <1>2, <1>3, <1>4

\* Both importers keep the least of what they read, whatever the order, and
\* leave no board and no game in two splits when they are told not to: for
\* all transcripts, lines, seeds and limits that their command lines allow,
\* digests that keep what they are given apart and records that tell lines
\* apart.
THEOREM SamplesCorrect == Spec => []SamplesAreLeast
<1>1. ASSUME IInv PROVE SamplesAreLeast
  <2>1. args # None => Legal(args)
    BY <1>1 DEF IInv, PipelineInv, InputsAreLegal
  <2>2. ASSUME Running("import_games") PROVE GameSampleIsLeast
    <3>1. SummaryOf(summary, sample, args.seed)
      BY <1>1, <2>2 DEF IInv, ImportsAreSound, GameImportIsSound
    <3>2. KeysApart(args.seed, Positions)
      BY <2>1, <2>2 DEF Running, Legal
    <3> QED  BY <3>1, <3>2, GameSampleHoldsLeast
  <2>3. ASSUME Running("import_board_scores"), BoardScores!Enabled, NEW b \in DOMAIN sample
        PROVE  BucketIsLeast(sample[b], RowsOfBucket(b))
    <3>1. /\ b \in Buckets
          /\ BucketIsSound(sample[b], RowsOfBucket(b), BoardsRead, args.seed)
          /\ RowsOfLines(summary.considered, ScoreLines(args))
      BY <1>1, <2>3 DEF IInv, ImportsAreSound, BoardImportIsSound
    <3>2. LinesAreLegal /\ KeysApart(args.seed, {<<line.board>> : line \in ScoreLines(args)})
      BY <2>1, <2>3 DEF Legal, Running, LinesAreLegal
    <3>3. BoardsApart(args.seed, BoardsRead)
      BY <3>2, BoardsReadApart
    <3>4. RowsOfBucket(b) \in SUBSET summary.considered
      BY DEF RowsOfBucket
    <3>5. RowsRead(RowsOfBucket(b), BoardsRead)
      BY <3>1, <3>2, <3>4, SomeOfLines, LinesTellApart
    <3> QED  BY <3>1, <3>3, <3>5, BucketHoldsLeast
  <2>4. SplitsAreIsolated
    BY <1>1 DEF IInv, ImportsAreSound
  <2> QED  BY <2>2, <2>3, <2>4 DEF SamplesAreLeast, RowsOfBucket
<1> QED  BY <1>1, PipelineIInv, PTL

\* A child has one label in whatever tables search teacher, overlay and join
\* leave, each root all its moves and each child its row: for all rules,
\* scores, baselines, roots and orders in which the tools are run.
THEOREM LabelsCorrect == Spec => []OneLabelPerChild
<1>1. IInv => OneLabelPerChild
  BY DEF IInv, LabelsInv
<1> QED  BY <1>1, PipelineIInv, PTL

-----------------------------------------------------------------------------
(***************************************************************************)
(* The selection of roots with a cap per game. First sums over finite      *)
(* sets, which flows are counted with; then what one augmenting path does  *)
(* to a flow: it sends one root more and still keeps to what is there, the *)
(* quotas and the cap.                                                     *)
(***************************************************************************)

\* A set of subsets of a finite set that grows by one member at a time
\* reaches the whole set.
LEMMA FiniteInduction ==
    ASSUME NEW S, IsFiniteSet(S), NEW P, {} \in P,
           \A T \in SUBSET S, x \in S : T \in P /\ x \notin T => T \cup {x} \in P
    PROVE  S \in P
<1> DEFINE bad == {T \in FiniteSubsetsOf(S) : T \notin P}
<1> SUFFICES ASSUME S \notin P PROVE FALSE
  OBVIOUS
<1>1. S \in FiniteSubsetsOf(S) /\ bad # {} /\ bad \subseteq FiniteSubsetsOf(S)
  BY DEF FiniteSubsetsOf
<1>2. PICK T \in bad : \A U \in bad : ~ (<<U, T>> \in StrictSubsetOrdering(S))
  <2> HIDE DEF bad
  <2> QED  BY <1>1, FS_StrictSubsetOrderingWellFounded, WFMin
<1>3. T \subseteq S /\ IsFiniteSet(T) /\ T \notin P /\ T # {}
  BY DEF FiniteSubsetsOf
<1>4. PICK x \in T : TRUE
  BY <1>3
<1>5. IsFiniteSet(T \ {x})
  BY <1>3, FS_RemoveElement
<1>6. <<T \ {x}, T>> \in StrictSubsetOrdering(S)
  BY <1>3, <1>4 DEF StrictSubsetOrdering
<1>7. T \ {x} \in P
  BY <1>2, <1>3, <1>5, <1>6 DEF FiniteSubsetsOf
<1> QED  BY <1>3, <1>4, <1>7

\* A sum adds up the values of f over S, one of them after the other.
AddsUp(f, S, up) ==
    up = [s \in SUBSET S |->
             IF s = {} THEN 0
             ELSE f[CHOOSE x \in s : TRUE] + up[s \ {CHOOSE x \in s : TRUE}]]

LEMMA SumIsChosen ==
    ASSUME NEW f, NEW S
    PROVE  Selection!SumOver(f, S) = (CHOOSE up : AddsUp(f, S, up))[S]
BY DEF Selection!SumOver, Selection!MapThenSumSet, Selection!MapThenFoldSet, AddsUp

OneOf(s) == CHOOSE x \in s : TRUE
Smaller(S, n) == {s \in SUBSET S : Cardinality(s) <= n}
AddsUpTo(f, S, n, up) ==
    up = [s \in Smaller(S, n) |->
             IF s = {} THEN 0 ELSE f[OneOf(s)] + up[s \ {OneOf(s)}]]

\* A set without the member that comes first is smaller by one.
LEMMA WithoutOne ==
    ASSUME NEW S, IsFiniteSet(S), S # {}
    PROVE  /\ OneOf(S) \in S /\ IsFiniteSet(S \ {OneOf(S)})
           /\ Cardinality(S \ {OneOf(S)}) = Cardinality(S) - 1
           /\ Cardinality(S) \in Nat \ {0}
<1>1. OneOf(S) \in S
  BY DEF OneOf
<1> QED  BY <1>1, FS_RemoveElement, FS_CardinalityType, FS_EmptySet

\* There are such sums, by the least size of a set that has none.
LEMMA SumsUpTo ==
    ASSUME NEW f, NEW S, IsFiniteSet(S)
    PROVE  \A n \in Nat : \E up : AddsUpTo(f, S, n, up)
<1> DEFINE bad == {n \in Nat : ~ \E up : AddsUpTo(f, S, n, up)}
<1> SUFFICES ASSUME bad # {} PROVE FALSE
  OBVIOUS
<1>1. PICK n \in bad : \A m \in bad : n <= m
  <2>1. bad \in SUBSET Nat
    OBVIOUS
  <2> HIDE DEF bad
  <2> QED  BY <2>1, LeastNumber
<1>2. n \in Nat /\ ~ \E up : AddsUpTo(f, S, n, up)
  OBVIOUS
<1>3. CASE n = 0
  <2> DEFINE up == [s \in Smaller(S, 0) |-> 0]
  <2>1. ASSUME NEW s \in Smaller(S, 0) PROVE s = {}
    BY FS_Subset, FS_EmptySet, FS_CardinalityType DEF Smaller
  <2>2. AddsUpTo(f, S, 0, up)
    BY <2>1 DEF AddsUpTo
  <2> QED  BY <1>2, <1>3, <2>2
<1>4. CASE n > 0
  <2>1. n - 1 \in Nat /\ n - 1 \notin bad
    BY <1>1, <1>2, <1>4
  <2>2. PICK below : AddsUpTo(f, S, n - 1, below)
    BY <2>1
  <2> DEFINE up == [s \in Smaller(S, n) |->
                       IF s = {} THEN 0 ELSE f[OneOf(s)] + below[s \ {OneOf(s)}]]
  <2>3. ASSUME NEW s \in Smaller(S, n), s # {}
        PROVE  up[s \ {OneOf(s)}] = below[s \ {OneOf(s)}]
    <3> DEFINE t == s \ {OneOf(s)}
    <3>1. s \subseteq S /\ IsFiniteSet(s) /\ Cardinality(s) <= n
      BY FS_Subset DEF Smaller
    <3>2. t \in SUBSET S /\ Cardinality(t) = Cardinality(s) - 1 /\ Cardinality(s) \in Nat
      BY <2>3, <3>1, WithoutOne
    <3>3. t \in Smaller(S, n) /\ t \in Smaller(S, n - 1)
      BY <1>2, <3>1, <3>2 DEF Smaller
    <3>4. up[t] = IF t = {} THEN 0 ELSE f[OneOf(t)] + below[t \ {OneOf(t)}]
      BY <3>3
    <3>5. below[t] = IF t = {} THEN 0 ELSE f[OneOf(t)] + below[t \ {OneOf(t)}]
      BY <2>2, <3>3 DEF AddsUpTo
    <3> QED  BY <3>4, <3>5
  <2>4. up = [s \in Smaller(S, n) |->
                 IF s = {} THEN 0 ELSE f[OneOf(s)] + up[s \ {OneOf(s)}]]
    BY <2>3
  <2> QED  BY <1>2, <2>4 DEF AddsUpTo
<1> QED  BY <1>2, <1>3, <1>4

LEMMA SumExists ==
    ASSUME NEW f, NEW S, IsFiniteSet(S)
    PROVE  \E up : AddsUp(f, S, up)
<1>1. Cardinality(S) \in Nat
  BY FS_CardinalityType
<1>2. PICK up : AddsUpTo(f, S, Cardinality(S), up)
  BY <1>1, SumsUpTo
<1>3. Smaller(S, Cardinality(S)) = SUBSET S
  BY FS_Subset DEF Smaller
<1>4. AddsUp(f, S, up)
  BY <1>2, <1>3 DEF AddsUp, AddsUpTo, OneOf
<1> QED  BY <1>4

\* Values that are the same add up to the same.
LEMMA SumsAgree ==
    ASSUME NEW f, NEW g, NEW S, NEW T, T \subseteq S, NEW up, NEW down,
           AddsUp(f, S, up), AddsUp(g, T, down), \A x \in T : f[x] = g[x], IsFiniteSet(T)
    PROVE  up[T] = down[T]
<1> DEFINE bad == {s \in FiniteSubsetsOf(T) : up[s] # down[s]}
<1> SUFFICES ASSUME up[T] # down[T] PROVE FALSE
  OBVIOUS
<1>1. bad # {} /\ bad \subseteq FiniteSubsetsOf(T)
  BY DEF FiniteSubsetsOf
<1>2. PICK s \in bad : \A t \in bad : ~ (<<t, s>> \in StrictSubsetOrdering(T))
  <2> HIDE DEF bad
  <2> QED  BY <1>1, FS_StrictSubsetOrderingWellFounded, WFMin
<1>3. s \in SUBSET T /\ s \in SUBSET S /\ IsFiniteSet(s) /\ up[s] # down[s]
  BY DEF FiniteSubsetsOf
<1>4. up[s] = IF s = {} THEN 0 ELSE f[OneOf(s)] + up[s \ {OneOf(s)}]
  BY <1>3 DEF AddsUp, OneOf
<1>5. down[s] = IF s = {} THEN 0 ELSE g[OneOf(s)] + down[s \ {OneOf(s)}]
  BY <1>3 DEF AddsUp, OneOf
<1>6. s # {}
  BY <1>3, <1>4, <1>5
<1> DEFINE t == s \ {OneOf(s)}
<1>7. OneOf(s) \in s /\ IsFiniteSet(t)
  BY <1>3, <1>6, WithoutOne
<1>8. <<t, s>> \in StrictSubsetOrdering(T) /\ t \in FiniteSubsetsOf(T)
  BY <1>3, <1>7 DEF StrictSubsetOrdering, FiniteSubsetsOf
<1>9. up[t] = down[t]
  BY <1>2, <1>8
<1> QED  BY <1>3, <1>4, <1>5, <1>6, <1>7, <1>9

LEMMA SumAddsUp ==
    ASSUME NEW f, NEW S, IsFiniteSet(S)
    PROVE  \E up : AddsUp(f, S, up) /\ Selection!SumOver(f, S) = up[S]
<1> DEFINE chosen == CHOOSE up : AddsUp(f, S, up)
<1>1. AddsUp(f, S, chosen)
  BY SumExists
<1> QED  BY <1>1, SumIsChosen

LEMMA SumSame ==
    ASSUME NEW f, NEW g, NEW S, IsFiniteSet(S), \A x \in S : f[x] = g[x]
    PROVE  Selection!SumOver(f, S) = Selection!SumOver(g, S)
BY SumAddsUp, SumsAgree

LEMMA SumEmpty ==
    ASSUME NEW f
    PROVE  Selection!SumOver(f, {}) = 0
<1>1. IsFiniteSet({})
  BY FS_EmptySet
<1>2. PICK up : AddsUp(f, {}, up) /\ Selection!SumOver(f, {}) = up[{}]
  BY <1>1, SumAddsUp
<1> QED  BY <1>2 DEF AddsUp

\* A sum is one value and the sum of the rest.
LEMMA SumUnfolds ==
    ASSUME NEW f, NEW S, IsFiniteSet(S), S # {}
    PROVE  Selection!SumOver(f, S) = f[OneOf(S)] + Selection!SumOver(f, S \ {OneOf(S)})
<1> DEFINE T == S \ {OneOf(S)}
<1>1. OneOf(S) \in S /\ IsFiniteSet(T) /\ T \subseteq S
  BY WithoutOne
<1>2. PICK up : AddsUp(f, S, up) /\ Selection!SumOver(f, S) = up[S]
  BY SumAddsUp
<1>3. PICK down : AddsUp(f, T, down) /\ Selection!SumOver(f, T) = down[T]
  BY <1>1, SumAddsUp
<1>4. up[T] = down[T]
  BY <1>1, <1>2, <1>3, SumsAgree
<1>5. up[S] = f[OneOf(S)] + up[T]
  BY <1>2 DEF AddsUp, OneOf
<1> QED  BY <1>2, <1>3, <1>4, <1>5

\* Whichever member of the set is taken out first.
LEMMA SumTakesOut ==
    ASSUME NEW f, NEW S, IsFiniteSet(S), \A x \in S : f[x] \in Int
    PROVE  /\ Selection!SumOver(f, S) \in Int
           /\ \A x \in S : Selection!SumOver(f, S) = f[x] + Selection!SumOver(f, S \ {x})
<1> DEFINE Adds(T) == /\ Selection!SumOver(f, T) \in Int
                      /\ \A x \in T : Selection!SumOver(f, T)
                                      = f[x] + Selection!SumOver(f, T \ {x})
           bad == {T \in FiniteSubsetsOf(S) : ~ Adds(T)}
<1> SUFFICES ASSUME ~ Adds(S) PROVE FALSE
  OBVIOUS
<1>1. bad # {} /\ bad \subseteq FiniteSubsetsOf(S)
  <2> HIDE DEF Adds
  <2> QED  BY DEF FiniteSubsetsOf
<1>2. PICK T \in bad : \A U \in bad : ~ (<<U, T>> \in StrictSubsetOrdering(S))
  <2> HIDE DEF bad
  <2> QED  BY <1>1, FS_StrictSubsetOrderingWellFounded, WFMin
<1>3. T \in SUBSET S /\ IsFiniteSet(T) /\ ~ Adds(T)
  <2> HIDE DEF Adds
  <2> QED  BY DEF FiniteSubsetsOf
<1>4. ASSUME NEW U \in SUBSET T, U # T PROVE Adds(U)
  <2>1. IsFiniteSet(U)
    BY <1>3, FS_Subset
  <2>2. <<U, T>> \in StrictSubsetOrdering(S) /\ U \in FiniteSubsetsOf(S)
    BY <1>3, <1>4, <2>1 DEF StrictSubsetOrdering, FiniteSubsetsOf
  <2> HIDE DEF Adds
  <2> QED  BY <1>2, <2>2
<1>5. T # {}
  BY <1>3, SumEmpty
<1> DEFINE c == OneOf(T)
<1>6. c \in T /\ c \in S /\ f[c] \in Int
  BY <1>3, <1>5, WithoutOne
<1>7. Selection!SumOver(f, T) = f[c] + Selection!SumOver(f, T \ {c})
  BY <1>3, <1>5, SumUnfolds
<1> HIDE DEF c
<1>8. Selection!SumOver(f, T \ {c}) \in Int
  BY <1>4, <1>6
<1>9. ASSUME NEW x \in T, x # c
      PROVE  Selection!SumOver(f, T) = f[x] + Selection!SumOver(f, T \ {x})
  <2> DEFINE U == (T \ {c}) \ {x}
  <2>1. U = (T \ {x}) \ {c} /\ U \in SUBSET T /\ U # T
    BY <1>9
  <2>2. Selection!SumOver(f, T \ {c}) = f[x] + Selection!SumOver(f, U)
    <3>1. Adds(T \ {c})
      BY <1>4, <1>6
    <3> QED  BY <3>1, <1>9
  <2>3. Selection!SumOver(f, T \ {x}) = f[c] + Selection!SumOver(f, U)
    <3>1. Adds(T \ {x})
      BY <1>4
    <3>2. c \in T \ {x}
      BY <1>6, <1>9
    <3> QED  BY <3>1, <3>2, <2>1
  <2>4. Selection!SumOver(f, U) \in Int /\ f[x] \in Int
    <3>1. Adds(U)
      BY <1>4, <2>1
    <3> QED  BY <3>1, <1>3
  <2> QED  BY <1>6, <1>7, <2>2, <2>3, <2>4
<1>10. ASSUME NEW x \in T
       PROVE  Selection!SumOver(f, T) = f[x] + Selection!SumOver(f, T \ {x})
  <2>1. CASE x = c
    BY <1>7, <2>1
  <2>2. CASE x # c
    BY <1>9, <2>2
  <2> QED  BY <2>1, <2>2
<1>11. Selection!SumOver(f, T) \in Int
  BY <1>6, <1>7, <1>8
<1>12. Adds(T)
  BY <1>10, <1>11
<1> QED  BY <1>3, <1>12

\* One more member adds its value.
LEMMA SumGrows ==
    ASSUME NEW f, NEW S, NEW x, x \notin S, IsFiniteSet(S), \A y \in S \cup {x} : f[y] \in Int
    PROVE  /\ Selection!SumOver(f, S) \in Int
           /\ Selection!SumOver(f, S \cup {x}) = Selection!SumOver(f, S) + f[x]
<1>1. IsFiniteSet(S \cup {x}) /\ (S \cup {x}) \ {x} = S
  BY FS_AddElement
<1>2. Selection!SumOver(f, S) \in Int
  BY SumTakesOut
<1>3. Selection!SumOver(f, S \cup {x}) = f[x] + Selection!SumOver(f, S)
  BY <1>1, SumTakesOut
<1> QED  BY <1>2, <1>3

\* Lesser values add up to less.
LEMMA SumMonotone ==
    ASSUME NEW f, NEW g, NEW S, IsFiniteSet(S),
           \A x \in S : f[x] \in Int /\ g[x] \in Int /\ f[x] <= g[x]
    PROVE  Selection!SumOver(f, S) <= Selection!SumOver(g, S)
<1> DEFINE P == {T \in SUBSET S : Selection!SumOver(f, T) <= Selection!SumOver(g, T)}
<1>1. {} \in P
  BY SumEmpty
<1>2. ASSUME NEW T \in SUBSET S, NEW x \in S, T \in P, x \notin T
      PROVE  T \cup {x} \in P
  <2>1. IsFiniteSet(T)
    BY FS_Subset
  <2> \A y \in T \cup {x} : f[y] \in Int /\ g[y] \in Int /\ f[y] <= g[y]
    OBVIOUS
  <2>2. /\ Selection!SumOver(f, T) \in Int
        /\ Selection!SumOver(f, T \cup {x}) = Selection!SumOver(f, T) + f[x]
    BY <1>2, <2>1, SumGrows
  <2>3. /\ Selection!SumOver(g, T) \in Int
        /\ Selection!SumOver(g, T \cup {x}) = Selection!SumOver(g, T) + g[x]
    BY <1>2, <2>1, SumGrows
  <2> QED  BY <1>2, <2>2, <2>3
<1> HIDE DEF P
<1>3. S \in P
  BY <1>1, <1>2, FiniteInduction
<1> QED  BY <1>3 DEF P

LEMMA SumZero ==
    ASSUME NEW f, NEW S, IsFiniteSet(S), \A x \in S : f[x] = 0
    PROVE  Selection!SumOver(f, S) = 0
<1> DEFINE P == {T \in SUBSET S : Selection!SumOver(f, T) = 0}
<1>1. {} \in P
  BY SumEmpty
<1>2. ASSUME NEW T \in SUBSET S, NEW x \in S, T \in P, x \notin T
      PROVE  T \cup {x} \in P
  <2>1. IsFiniteSet(T)
    BY FS_Subset
  <2>2. \A y \in T \cup {x} : f[y] \in Int
    OBVIOUS
  <2>3. Selection!SumOver(f, T \cup {x}) = Selection!SumOver(f, T) + f[x]
    BY <1>2, <2>1, <2>2, SumGrows
  <2> QED  BY <1>2, <2>3
<1> HIDE DEF P
<1>3. S \in P
  BY <1>1, <1>2, FiniteInduction
<1> QED  BY <1>3 DEF P

LEMMA SumNatural ==
    ASSUME NEW f, NEW S, IsFiniteSet(S), \A x \in S : f[x] \in Nat
    PROVE  Selection!SumOver(f, S) \in Nat
<1> DEFINE zero == [x \in S |-> 0]
<1>1. Selection!SumOver(zero, S) = 0 /\ Selection!SumOver(zero, S) <= Selection!SumOver(f, S)
  BY SumZero, SumMonotone
<1>2. Selection!SumOver(f, S) \in Int
  BY SumTakesOut
<1> QED  BY <1>1, <1>2

\* Two sets with nothing in common.
LEMMA SumOfBoth ==
    ASSUME NEW f, NEW S, NEW T, IsFiniteSet(S), IsFiniteSet(T), S \cap T = {},
           \A x \in S \cup T : f[x] \in Int
    PROVE  Selection!SumOver(f, S \cup T) = Selection!SumOver(f, S) + Selection!SumOver(f, T)
<1> DEFINE P == {U \in SUBSET T : Selection!SumOver(f, S \cup U)
                                   = Selection!SumOver(f, S) + Selection!SumOver(f, U)}
<1>1. Selection!SumOver(f, S) \in Int
  BY SumTakesOut
<1>2. {} \in P
  <2>1. S \cup {} = S
    OBVIOUS
  <2> QED  BY <1>1, <2>1, SumEmpty
<1>3. ASSUME NEW U \in SUBSET T, NEW x \in T, U \in P, x \notin U
      PROVE  U \cup {x} \in P
  <2>1. IsFiniteSet(U) /\ IsFiniteSet(S \cup U)
    BY FS_Subset, FS_Union
  <2>2. /\ Selection!SumOver(f, U) \in Int
        /\ Selection!SumOver(f, U \cup {x}) = Selection!SumOver(f, U) + f[x]
    BY <1>3, <2>1, SumGrows
  <2>3. x \notin S \cup U /\ \A y \in (S \cup U) \cup {x} : f[y] \in Int
    BY <1>3
  <2>4. Selection!SumOver(f, (S \cup U) \cup {x}) = Selection!SumOver(f, S \cup U) + f[x]
    BY <2>1, <2>3, SumGrows
  <2>5. (S \cup U) \cup {x} = S \cup (U \cup {x}) /\ f[x] \in Int
    BY <2>3
  <2>6. Selection!SumOver(f, S \cup (U \cup {x}))
        = Selection!SumOver(f, S) + Selection!SumOver(f, U) + f[x]
    BY <1>3, <2>4, <2>5
  <2> QED  BY <1>1, <2>2, <2>5, <2>6
<1> HIDE DEF P
<1>4. T \in P
  BY <1>2, <1>3, FiniteInduction
<1> QED  BY <1>4 DEF P

LEMMA SumOfPart ==
    ASSUME NEW f, NEW S, NEW T, T \subseteq S, IsFiniteSet(S), \A x \in S : f[x] \in Int
    PROVE  /\ Selection!SumOver(f, S) = Selection!SumOver(f, T) + Selection!SumOver(f, S \ T)
           /\ Selection!SumOver(f, S) \in Int
           /\ Selection!SumOver(f, T) \in Int /\ Selection!SumOver(f, S \ T) \in Int
<1>1. IsFiniteSet(T) /\ IsFiniteSet(S \ T) /\ T \cap (S \ T) = {} /\ T \cup (S \ T) = S
  BY FS_Subset
<1>2. Selection!SumOver(f, T \cup (S \ T)) = Selection!SumOver(f, T) + Selection!SumOver(f, S \ T)
  BY <1>1, SumOfBoth
<1> QED  BY <1>1, <1>2, SumTakesOut

HasNumbers(f, S) == \A x \in S : f[x] \in Int

LEMMA SumHasParts ==
    ASSUME NEW f, NEW S, NEW T \in SUBSET S, IsFiniteSet(S), HasNumbers(f, S)
    PROVE  /\ Selection!SumOver(f, S) = Selection!SumOver(f, T) + Selection!SumOver(f, S \ T)
           /\ Selection!SumOver(f, T) \in Int /\ Selection!SumOver(f, S \ T) \in Int
<1>1. \A x \in S : f[x] \in Int
  BY DEF HasNumbers
<1> QED  BY <1>1, SumOfPart

\* One value has changed.
LEMMA SumShifts ==
    ASSUME NEW f, NEW g, NEW S, NEW x \in S, IsFiniteSet(S),
           \A y \in S : f[y] \in Int /\ g[y] \in Int,
           \A y \in S \ {x} : g[y] = f[y]
    PROVE  Selection!SumOver(g, S) = Selection!SumOver(f, S) + (g[x] - f[x])
<1>1. IsFiniteSet(S \ {x})
  BY FS_RemoveElement
<1>2. Selection!SumOver(g, S \ {x}) = Selection!SumOver(f, S \ {x})
  BY <1>1, SumSame
<1>3. /\ Selection!SumOver(f, S) = f[x] + Selection!SumOver(f, S \ {x})
      /\ Selection!SumOver(g, S) = g[x] + Selection!SumOver(g, S \ {x})
  BY SumTakesOut
<1>4. Selection!SumOver(f, S \ {x}) \in Int
  BY <1>1, SumTakesOut
<1> QED  BY <1>2, <1>3, <1>4

\* Two values have changed, one by as much as the other, the other way.
LEMMA SumBalances ==
    ASSUME NEW f, NEW g, NEW S, NEW x \in S, NEW y \in S, x # y, IsFiniteSet(S),
           \A z \in S : f[z] \in Int /\ g[z] \in Int,
           \A z \in S \ {x, y} : g[z] = f[z],
           g[x] + g[y] = f[x] + f[y]
    PROVE  Selection!SumOver(g, S) = Selection!SumOver(f, S)
<1> DEFINE T == S \ {x}
           U == T \ {y}
<1>1. IsFiniteSet(T) /\ IsFiniteSet(U) /\ y \in T
  BY FS_RemoveElement
<1>2. Selection!SumOver(g, U) = Selection!SumOver(f, U)
  <2>1. \A z \in U : g[z] = f[z]
    OBVIOUS
  <2> HIDE DEF U
  <2> QED  BY <1>1, <2>1, SumSame
<1>3. /\ Selection!SumOver(f, S) = f[x] + Selection!SumOver(f, T)
      /\ Selection!SumOver(g, S) = g[x] + Selection!SumOver(g, T)
  BY SumTakesOut
<1>4. /\ Selection!SumOver(f, T) = f[y] + Selection!SumOver(f, U)
      /\ Selection!SumOver(g, T) = g[y] + Selection!SumOver(g, U)
  <2>1. \A z \in T : f[z] \in Int /\ g[z] \in Int
    OBVIOUS
  <2> HIDE DEF T
  <2> QED  BY <1>1, <2>1, SumTakesOut
<1>5. Selection!SumOver(f, U) \in Int
  BY <1>1, SumTakesOut
<1> HIDE DEF T, U
<1>6. f[x] \in Int /\ f[y] \in Int /\ g[x] \in Int /\ g[y] \in Int
  OBVIOUS
<1> QED  BY <1>2, <1>3, <1>4, <1>5, <1>6

\* What is no less for any key is no less altogether.
LEMMA SumByKeys ==
    ASSUME NEW f, NEW g, NEW S, IsFiniteSet(S), NEW K, IsFiniteSet(K), NEW key,
           \A x \in S : f[x] \in Int /\ g[x] \in Int /\ key[x] \in K,
           \A k \in K : Selection!SumOver(f, {x \in S : key[x] = k})
                        <= Selection!SumOver(g, {x \in S : key[x] = k})
    PROVE  Selection!SumOver(f, S) <= Selection!SumOver(g, S)
<1> DEFINE Of(L) == {x \in S : key[x] \in L}
           P == {L \in SUBSET K : Selection!SumOver(f, Of(L)) <= Selection!SumOver(g, Of(L))}
<1>1. {} \in P
  <2>1. Of({}) = {}
    OBVIOUS
  <2> QED  BY <2>1, SumEmpty
<1>2. ASSUME NEW L \in SUBSET K, NEW k \in K, L \in P, k \notin L
      PROVE  L \cup {k} \in P
  <2> DEFINE A == Of(L)
             B == {x \in S : key[x] = k}
  <2>1. Of(L \cup {k}) = A \cup B /\ A \cap B = {}
    BY <1>2
  <2>2. IsFiniteSet(A) /\ IsFiniteSet(B) /\ A \subseteq S /\ B \subseteq S
    BY FS_Subset
  <2>3. /\ Selection!SumOver(f, A) <= Selection!SumOver(g, A)
        /\ Selection!SumOver(f, B) <= Selection!SumOver(g, B)
    BY <1>2
  <2> HIDE DEF A, B
  <2>4. \A x \in A \cup B : f[x] \in Int /\ g[x] \in Int
    BY <2>2
  <2>5. /\ Selection!SumOver(f, A) \in Int /\ Selection!SumOver(f, B) \in Int
        /\ Selection!SumOver(f, A \cup B)
           = Selection!SumOver(f, A) + Selection!SumOver(f, B)
    BY <2>1, <2>2, <2>4, SumOfBoth, SumTakesOut
  <2>6. /\ Selection!SumOver(g, A) \in Int /\ Selection!SumOver(g, B) \in Int
        /\ Selection!SumOver(g, A \cup B)
           = Selection!SumOver(g, A) + Selection!SumOver(g, B)
    BY <2>1, <2>2, <2>4, SumOfBoth, SumTakesOut
  <2>7. Selection!SumOver(f, A \cup B) <= Selection!SumOver(g, A \cup B)
    BY <2>3, <2>5, <2>6
  <2> QED  BY <2>1, <2>7
<1>3. Of(K) = S
  OBVIOUS
<1>4. K \in P
  <2> HIDE DEF P
  <2> QED  BY <1>1, <1>2, FiniteInduction
<1> QED  BY <1>3, <1>4

\* Things counted by their keys.
CountsByKey(R, key, K) == [k \in K |-> Cardinality({r \in R : key[r] = k})]

LEMMA CardinalityIsSum ==
    ASSUME NEW R, IsFiniteSet(R), NEW K, IsFiniteSet(K), NEW key, \A r \in R : key[r] \in K
    PROVE  Cardinality(R) = Selection!SumOver(CountsByKey(R, key, K), K)
<1> DEFINE Of(L) == {r \in R : key[r] \in L}
           count == CountsByKey(R, key, K)
           P == {L \in SUBSET K : Cardinality(Of(L)) = Selection!SumOver(count, L)}
<1>0. \A k \in K : count[k] = Cardinality({r \in R : key[r] = k}) /\ count[k] \in Int
  <2>1. ASSUME NEW k \in K PROVE count[k] = Cardinality({r \in R : key[r] = k})
    BY DEF CountsByKey
  <2>2. ASSUME NEW k \in K PROVE Cardinality({r \in R : key[r] = k}) \in Nat
    <3>1. IsFiniteSet({r \in R : key[r] = k})
      BY FS_Subset
    <3> QED  BY <3>1, FS_CardinalityType
  <2> QED  BY <2>1, <2>2
<1> HIDE DEF count
<1>1. {} \in P
  <2>1. Of({}) = {}
    OBVIOUS
  <2> QED  BY <2>1, SumEmpty, FS_EmptySet
<1>2. ASSUME NEW L \in SUBSET K, NEW k \in K, L \in P, k \notin L
      PROVE  L \cup {k} \in P
  <2> DEFINE A == Of(L)
             B == {r \in R : key[r] = k}
  <2>1. Of(L \cup {k}) = A \cup B /\ A \cap B = {}
    BY <1>2
  <2>2. IsFiniteSet(A) /\ IsFiniteSet(B)
    BY FS_Subset
  <2>3. IsFiniteSet(L) /\ \A j \in L \cup {k} : count[j] \in Int
    BY <1>0, FS_Subset
  <2>4. Selection!SumOver(count, L \cup {k}) = Selection!SumOver(count, L) + count[k]
    BY <1>2, <2>3, SumGrows
  <2>5. Cardinality(A) = Selection!SumOver(count, L) /\ count[k] = Cardinality(B)
    BY <1>0, <1>2
  <2> HIDE DEF A, B
  <2>6. Cardinality(A \cup B) = Cardinality(A) + Cardinality(B)
    <3>1. Cardinality(A \cup B) = Cardinality(A) + Cardinality(B) - Cardinality(A \cap B)
      BY <2>2, FS_Union
    <3>2. Cardinality(A \cap B) = 0
      BY <2>1, FS_EmptySet
    <3>3. Cardinality(A) \in Nat /\ Cardinality(B) \in Nat
      BY <2>2, FS_CardinalityType
    <3> QED  BY <3>1, <3>2, <3>3
  <2>7. Cardinality(Of(L \cup {k})) = Selection!SumOver(count, L \cup {k})
    BY <2>1, <2>4, <2>5, <2>6
  <2> HIDE DEF Of
  <2> QED  BY <2>7
<1>3. Of(K) = R
  OBVIOUS
<1>4. K \in P
  <2> HIDE DEF P
  <2> QED  BY <1>1, <1>2, FiniteInduction
<1>5. Cardinality(Of(K)) = Selection!SumOver(count, K)
  <2> HIDE DEF Of
  <2> QED  BY <1>4
<1> HIDE DEF Of
<1> QED  BY <1>3, <1>5 DEF count

(***************************************************************************)
(* The flow from phases through games.                                     *)
(***************************************************************************)

\* Of a run that selects with a cap.
SelectsFrom ==
    /\ IsFiniteSet(Selection!Cells) /\ Selection!Cells \subseteq Phases \X Selection!Games
    /\ \A c \in Selection!Cells : Selection!Room(c) \in Nat
    /\ args.quota \in [Phases -> Nat] /\ args.cap \in Nat

\* A flow keeps to what is there, the quotas and the cap.
KeepsTo(f) ==
    /\ f = [c \in Selection!Cells |-> f[c]]
    /\ \A c \in Selection!Cells : f[c] \in Nat /\ f[c] <= Selection!Room(c)
    /\ \A p \in Phases : Selection!OfPhase(f, p) <= args.quota[p]
    /\ \A g \in Selection!Games : Selection!OfGame(f, g) <= args.cap

CellsOfPhase(p) == {c \in Selection!Cells : c[1] = p}
CellsOfGame(g) == {c \in Selection!Cells : c[2] = g}

LEMMA SumsOfCells ==
    ASSUME SelectsFrom, NEW f, DOMAIN f = Selection!Cells, \A c \in Selection!Cells : f[c] \in Int
    PROVE  /\ \A p : /\ Selection!OfPhase(f, p) = Selection!SumOver(f, CellsOfPhase(p))
                     /\ Selection!OfPhase(f, p) \in Int
           /\ \A g : /\ Selection!OfGame(f, g) = Selection!SumOver(f, CellsOfGame(g))
                     /\ Selection!OfGame(f, g) \in Int
           /\ \A p : IsFiniteSet(CellsOfPhase(p)) /\ CellsOfPhase(p) \subseteq Selection!Cells
           /\ \A g : IsFiniteSet(CellsOfGame(g)) /\ CellsOfGame(g) \subseteq Selection!Cells
<1>1. ASSUME NEW p
      PROVE  /\ Selection!OfPhase(f, p) = Selection!SumOver(f, CellsOfPhase(p))
             /\ IsFiniteSet(CellsOfPhase(p)) /\ CellsOfPhase(p) \subseteq Selection!Cells
             /\ Selection!SumOver(f, CellsOfPhase(p)) \in Int
  <2>1. IsFiniteSet(CellsOfPhase(p)) /\ CellsOfPhase(p) \subseteq Selection!Cells
    BY FS_Subset DEF SelectsFrom, CellsOfPhase
  <2>2. Selection!OfPhase(f, p) = Selection!SumOver(f, CellsOfPhase(p))
    BY DEF Selection!OfPhase, CellsOfPhase
  <2>3. Selection!SumOver(f, CellsOfPhase(p)) \in Int
    BY <2>1, SumTakesOut
  <2> QED  BY <2>1, <2>2, <2>3
<1>2. ASSUME NEW g
      PROVE  /\ Selection!OfGame(f, g) = Selection!SumOver(f, CellsOfGame(g))
             /\ IsFiniteSet(CellsOfGame(g)) /\ CellsOfGame(g) \subseteq Selection!Cells
             /\ Selection!SumOver(f, CellsOfGame(g)) \in Int
  <2>1. IsFiniteSet(CellsOfGame(g)) /\ CellsOfGame(g) \subseteq Selection!Cells
    BY FS_Subset DEF SelectsFrom, CellsOfGame
  <2>2. Selection!OfGame(f, g) = Selection!SumOver(f, CellsOfGame(g))
    BY DEF Selection!OfGame, CellsOfGame
  <2>3. Selection!SumOver(f, CellsOfGame(g)) \in Int
    BY <2>1, SumTakesOut
  <2> QED  BY <2>1, <2>2, <2>3
<1> QED  BY <1>1, <1>2

\* The cells of a path: forth to its games, back from them to its phases.
Forth(ph, ga, i) == <<ph[i], ga[i]>>
Back(ph, ga, i) == <<ph[i + 1], ga[i]>>

\* A way through distinct phases and games along which more can be sent.
Way(f, k, ph, ga) ==
    /\ ph \in [1..k -> Phases] /\ ga \in [1..k -> Selection!Games]
    /\ \A i \in 1..k : /\ Forth(ph, ga, i) \in Selection!Cells
                       /\ f[Forth(ph, ga, i)] < Selection!Room(Forth(ph, ga, i))
    /\ \A i \in 1..(k - 1) : Back(ph, ga, i) \in Selection!Cells /\ f[Back(ph, ga, i)] > 0
    /\ \A i, j \in 1..k : i # j => ph[i] # ph[j] /\ ga[i] # ga[j]
    /\ Selection!OfPhase(f, ph[1]) < args.quota[ph[1]]

LEMMA AugmentingWay ==
    ASSUME NEW f, NEW k, NEW path
    PROVE  path \in Selection!AugmentingPaths(f, k)
           <=> /\ path = <<path[1], path[2]>> /\ Way(f, k, path[1], path[2])
               /\ Selection!OfGame(f, path[2][k]) < args.cap
BY DEF Selection!AugmentingPaths, Way, Forth, Back

\* Sums of cells do not change where no cell does, where one gives what
\* another takes, and change by what one cell takes.
LEMMA NothingSent ==
    ASSUME NEW f, NEW g, NEW S, IsFiniteSet(S), \A c \in S : g[c] = f[c]
    PROVE  Selection!SumOver(g, S) = Selection!SumOver(f, S)
BY SumSame

\* What is sent along a way: each cell forth has room for it, each cell back
\* has it to give.
SentAlong(f, g, k, ph, ga, sent) ==
    /\ sent \in Nat
    /\ g = [c \in Selection!Cells |-> g[c]]
    /\ \A i \in 1..k : /\ g[Forth(ph, ga, i)] = f[Forth(ph, ga, i)] + sent
                       /\ f[Forth(ph, ga, i)] + sent <= Selection!Room(Forth(ph, ga, i))
    /\ \A i \in 1..(k - 1) : /\ g[Back(ph, ga, i)] = f[Back(ph, ga, i)] - sent
                             /\ sent <= f[Back(ph, ga, i)]
    /\ \A c \in Selection!Cells :
          (\A i \in 1..k : c # Forth(ph, ga, i)) /\ (\A i \in 1..(k - 1) : c # Back(ph, ga, i))
             => g[c] = f[c]
    /\ Selection!OfPhase(f, ph[1]) + sent <= args.quota[ph[1]]
    /\ Selection!OfGame(f, ga[k]) + sent <= args.cap

LEMMA LengthOfWay ==
    ASSUME NEW k \in Nat, NEW A, NEW p \in [1..k -> A]
    PROVE  Selection!Len(p) = k
BY DEF Selection!Len

LEMMA SendingAlong ==
    ASSUME SelectsFrom, NEW f, KeepsTo(f), NEW k \in Nat \ {0},
           NEW path \in Selection!AugmentingPaths(f, k)
    PROVE  \E sent : SentAlong(f, Selection!send_blocking_flow(f, path), k, path[1], path[2], sent)
<1> DEFINE ph == path[1]
           ga == path[2]
           F == {<<ph[i], ga[i]>> : i \in 1..k}
           B == {<<ph[i + 1], ga[i]>> : i \in 1..(k - 1)}
           left == {Selection!Room(c) - f[c] : c \in F} \cup {f[c] : c \in B}
                   \cup {args.quota[ph[1]] - Selection!OfPhase(f, ph[1]),
                         args.cap - Selection!OfGame(f, ga[k])}
           sent == Selection!Min(left)
           g == Selection!send_blocking_flow(f, path)
<1>1. Way(f, k, ph, ga) /\ Selection!OfGame(f, ga[k]) < args.cap
  BY AugmentingWay
<1> HIDE DEF ph, ga
<1>2. /\ ph \in [1..k -> Phases] /\ ga \in [1..k -> Selection!Games] /\ 1 \in 1..k /\ k \in 1..k
      /\ \A i \in 1..k : Forth(ph, ga, i) \in Selection!Cells
      /\ \A i \in 1..(k - 1) : Back(ph, ga, i) \in Selection!Cells
      /\ \A i, j \in 1..k : i # j => ph[i] # ph[j] /\ ga[i] # ga[j]
  BY <1>1 DEF Way
<1>3. DOMAIN f = Selection!Cells
  BY DEF KeepsTo
<1>4. /\ Selection!OfPhase(f, ph[1]) \in Int /\ Selection!OfGame(f, ga[k]) \in Int
      /\ args.quota[ph[1]] \in Nat /\ args.cap \in Nat
  <2>1. \A c \in Selection!Cells : f[c] \in Int
    BY DEF KeepsTo
  <2> QED  BY <1>2, <1>3, <2>1, SumsOfCells DEF SelectsFrom
<1>5. left \in SUBSET Nat /\ left # {}
  <2>1. ASSUME NEW c \in F PROVE Selection!Room(c) - f[c] \in Nat
    BY <1>1 DEF Way, Forth, KeepsTo, SelectsFrom
  <2>2. ASSUME NEW c \in B PROVE f[c] \in Nat
    BY <1>2 DEF Back, KeepsTo
  <2>3. /\ args.quota[ph[1]] - Selection!OfPhase(f, ph[1]) \in Nat
        /\ args.cap - Selection!OfGame(f, ga[k]) \in Nat
    BY <1>1, <1>4 DEF Way
  <2> QED  BY <2>1, <2>2, <2>3
<1>6. sent \in left /\ \A n \in left : sent <= n
  <2> HIDE DEF left
  <2> QED  BY <1>5, LeastNumber DEF Selection!Min
<1>7. g = [c \in DOMAIN f |-> CASE c \in F -> f[c] + sent
                               [] c \in B  -> f[c] - sent
                               [] OTHER    -> f[c]]
  <2> DEFINE FF(n) == {<<path[1][i], path[2][i]>> : i \in 1..n}
             BB(n) == {<<path[1][i + 1], path[2][i]>> : i \in 1..(n - 1)}
             most(n) == Selection!Min(
                 {Selection!Room(c) - f[c] : c \in FF(n)} \cup {f[c] : c \in BB(n)}
                 \cup {args.quota[path[1][1]] - Selection!OfPhase(f, path[1][1]),
                       args.cap - Selection!OfGame(f, path[2][n])})
             send(n) == [c \in DOMAIN f |-> CASE c \in FF(n) -> f[c] + most(n)
                                              [] c \in BB(n) -> f[c] - most(n)
                                              [] OTHER       -> f[c]]
  <2>1. Selection!Len(path[1]) = k
    BY <1>2, LengthOfWay DEF ph
  <2>2. g = send(Selection!Len(path[1]))
    BY DEF Selection!send_blocking_flow
  <2>3. send(Selection!Len(path[1])) = send(k)
    <3> HIDE DEF send
    <3> QED  BY <2>1
  <2>4. FF(k) = F /\ BB(k) = B /\ most(k) = sent
    BY DEF ph, ga
  <2> HIDE DEF FF, BB, most, F, B, sent
  <2> QED  BY <2>2, <2>3, <2>4
<1>8. F \cap B = {}
  <2> SUFFICES ASSUME NEW i \in 1..k, NEW j \in 1..(k - 1),
                      ph[i] = ph[j + 1], ga[i] = ga[j]
               PROVE  FALSE
    OBVIOUS
  <2>1. j \in 1..k /\ j + 1 \in 1..k /\ j # j + 1
    OBVIOUS
  <2>2. i = j /\ i = j + 1
    BY <1>2, <2>1
  <2> QED  BY <2>1, <2>2
<1> HIDE DEF g, sent
<1>9. ASSUME NEW i \in 1..k
      PROVE  /\ g[Forth(ph, ga, i)] = f[Forth(ph, ga, i)] + sent
             /\ f[Forth(ph, ga, i)] + sent <= Selection!Room(Forth(ph, ga, i))
  <2> DEFINE c == Forth(ph, ga, i)
  <2>1. c \in F /\ c \in Selection!Cells /\ Selection!Room(c) - f[c] \in left
    BY <1>2 DEF Forth
  <2> HIDE DEF F, B, left, c
  <2>2. g[c] = f[c] + sent
    BY <1>3, <1>7, <1>8, <2>1
  <2>3. f[c] \in Nat /\ Selection!Room(c) \in Nat /\ sent \in Nat /\ sent <= Selection!Room(c) - f[c]
    BY <1>5, <1>6, <2>1 DEF KeepsTo, SelectsFrom
  <2>4. f[c] + sent <= Selection!Room(c)
    BY <2>3
  <2> QED  BY <2>2, <2>4 DEF c
<1>10. ASSUME NEW i \in 1..(k - 1)
       PROVE  g[Back(ph, ga, i)] = f[Back(ph, ga, i)] - sent /\ sent <= f[Back(ph, ga, i)]
  <2> DEFINE c == Back(ph, ga, i)
  <2>1. c \in B /\ c \in Selection!Cells /\ f[c] \in left
    BY <1>2 DEF Back
  <2> HIDE DEF F, B, left, c
  <2>2. g[c] = f[c] - sent
    BY <1>3, <1>7, <1>8, <2>1
  <2>3. sent <= f[c]
    BY <1>6, <2>1
  <2> QED  BY <2>2, <2>3 DEF c
<1>11. ASSUME NEW c \in Selection!Cells, \A i \in 1..k : c # Forth(ph, ga, i),
              \A i \in 1..(k - 1) : c # Back(ph, ga, i)
       PROVE  g[c] = f[c]
  <2>1. c \notin F /\ c \notin B
    BY <1>11 DEF Forth, Back
  <2> HIDE DEF F, B
  <2> QED  BY <1>3, <1>7, <2>1
<1>12. /\ Selection!OfPhase(f, ph[1]) + sent <= args.quota[ph[1]]
       /\ Selection!OfGame(f, ga[k]) + sent <= args.cap
  <2>1. /\ sent <= args.quota[ph[1]] - Selection!OfPhase(f, ph[1])
        /\ sent <= args.cap - Selection!OfGame(f, ga[k])
    BY <1>6
  <2>2. sent \in Nat
    BY <1>5, <1>6
  <2> QED  BY <1>4, <2>1, <2>2
<1>13. sent \in Nat /\ g = [c \in Selection!Cells |-> g[c]]
  BY <1>3, <1>5, <1>6, <1>7
<1>14. SentAlong(f, g, k, ph, ga, sent)
  BY <1>9, <1>10, <1>11, <1>12, <1>13 DEF SentAlong
<1> QED  BY <1>14 DEF g, ph, ga

LEMMA SentFits ==
    ASSUME SelectsFrom, NEW f, KeepsTo(f), NEW g, NEW k, NEW ph, NEW ga, NEW sent,
           SentAlong(f, g, k, ph, ga, sent)
    PROVE  /\ DOMAIN g = Selection!Cells
           /\ \A c \in Selection!Cells : g[c] \in Nat /\ g[c] <= Selection!Room(c)
<1>1. DOMAIN g = Selection!Cells
  BY DEF SentAlong
<1>2. ASSUME NEW c \in Selection!Cells PROVE g[c] \in Nat /\ g[c] <= Selection!Room(c)
  <2>1. f[c] \in Nat /\ f[c] <= Selection!Room(c) /\ sent \in Nat /\ Selection!Room(c) \in Nat
    BY DEF KeepsTo, SentAlong, SelectsFrom
  <2>2. CASE \E i \in 1..k : c = Forth(ph, ga, i)
    <3>1. g[c] = f[c] + sent /\ f[c] + sent <= Selection!Room(c)
      BY <2>2 DEF SentAlong
    <3> QED  BY <2>1, <3>1
  <2>3. CASE \E i \in 1..(k - 1) : c = Back(ph, ga, i)
    <3>1. g[c] = f[c] - sent /\ sent <= f[c]
      BY <2>3 DEF SentAlong
    <3> QED  BY <2>1, <3>1
  <2>4. CASE (\A i \in 1..k : c # Forth(ph, ga, i)) /\ (\A i \in 1..(k - 1) : c # Back(ph, ga, i))
    <3>1. g[c] = f[c]
      BY <2>4 DEF SentAlong
    <3> QED  BY <2>1, <3>1
  <2> QED  BY <2>2, <2>3, <2>4
<1> QED  BY <1>1, <1>2

\* Only the first phase of a way sends more, and only its last game has more.
LEMMA PhasesOfSent ==
    ASSUME SelectsFrom, NEW f, KeepsTo(f), NEW g, NEW k \in Nat \ {0}, NEW ph, NEW ga, NEW sent,
           Way(f, k, ph, ga), SentAlong(f, g, k, ph, ga, sent), NEW p
    PROVE  Selection!OfPhase(g, p) = IF p = ph[1] THEN Selection!OfPhase(f, p) + sent
                                     ELSE Selection!OfPhase(f, p)
<1> DEFINE S == CellsOfPhase(p)
<1>1. /\ IsFiniteSet(S) /\ S \subseteq Selection!Cells /\ sent \in Int
      /\ Selection!OfPhase(f, p) = Selection!SumOver(f, S) /\ Selection!SumOver(f, S) \in Int
      /\ Selection!OfPhase(g, p) = Selection!SumOver(g, S)
      /\ \A c \in S : f[c] \in Int /\ g[c] \in Int
  <2>1. DOMAIN f = Selection!Cells /\ \A c \in Selection!Cells : f[c] \in Int
    BY DEF KeepsTo
  <2>2. DOMAIN g = Selection!Cells /\ \A c \in Selection!Cells : g[c] \in Int
    BY SentFits
  <2>3. sent \in Int
    BY DEF SentAlong
  <2>4. IsFiniteSet(S) /\ S \subseteq Selection!Cells
    BY <2>1, SumsOfCells
  <2>5. Selection!OfPhase(f, p) = Selection!SumOver(f, S) /\ Selection!OfPhase(f, p) \in Int
    BY <2>1, SumsOfCells
  <2>6. Selection!OfPhase(g, p) = Selection!SumOver(g, S)
    BY <2>2, SumsOfCells
  <2> QED  BY <2>1, <2>2, <2>3, <2>4, <2>5, <2>6
<1>2. /\ \A i \in 1..k : /\ Forth(ph, ga, i) \in Selection!Cells
                         /\ Forth(ph, ga, i)[1] = ph[i] /\ Forth(ph, ga, i)[2] = ga[i]
      /\ \A i \in 1..(k - 1) : /\ Back(ph, ga, i) \in Selection!Cells
                               /\ Back(ph, ga, i)[1] = ph[i + 1] /\ Back(ph, ga, i)[2] = ga[i]
      /\ \A i, j \in 1..k : i # j => ph[i] # ph[j] /\ ga[i] # ga[j]
  BY DEF Way, Forth, Back
<1>3. /\ \A i \in 1..k : g[Forth(ph, ga, i)] = f[Forth(ph, ga, i)] + sent
      /\ \A i \in 1..(k - 1) : g[Back(ph, ga, i)] = f[Back(ph, ga, i)] - sent
      /\ \A c \in Selection!Cells :
            (\A i \in 1..k : c # Forth(ph, ga, i)) /\ (\A i \in 1..(k - 1) : c # Back(ph, ga, i))
               => g[c] = f[c]
  BY DEF SentAlong
<1>4. \A c \in S : c[1] = p
  BY DEF CellsOfPhase
<1>5. \A c \in Selection!Cells : c[1] = p => c \in S
  BY DEF CellsOfPhase
<1> HIDE DEF S
<1>6. CASE p = ph[1]
  <2> DEFINE x == Forth(ph, ga, 1)
  <2>1. 1 \in 1..k
    OBVIOUS
  <2>2. x \in S
    BY <1>2, <1>5, <1>6, <2>1
  <2>3. ASSUME NEW c \in S \ {x} PROVE g[c] = f[c]
    <3>1. ASSUME NEW i \in 1..k, c = Forth(ph, ga, i) PROVE FALSE
      BY <1>2, <1>4, <1>6, <2>1, <3>1
    <3>2. ASSUME NEW i \in 1..(k - 1), c = Back(ph, ga, i) PROVE FALSE
      <4>1. i + 1 \in 1..k /\ i + 1 # 1
        OBVIOUS
      <4> QED  BY <1>2, <1>4, <1>6, <2>1, <3>2, <4>1
    <3> QED  BY <1>1, <1>3, <3>1, <3>2
  <2>4. g[x] = f[x] + sent /\ f[x] \in Int
    BY <1>1, <1>3, <2>1, <2>2
  <2> HIDE DEF x
  <2>5. Selection!SumOver(g, S) = Selection!SumOver(f, S) + (g[x] - f[x])
    <3>1. \A c \in S : f[c] \in Int /\ g[c] \in Int
      BY <1>1
    <3>2. \A c \in S \ {x} : g[c] = f[c]
      BY <2>3
    <3>3. IsFiniteSet(S)
      BY <1>1
    <3> QED  BY <2>2, <3>1, <3>2, <3>3, SumShifts, Zenon
  <2> QED  BY <1>1, <1>6, <2>4, <2>5
<1>7. CASE \E i \in 2..k : p = ph[i]
  <2>1. PICK i \in 2..k : p = ph[i]
    BY <1>7
  <2> DEFINE x == Forth(ph, ga, i)
             y == Back(ph, ga, i - 1)
  <2>2. i \in 1..k /\ i - 1 \in 1..(k - 1) /\ i - 1 \in 1..k /\ i - 1 # i /\ i - 1 + 1 = i
        /\ 1 \in 1..k /\ i # 1
    OBVIOUS
  <2>3. x \in S /\ y \in S /\ x # y /\ p # ph[1]
    <3>1. x \in Selection!Cells /\ x[1] = p /\ x[2] = ga[i]
      BY <1>2, <2>1, <2>2
    <3>2. y \in Selection!Cells /\ y[1] = p /\ y[2] = ga[i - 1]
      BY <1>2, <2>1, <2>2
    <3>3. ga[i] # ga[i - 1] /\ p # ph[1]
      BY <1>2, <2>1, <2>2
    <3> HIDE DEF x, y
    <3> QED  BY <1>5, <3>1, <3>2, <3>3
  <2>4. ASSUME NEW c \in S \ {x, y} PROVE g[c] = f[c]
    <3>1. ASSUME NEW j \in 1..k, c = Forth(ph, ga, j) PROVE FALSE
      BY <1>2, <1>4, <2>1, <2>2, <3>1
    <3>2. ASSUME NEW j \in 1..(k - 1), c = Back(ph, ga, j) PROVE FALSE
      <4>1. j + 1 \in 1..k
        OBVIOUS
      <4>2. ph[j + 1] = ph[i]
        BY <1>2, <1>4, <2>1, <3>2
      <4>3. j + 1 = i
        BY <1>2, <2>2, <4>1, <4>2
      <4>4. j = i - 1
        BY <4>3
      <4> QED  BY <3>2, <4>4
    <3> QED  BY <1>1, <1>3, <3>1, <3>2
  <2>5. g[x] + g[y] = f[x] + f[y]
    <3>1. g[x] = f[x] + sent /\ g[y] = f[y] - sent /\ f[x] \in Int /\ f[y] \in Int
      BY <1>1, <1>3, <2>2, <2>3
    <3> HIDE DEF x, y
    <3> QED  BY <1>1, <3>1
  <2> HIDE DEF x, y
  <2>6. Selection!SumOver(g, S) = Selection!SumOver(f, S)
    BY <1>1, <2>3, <2>4, <2>5, SumBalances
  <2> QED  BY <1>1, <2>3, <2>6
<1>8. CASE \A i \in 1..k : p # ph[i]
  <2>1. ASSUME NEW c \in S PROVE g[c] = f[c]
    <3>1. ASSUME NEW i \in 1..k, c = Forth(ph, ga, i) PROVE FALSE
      BY <1>2, <1>4, <1>8, <3>1
    <3>2. ASSUME NEW i \in 1..(k - 1), c = Back(ph, ga, i) PROVE FALSE
      <4>1. i + 1 \in 1..k
        OBVIOUS
      <4> QED  BY <1>2, <1>4, <1>8, <3>2, <4>1
    <3> QED  BY <1>1, <1>3, <3>1, <3>2
  <2>2. Selection!SumOver(g, S) = Selection!SumOver(f, S)
    BY <1>1, <2>1, SumSame
  <2>3. 1 \in 1..k
    OBVIOUS
  <2> QED  BY <1>1, <1>8, <2>2, <2>3
<1>9. \A i \in 1..k : i = 1 \/ i \in 2..k
  OBVIOUS
<1> QED  BY <1>6, <1>7, <1>8, <1>9

LEMMA GamesOfSent ==
    ASSUME SelectsFrom, NEW f, KeepsTo(f), NEW g, NEW k \in Nat \ {0}, NEW ph, NEW ga, NEW sent,
           Way(f, k, ph, ga), SentAlong(f, g, k, ph, ga, sent), NEW p
    PROVE  Selection!OfGame(g, p) = IF p = ga[k] THEN Selection!OfGame(f, p) + sent
                                    ELSE Selection!OfGame(f, p)
<1> DEFINE S == CellsOfGame(p)
<1>1. /\ IsFiniteSet(S) /\ S \subseteq Selection!Cells /\ sent \in Int
      /\ Selection!OfGame(f, p) = Selection!SumOver(f, S) /\ Selection!SumOver(f, S) \in Int
      /\ Selection!OfGame(g, p) = Selection!SumOver(g, S)
      /\ \A c \in S : f[c] \in Int /\ g[c] \in Int
  <2>1. DOMAIN f = Selection!Cells /\ \A c \in Selection!Cells : f[c] \in Int
    BY DEF KeepsTo
  <2>2. DOMAIN g = Selection!Cells /\ \A c \in Selection!Cells : g[c] \in Int
    BY SentFits
  <2>3. sent \in Int
    BY DEF SentAlong
  <2>4. IsFiniteSet(S) /\ S \subseteq Selection!Cells
    BY <2>1, SumsOfCells
  <2>5. Selection!OfGame(f, p) = Selection!SumOver(f, S) /\ Selection!OfGame(f, p) \in Int
    BY <2>1, SumsOfCells
  <2>6. Selection!OfGame(g, p) = Selection!SumOver(g, S)
    BY <2>2, SumsOfCells
  <2> QED  BY <2>1, <2>2, <2>3, <2>4, <2>5, <2>6
<1>2. /\ \A i \in 1..k : /\ Forth(ph, ga, i) \in Selection!Cells
                         /\ Forth(ph, ga, i)[1] = ph[i] /\ Forth(ph, ga, i)[2] = ga[i]
      /\ \A i \in 1..(k - 1) : /\ Back(ph, ga, i) \in Selection!Cells
                               /\ Back(ph, ga, i)[1] = ph[i + 1] /\ Back(ph, ga, i)[2] = ga[i]
      /\ \A i, j \in 1..k : i # j => ph[i] # ph[j] /\ ga[i] # ga[j]
  BY DEF Way, Forth, Back
<1>3. /\ \A i \in 1..k : g[Forth(ph, ga, i)] = f[Forth(ph, ga, i)] + sent
      /\ \A i \in 1..(k - 1) : g[Back(ph, ga, i)] = f[Back(ph, ga, i)] - sent
      /\ \A c \in Selection!Cells :
            (\A i \in 1..k : c # Forth(ph, ga, i)) /\ (\A i \in 1..(k - 1) : c # Back(ph, ga, i))
               => g[c] = f[c]
  BY DEF SentAlong
<1>4. \A c \in S : c[2] = p
  BY DEF CellsOfGame
<1>5. \A c \in Selection!Cells : c[2] = p => c \in S
  BY DEF CellsOfGame
<1> HIDE DEF S
<1>6. CASE p = ga[k]
  <2> DEFINE x == Forth(ph, ga, k)
  <2>1. k \in 1..k
    OBVIOUS
  <2>2. x \in S
    BY <1>2, <1>5, <1>6, <2>1
  <2>3. ASSUME NEW c \in S \ {x} PROVE g[c] = f[c]
    <3>1. ASSUME NEW i \in 1..k, c = Forth(ph, ga, i) PROVE FALSE
      BY <1>2, <1>4, <1>6, <2>1, <3>1
    <3>2. ASSUME NEW i \in 1..(k - 1), c = Back(ph, ga, i) PROVE FALSE
      <4>1. i \in 1..k /\ i # k
        OBVIOUS
      <4> QED  BY <1>2, <1>4, <1>6, <2>1, <3>2, <4>1
    <3> QED  BY <1>1, <1>3, <3>1, <3>2
  <2>4. g[x] = f[x] + sent /\ f[x] \in Int
    BY <1>1, <1>3, <2>1, <2>2
  <2> HIDE DEF x
  <2>5. Selection!SumOver(g, S) = Selection!SumOver(f, S) + (g[x] - f[x])
    <3>1. \A c \in S : f[c] \in Int /\ g[c] \in Int
      BY <1>1
    <3>2. \A c \in S \ {x} : g[c] = f[c]
      BY <2>3
    <3>3. IsFiniteSet(S)
      BY <1>1
    <3> QED  BY <2>2, <3>1, <3>2, <3>3, SumShifts, Zenon
  <2> QED  BY <1>1, <1>6, <2>4, <2>5
<1>7. CASE \E i \in 1..(k - 1) : p = ga[i]
  <2>1. PICK i \in 1..(k - 1) : p = ga[i]
    BY <1>7
  <2> DEFINE x == Forth(ph, ga, i)
             y == Back(ph, ga, i)
  <2>2. i \in 1..k /\ i + 1 \in 1..k /\ i # i + 1 /\ k \in 1..k /\ i # k
    OBVIOUS
  <2>3. x \in S /\ y \in S /\ x # y /\ p # ga[k]
    <3>1. x \in Selection!Cells /\ x[1] = ph[i] /\ x[2] = p
      BY <1>2, <2>1, <2>2
    <3>2. y \in Selection!Cells /\ y[1] = ph[i + 1] /\ y[2] = p
      BY <1>2, <2>1, <2>2
    <3>3. ph[i] # ph[i + 1] /\ p # ga[k]
      BY <1>2, <2>1, <2>2
    <3> HIDE DEF x, y
    <3> QED  BY <1>5, <3>1, <3>2, <3>3
  <2>4. ASSUME NEW c \in S \ {x, y} PROVE g[c] = f[c]
    <3>1. ASSUME NEW j \in 1..k, c = Forth(ph, ga, j) PROVE FALSE
      BY <1>2, <1>4, <2>1, <2>2, <3>1
    <3>2. ASSUME NEW j \in 1..(k - 1), c = Back(ph, ga, j) PROVE FALSE
      <4>1. j \in 1..k
        OBVIOUS
      <4>2. ga[j] = ga[i]
        BY <1>2, <1>4, <2>1, <3>2
      <4>3. j = i
        BY <1>2, <2>2, <4>1, <4>2
      <4> QED  BY <3>2, <4>3
    <3> QED  BY <1>1, <1>3, <3>1, <3>2
  <2>5. g[x] + g[y] = f[x] + f[y]
    <3>1. g[x] = f[x] + sent /\ g[y] = f[y] - sent /\ f[x] \in Int /\ f[y] \in Int
      BY <1>1, <1>3, <2>2, <2>3
    <3> HIDE DEF x, y
    <3> QED  BY <1>1, <3>1
  <2> HIDE DEF x, y
  <2>6. Selection!SumOver(g, S) = Selection!SumOver(f, S)
    BY <1>1, <2>3, <2>4, <2>5, SumBalances
  <2> QED  BY <1>1, <2>3, <2>6
<1>8. CASE \A i \in 1..k : p # ga[i]
  <2>1. ASSUME NEW c \in S PROVE g[c] = f[c]
    <3>1. ASSUME NEW i \in 1..k, c = Forth(ph, ga, i) PROVE FALSE
      BY <1>2, <1>4, <1>8, <3>1
    <3>2. ASSUME NEW i \in 1..(k - 1), c = Back(ph, ga, i) PROVE FALSE
      <4>1. i \in 1..k
        OBVIOUS
      <4> QED  BY <1>2, <1>4, <1>8, <3>2, <4>1
    <3> QED  BY <1>1, <1>3, <3>1, <3>2
  <2>2. Selection!SumOver(g, S) = Selection!SumOver(f, S)
    BY <1>1, <2>1, SumSame
  <2>3. k \in 1..k
    OBVIOUS
  <2> QED  BY <1>1, <1>8, <2>2, <2>3
<1>9. \A i \in 1..k : i = k \/ i \in 1..(k - 1)
  OBVIOUS
<1> QED  BY <1>6, <1>7, <1>8, <1>9

\* An augmenting path leaves a flow that keeps to what is there, the quotas
\* and the cap (send_blocking_flow).
LEMMA AugmentKeeps ==
    ASSUME SelectsFrom, NEW f, KeepsTo(f), NEW k \in Nat \ {0},
           NEW path \in Selection!AugmentingPaths(f, k)
    PROVE  KeepsTo(Selection!send_blocking_flow(f, path))
<1> DEFINE g == Selection!send_blocking_flow(f, path)
           ph == path[1]
           ga == path[2]
<1>1. PICK sent : SentAlong(f, g, k, ph, ga, sent)
  BY SendingAlong
<1>2. Way(f, k, ph, ga)
  BY AugmentingWay
<1> HIDE DEF g, ph, ga
<1>3. /\ g = [c \in Selection!Cells |-> g[c]]
      /\ Selection!OfPhase(f, ph[1]) + sent <= args.quota[ph[1]]
      /\ Selection!OfGame(f, ga[k]) + sent <= args.cap
  BY <1>1 DEF SentAlong
<1>4. \A c \in Selection!Cells : g[c] \in Nat /\ g[c] <= Selection!Room(c)
  BY <1>1, SentFits
<1>5. ASSUME NEW p \in Phases PROVE Selection!OfPhase(g, p) <= args.quota[p]
  <2>1. Selection!OfPhase(f, p) <= args.quota[p]
    BY DEF KeepsTo
  <2>2. Selection!OfPhase(g, p) = IF p = ph[1] THEN Selection!OfPhase(f, p) + sent
                                  ELSE Selection!OfPhase(f, p)
    BY <1>1, <1>2, PhasesOfSent
  <2> QED  BY <1>3, <2>1, <2>2
<1>6. ASSUME NEW p \in Selection!Games PROVE Selection!OfGame(g, p) <= args.cap
  <2>1. Selection!OfGame(f, p) <= args.cap
    BY DEF KeepsTo
  <2>2. Selection!OfGame(g, p) = IF p = ga[k] THEN Selection!OfGame(f, p) + sent
                                 ELSE Selection!OfGame(f, p)
    BY <1>1, <1>2, GamesOfSent
  <2> QED  BY <1>3, <2>1, <2>2
<1>7. KeepsTo(g)
  BY <1>3, <1>4, <1>5, <1>6 DEF KeepsTo
<1> QED  BY <1>7 DEF g

-----------------------------------------------------------------------------
(***************************************************************************)
(* A flow without an augmenting path is a greatest one: the phases and     *)
(* games that can be reached from an unfilled quota are a cut that is      *)
(* full.                                                                   *)
(***************************************************************************)

FiniteSelection == IsFiniteSet(Phases) /\ IsFiniteSet(Selection!Games)

NoneLeft(f) == \A k \in 1..Selection!Longest : Selection!AugmentingPaths(f, k) = {}

LEMMA NothingShortest ==
    ASSUME FiniteSelection, NEW f, Selection!Shortest(f) = {}
    PROVE  NoneLeft(f)
<1> DEFINE lengths == {k \in 1..Selection!Longest : Selection!AugmentingPaths(f, k) # {}}
<1>1. SUFFICES ASSUME lengths # {} PROVE FALSE
  BY DEF NoneLeft
<1>2. Selection!Min(lengths) \in lengths
  <2>1. lengths \in SUBSET Nat
    OBVIOUS
  <2> HIDE DEF lengths
  <2>2. PICK k \in lengths : \A n \in lengths : k <= n
    BY <1>1, <2>1, LeastNumber
  <2> QED  BY <2>2 DEF Selection!Min
<1>3. Selection!Shortest(f) = Selection!AugmentingPaths(f, Selection!Min(lengths))
  BY <1>1 DEF Selection!Shortest
<1> QED  BY <1>2, <1>3

LEMMA SelectedCardinality == \A S : Selection!Cardinality(S) = Cardinality(S)
BY DEF Cardinality, Selection!Cardinality

\* Ways go through distinct phases and games.
LEMMA WaysAreShort ==
    ASSUME FiniteSelection, NEW f, NEW k \in Nat \ {0}, NEW ph, NEW ga, Way(f, k, ph, ga)
    PROVE  k \in 1..Selection!Longest
<1> DEFINE sizes == {Selection!Cardinality(Phases), Selection!Cardinality(Selection!Games)}
<1>1. IsFiniteSet(1..k) /\ Cardinality(1..k) = k
  BY FS_Interval
<1>2. /\ ph \in [1..k -> Phases] /\ ga \in [1..k -> Selection!Games]
      /\ \A i, j \in 1..k : i # j => ph[i] # ph[j] /\ ga[i] # ga[j]
  BY DEF Way
<1>3. IsFiniteSet(Phases) /\ IsFiniteSet(Selection!Games)
  BY DEF FiniteSelection
<1>4. Cardinality(Phases) \in Nat /\ k <= Cardinality(Phases)
  <2>1. Cardinality(Phases) \in Nat
    BY <1>3, FS_CardinalityType
  <2>2. ~ (Cardinality(Phases) < Cardinality(1..k))
    <3> SUFFICES ASSUME Cardinality(Phases) < Cardinality(1..k) PROVE FALSE
      OBVIOUS
    <3>1. \E x, y \in 1..k : x # y /\ ph[x] = ph[y]
      BY <1>1, <1>2, <1>3, FS_PigeonHole
    <3> QED  BY <1>2, <3>1
  <2> QED  BY <1>1, <2>1, <2>2
<1>5. Cardinality(Selection!Games) \in Nat /\ k <= Cardinality(Selection!Games)
  <2>1. Cardinality(Selection!Games) \in Nat
    BY <1>3, FS_CardinalityType
  <2>2. ~ (Cardinality(Selection!Games) < Cardinality(1..k))
    <3> SUFFICES ASSUME Cardinality(Selection!Games) < Cardinality(1..k) PROVE FALSE
      OBVIOUS
    <3>1. \E x, y \in 1..k : x # y /\ ga[x] = ga[y]
      BY <1>1, <1>2, <1>3, FS_PigeonHole
    <3> QED  BY <1>2, <3>1
  <2> QED  BY <1>1, <2>1, <2>2
<1>6. sizes \in SUBSET Nat /\ sizes # {} /\ \A n \in sizes : k <= n
  BY <1>4, <1>5, SelectedCardinality
<1>7. Selection!Min(sizes) \in sizes
  <2> HIDE DEF sizes
  <2>1. PICK k0 \in sizes : \A n \in sizes : k0 <= n
    BY <1>6, LeastNumber
  <2> QED  BY <2>1 DEF Selection!Min
<1>8. Selection!Longest = Selection!Min(sizes)
  BY DEF Selection!Longest
<1> HIDE DEF sizes
<1>9. Selection!Min(sizes) \in Nat /\ k <= Selection!Min(sizes)
  BY <1>6, <1>7
<1> QED  BY <1>8, <1>9

ReachedGame(f, g) ==
    \E k \in Nat \ {0} : \E ph, ga : Way(f, k, ph, ga) /\ ga[k] = g

ReachedPhase(f, p) ==
    /\ p \in Phases
    /\ \/ Selection!OfPhase(f, p) < args.quota[p]
       \/ \E g : ReachedGame(f, g) /\ <<p, g>> \in Selection!Cells /\ f[<<p, g>>] > 0

\* A way up to one of its games, and one whose last game is another.
UpTo(s, i) == [j \in 1..i |-> s[j]]
EndingIn(s, i, x) == [j \in 1..i |-> IF j = i THEN x ELSE s[j]]

LEMMA WayUpTo ==
    ASSUME NEW f, NEW k \in Nat \ {0}, NEW ph, NEW ga, Way(f, k, ph, ga), NEW i \in 1..k
    PROVE  Way(f, i, UpTo(ph, i), UpTo(ga, i))
<1> DEFINE p == UpTo(ph, i)
           q == UpTo(ga, i)
<1>1. /\ \A j \in 1..i : j \in 1..k /\ p[j] = ph[j] /\ q[j] = ga[j]
      /\ \A j \in 1..(i - 1) : j \in 1..(k - 1) /\ j \in 1..i /\ j + 1 \in 1..i
      /\ 1 \in 1..i
  BY DEF UpTo
<1>2. /\ ph \in [1..k -> Phases] /\ ga \in [1..k -> Selection!Games]
      /\ \A j \in 1..k : /\ <<ph[j], ga[j]>> \in Selection!Cells
                         /\ f[<<ph[j], ga[j]>>] < Selection!Room(<<ph[j], ga[j]>>)
      /\ \A j \in 1..(k - 1) : <<ph[j + 1], ga[j]>> \in Selection!Cells /\ f[<<ph[j + 1], ga[j]>>] > 0
      /\ \A a, b \in 1..k : a # b => ph[a] # ph[b] /\ ga[a] # ga[b]
      /\ Selection!OfPhase(f, ph[1]) < args.quota[ph[1]]
  BY DEF Way, Forth, Back
<1>3. p \in [1..i -> Phases] /\ q \in [1..i -> Selection!Games]
  BY <1>1, <1>2 DEF UpTo
<1> HIDE DEF p, q
<1>4. /\ \A j \in 1..i : /\ Forth(p, q, j) \in Selection!Cells
                         /\ f[Forth(p, q, j)] < Selection!Room(Forth(p, q, j))
      /\ \A j \in 1..(i - 1) : Back(p, q, j) \in Selection!Cells /\ f[Back(p, q, j)] > 0
  BY <1>1, <1>2 DEF Forth, Back
<1>5. /\ \A a, b \in 1..i : a # b => p[a] # p[b] /\ q[a] # q[b]
      /\ Selection!OfPhase(f, p[1]) < args.quota[p[1]]
  BY <1>1, <1>2
<1>6. Way(f, i, p, q)
  BY <1>3, <1>4, <1>5 DEF Way
<1> QED  BY <1>6 DEF p, q

LEMMA WayEndingIn ==
    ASSUME NEW f, NEW k \in Nat \ {0}, NEW ph, NEW ga, Way(f, k, ph, ga), NEW i \in 1..k,
           NEW g \in Selection!Games, <<ph[i], g>> \in Selection!Cells,
           f[<<ph[i], g>>] < Selection!Room(<<ph[i], g>>), \A j \in 1..k : ga[j] # g
    PROVE  Way(f, i, UpTo(ph, i), EndingIn(ga, i, g))
<1> DEFINE p == UpTo(ph, i)
           q == EndingIn(ga, i, g)
<1>1. /\ \A j \in 1..i : j \in 1..k /\ p[j] = ph[j] /\ q[j] = IF j = i THEN g ELSE ga[j]
      /\ \A j \in 1..(i - 1) : j \in 1..(k - 1) /\ j \in 1..i /\ j + 1 \in 1..i /\ j # i
      /\ 1 \in 1..i
  BY DEF UpTo, EndingIn
<1>2. /\ ph \in [1..k -> Phases] /\ ga \in [1..k -> Selection!Games]
      /\ \A j \in 1..k : /\ <<ph[j], ga[j]>> \in Selection!Cells
                         /\ f[<<ph[j], ga[j]>>] < Selection!Room(<<ph[j], ga[j]>>)
      /\ \A j \in 1..(k - 1) : <<ph[j + 1], ga[j]>> \in Selection!Cells /\ f[<<ph[j + 1], ga[j]>>] > 0
      /\ \A a, b \in 1..k : a # b => ph[a] # ph[b] /\ ga[a] # ga[b]
      /\ Selection!OfPhase(f, ph[1]) < args.quota[ph[1]]
  BY DEF Way, Forth, Back
<1>3. p \in [1..i -> Phases] /\ q \in [1..i -> Selection!Games]
  BY <1>1, <1>2 DEF UpTo, EndingIn
<1> HIDE DEF p, q
<1>4. ASSUME NEW j \in 1..i
      PROVE  /\ Forth(p, q, j) \in Selection!Cells
             /\ f[Forth(p, q, j)] < Selection!Room(Forth(p, q, j))
  <2>1. CASE j = i
    <3>1. Forth(p, q, j) = <<ph[i], g>>
      BY <1>1, <2>1 DEF Forth
    <3> QED  BY <3>1
  <2>2. CASE j # i
    <3>1. Forth(p, q, j) = <<ph[j], ga[j]>> /\ j \in 1..k
      BY <1>1, <2>2 DEF Forth
    <3> QED  BY <1>2, <3>1
  <2> QED  BY <2>1, <2>2
<1>5. \A j \in 1..(i - 1) : Back(p, q, j) \in Selection!Cells /\ f[Back(p, q, j)] > 0
  BY <1>1, <1>2 DEF Back
<1>6. /\ \A a, b \in 1..i : a # b => p[a] # p[b] /\ q[a] # q[b]
      /\ Selection!OfPhase(f, p[1]) < args.quota[p[1]]
  BY <1>1, <1>2
<1>7. Way(f, i, p, q)
  BY <1>3, <1>4, <1>5, <1>6 DEF Way
<1> QED  BY <1>7 DEF p, q

\* A way that goes back from its last game to one more phase.
LEMMA WayExtended ==
    ASSUME NEW f, NEW k \in Nat \ {0}, NEW ph, NEW ga, Way(f, k, ph, ga),
           NEW x \in Phases, NEW g \in Selection!Games,
           <<x, ga[k]>> \in Selection!Cells, f[<<x, ga[k]>>] > 0,
           <<x, g>> \in Selection!Cells, f[<<x, g>>] < Selection!Room(<<x, g>>),
           \A j \in 1..k : ga[j] # g /\ ph[j] # x
    PROVE  Way(f, k + 1, EndingIn(ph, k + 1, x), EndingIn(ga, k + 1, g))
<1> DEFINE p == EndingIn(ph, k + 1, x)
           q == EndingIn(ga, k + 1, g)
<1>1. /\ \A j \in 1..k : j \in 1..(k + 1) /\ p[j] = ph[j] /\ q[j] = ga[j] /\ j # k + 1
      /\ p[k + 1] = x /\ q[k + 1] = g
      /\ \A j \in 1..(k + 1) : j \in 1..k \/ j = k + 1
      /\ \A j \in 1..(k + 1 - 1) : j \in 1..k
      /\ \A j \in 1..(k + 1 - 1) : j = k \/ (j \in 1..(k - 1) /\ j + 1 \in 1..k)
      /\ 1 \in 1..k
  <2>1. /\ \A j \in 1..(k + 1) : p[j] = IF j = k + 1 THEN x ELSE ph[j]
        /\ \A j \in 1..(k + 1) : q[j] = IF j = k + 1 THEN g ELSE ga[j]
    BY DEF EndingIn
  <2> HIDE DEF p, q
  <2>2. k + 1 \in 1..(k + 1) /\ \A j \in 1..k : j \in 1..(k + 1) /\ j # k + 1
    OBVIOUS
  <2>3. \A j \in 1..k : p[j] = ph[j] /\ q[j] = ga[j]
    BY <2>1, <2>2
  <2>4. p[k + 1] = x /\ q[k + 1] = g
    BY <2>1, <2>2
  <2>5. /\ \A j \in 1..(k + 1) : j \in 1..k \/ j = k + 1
        /\ \A j \in 1..(k + 1 - 1) : j \in 1..k
        /\ \A j \in 1..(k + 1 - 1) : j = k \/ (j \in 1..(k - 1) /\ j + 1 \in 1..k)
        /\ 1 \in 1..k
    OBVIOUS
  <2> QED  BY <2>2, <2>3, <2>4, <2>5
<1>2. /\ ph \in [1..k -> Phases] /\ ga \in [1..k -> Selection!Games]
      /\ \A j \in 1..k : /\ <<ph[j], ga[j]>> \in Selection!Cells
                         /\ f[<<ph[j], ga[j]>>] < Selection!Room(<<ph[j], ga[j]>>)
      /\ \A j \in 1..(k - 1) : <<ph[j + 1], ga[j]>> \in Selection!Cells /\ f[<<ph[j + 1], ga[j]>>] > 0
      /\ \A a, b \in 1..k : a # b => ph[a] # ph[b] /\ ga[a] # ga[b]
      /\ Selection!OfPhase(f, ph[1]) < args.quota[ph[1]]
  BY DEF Way, Forth, Back
<1>3. p \in [1..(k + 1) -> Phases] /\ q \in [1..(k + 1) -> Selection!Games]
  <2>1. ASSUME NEW j \in 1..(k + 1) PROVE p[j] \in Phases /\ q[j] \in Selection!Games
    BY <1>1, <1>2
  <2> QED  BY <2>1 DEF EndingIn
<1> HIDE DEF p, q
<1>4. ASSUME NEW j \in 1..(k + 1)
      PROVE  /\ Forth(p, q, j) \in Selection!Cells
             /\ f[Forth(p, q, j)] < Selection!Room(Forth(p, q, j))
  <2>1. CASE j = k + 1
    <3>1. Forth(p, q, j) = <<x, g>>
      BY <1>1, <2>1 DEF Forth
    <3> QED  BY <3>1
  <2>2. CASE j \in 1..k
    <3>1. Forth(p, q, j) = <<ph[j], ga[j]>>
      BY <1>1, <2>2 DEF Forth
    <3> QED  BY <1>2, <2>2, <3>1
  <2> QED  BY <1>1, <2>1, <2>2
<1>5. ASSUME NEW j \in 1..(k + 1 - 1)
      PROVE  Back(p, q, j) \in Selection!Cells /\ f[Back(p, q, j)] > 0
  <2>1. CASE j = k
    <3>1. Back(p, q, j) = <<x, ga[k]>>
      BY <1>1, <2>1 DEF Back
    <3> QED  BY <3>1
  <2>2. CASE j \in 1..(k - 1) /\ j + 1 \in 1..k
    <3>1. Back(p, q, j) = <<ph[j + 1], ga[j]>>
      BY <1>1, <2>2 DEF Back
    <3> QED  BY <1>2, <2>2, <3>1
  <2> QED  BY <1>1, <2>1, <2>2
<1>6. ASSUME NEW a \in 1..(k + 1), NEW b \in 1..(k + 1), a # b
      PROVE  p[a] # p[b] /\ q[a] # q[b]
  BY <1>1, <1>2, <1>6
<1>7. Selection!OfPhase(f, p[1]) < args.quota[p[1]]
  BY <1>1, <1>2
<1>8. Way(f, k + 1, p, q)
  BY <1>3, <1>4, <1>5, <1>6, <1>7 DEF Way
<1> QED  BY <1>8 DEF p, q

\* From a phase that is reached, a game it has more roots of is reached.
LEMMA ReachesGames ==
    ASSUME SelectsFrom, NEW f, NEW p, NEW g, ReachedPhase(f, p),
           <<p, g>> \in Selection!Cells, f[<<p, g>>] < Selection!Room(<<p, g>>)
    PROVE  ReachedGame(f, g)
<1>1. p \in Phases /\ g \in Selection!Games
  BY DEF SelectsFrom
<1>2. CASE Selection!OfPhase(f, p) < args.quota[p]
  <2> DEFINE ph == [j \in 1..1 |-> p]
             ga == [j \in 1..1 |-> g]
  <2>1. /\ ph \in [1..1 -> Phases] /\ ga \in [1..1 -> Selection!Games]
        /\ \A j \in 1..1 : j = 1 /\ ph[j] = p /\ ga[j] = g
        /\ 1 \in 1..1 /\ 1 \in Nat \ {0} /\ \A j : j \notin 1..(1 - 1)
    BY <1>1
  <2> HIDE DEF ph, ga
  <2>2. \A j \in 1..1 : /\ Forth(ph, ga, j) \in Selection!Cells
                        /\ f[Forth(ph, ga, j)] < Selection!Room(Forth(ph, ga, j))
    <3>1. ASSUME NEW j \in 1..1 PROVE Forth(ph, ga, j) = <<p, g>>
      BY <2>1 DEF Forth
    <3> QED  BY <3>1
  <2>3. /\ \A i, j \in 1..1 : i # j => ph[i] # ph[j] /\ ga[i] # ga[j]
        /\ Selection!OfPhase(f, ph[1]) < args.quota[ph[1]]
    BY <1>2, <2>1
  <2>4. Way(f, 1, ph, ga) /\ ga[1] = g
    BY <2>1, <2>2, <2>3 DEF Way
  <2> QED  BY <2>1, <2>4 DEF ReachedGame
<1>3. CASE \E y : ReachedGame(f, y) /\ <<p, y>> \in Selection!Cells /\ f[<<p, y>>] > 0
  <2>1. PICK y : ReachedGame(f, y) /\ <<p, y>> \in Selection!Cells /\ f[<<p, y>>] > 0
    BY <1>3
  <2>2. PICK k \in Nat \ {0} : \E ph, ga : Way(f, k, ph, ga) /\ ga[k] = y
    BY <2>1 DEF ReachedGame
  <2>3. PICK ph, ga : Way(f, k, ph, ga) /\ ga[k] = y
    BY <2>2
  <2>4. CASE \E i \in 1..k : ga[i] = g
    <3>1. PICK i \in 1..k : ga[i] = g
      BY <2>4
    <3>2. Way(f, i, UpTo(ph, i), UpTo(ga, i))
      BY <2>3, WayUpTo
    <3>3. UpTo(ga, i)[i] = g /\ i \in Nat \ {0}
      BY <3>1 DEF UpTo
    <3> QED  BY <3>2, <3>3 DEF ReachedGame
  <2>5. CASE (\A i \in 1..k : ga[i] # g) /\ \E i \in 1..k : ph[i] = p
    <3>1. PICK i \in 1..k : ph[i] = p
      BY <2>5
    <3>2. Way(f, i, UpTo(ph, i), EndingIn(ga, i, g))
      BY <1>1, <2>3, <2>5, <3>1, WayEndingIn
    <3>3. EndingIn(ga, i, g)[i] = g /\ i \in Nat \ {0}
      BY DEF EndingIn
    <3> QED  BY <3>2, <3>3 DEF ReachedGame
  <2>6. CASE \A i \in 1..k : ga[i] # g /\ ph[i] # p
    <3>1. Way(f, k + 1, EndingIn(ph, k + 1, p), EndingIn(ga, k + 1, g))
      BY <1>1, <2>1, <2>3, <2>6, WayExtended
    <3>2. EndingIn(ga, k + 1, g)[k + 1] = g /\ k + 1 \in Nat \ {0}
      BY DEF EndingIn
    <3> QED  BY <3>1, <3>2 DEF ReachedGame
  <2> QED  BY <2>4, <2>5, <2>6
<1> QED  BY <1>2, <1>3 DEF ReachedPhase

\* With nothing left to augment, a game that is reached is at the cap.
LEMMA ReachedGamesAreFull ==
    ASSUME SelectsFrom, FiniteSelection, NEW f, NoneLeft(f), NEW g, ReachedGame(f, g)
    PROVE  g \in Selection!Games /\ ~ (Selection!OfGame(f, g) < args.cap)
<1>1. PICK k \in Nat \ {0} : \E ph, ga : Way(f, k, ph, ga) /\ ga[k] = g
  BY DEF ReachedGame
<1>2. PICK ph, ga : Way(f, k, ph, ga) /\ ga[k] = g
  BY <1>1
<1>3. k \in 1..Selection!Longest
  BY <1>2, WaysAreShort
<1>4. Selection!AugmentingPaths(f, k) = {}
  BY <1>3 DEF NoneLeft
<1>5. g \in Selection!Games
  BY <1>2 DEF Way
<1>6. SUFFICES ASSUME Selection!OfGame(f, g) < args.cap PROVE FALSE
  BY <1>5
<1>7. PICK path : path = <<ph, ga>>
  OBVIOUS
<1>8. path[1] = ph /\ path[2] = ga /\ path = <<path[1], path[2]>>
  BY <1>7
<1>9. Way(f, k, path[1], path[2]) /\ Selection!OfGame(f, path[2][k]) < args.cap
  BY <1>2, <1>6, <1>8
<1>10. path \in Selection!AugmentingPaths(f, k)
  BY <1>8, <1>9, AugmentingWay
<1> QED  BY <1>4, <1>10

\* Phases that are not reached have their quota.
LEMMA UnreachedPhases ==
    ASSUME SelectsFrom, FiniteSelection, NEW f, KeepsTo(f), NEW h, KeepsTo(h),
           NEW A, A = {c \in Selection!Cells : ~ ReachedPhase(f, c[1])}
    PROVE  Selection!SumOver(h, A) <= Selection!SumOver(f, A)
<1>1. /\ A \subseteq Selection!Cells /\ IsFiniteSet(A) /\ IsFiniteSet(Phases)
      /\ Selection!Cells \subseteq Phases \X Selection!Games
  BY FS_Subset DEF SelectsFrom, FiniteSelection
<1>2. /\ DOMAIN f = Selection!Cells /\ \A c \in Selection!Cells : f[c] \in Int
      /\ DOMAIN h = Selection!Cells /\ \A c \in Selection!Cells : h[c] \in Int
  BY DEF KeepsTo
<1> DEFINE key == [c \in A |-> c[1]]
<1>3. \A c \in A : key[c] = c[1] /\ key[c] \in Phases /\ ~ ReachedPhase(f, c[1])
  BY <1>1
<1>4. ASSUME NEW p \in Phases
      PROVE  Selection!SumOver(h, {c \in A : key[c] = p}) <= Selection!SumOver(f, {c \in A : key[c] = p})
  <2> DEFINE S == {c \in A : key[c] = p}
  <2>1. CASE ReachedPhase(f, p)
    <3>1. S = {}
      BY <1>3, <2>1
    <3> HIDE DEF S
    <3>2. Selection!SumOver(h, S) = 0 /\ Selection!SumOver(f, S) = 0
      BY <3>1, SumEmpty
    <3>3. Selection!SumOver(h, S) <= Selection!SumOver(f, S)
      BY <3>2
    <3> QED  BY <3>3 DEF S
  <2>2. CASE ~ ReachedPhase(f, p)
    <3>1. S = CellsOfPhase(p)
      BY <1>1, <1>3, <2>2 DEF CellsOfPhase
    <3> HIDE DEF S
    <3>2. Selection!OfPhase(f, p) = Selection!SumOver(f, S) /\ Selection!OfPhase(f, p) \in Int
      BY <1>2, <3>1, SumsOfCells
    <3>3. Selection!OfPhase(h, p) = Selection!SumOver(h, S) /\ Selection!OfPhase(h, p) \in Int
      BY <1>2, <3>1, SumsOfCells
    <3>4. Selection!OfPhase(h, p) <= args.quota[p] /\ args.quota[p] \in Nat
      BY DEF KeepsTo, SelectsFrom
    <3>5. ~ (Selection!OfPhase(f, p) < args.quota[p])
      BY <2>2 DEF ReachedPhase
    <3>6. Selection!OfPhase(h, p) <= Selection!OfPhase(f, p)
      BY <3>2, <3>3, <3>4, <3>5
    <3>7. Selection!SumOver(h, S) <= Selection!SumOver(f, S)
      BY <3>2, <3>3, <3>6
    <3> QED  BY <3>7 DEF S
  <2> QED  BY <2>1, <2>2
<1>5. \A c \in A : h[c] \in Int /\ f[c] \in Int /\ key[c] \in Phases
  BY <1>1, <1>2, <1>3
<1> HIDE DEF key
<1> QED  BY <1>1, <1>4, <1>5, SumByKeys

\* Games that are reached are at the cap with what phases that are reached
\* send them.
LEMMA ReachedGamesOfPhases ==
    ASSUME SelectsFrom, FiniteSelection, NEW f, KeepsTo(f), NoneLeft(f), NEW h, KeepsTo(h),
           NEW B, B = {c \in Selection!Cells : ReachedPhase(f, c[1]) /\ ReachedGame(f, c[2])}
    PROVE  Selection!SumOver(h, B) <= Selection!SumOver(f, B)
<1>1. /\ B \subseteq Selection!Cells /\ IsFiniteSet(B) /\ IsFiniteSet(Selection!Games)
      /\ Selection!Cells \subseteq Phases \X Selection!Games
  BY FS_Subset DEF SelectsFrom, FiniteSelection
<1>2. /\ DOMAIN f = Selection!Cells /\ \A c \in Selection!Cells : f[c] \in Nat /\ f[c] \in Int
      /\ DOMAIN h = Selection!Cells /\ \A c \in Selection!Cells : h[c] \in Nat /\ h[c] \in Int
  BY DEF KeepsTo
<1> DEFINE key == [c \in B |-> c[2]]
<1>3. \A c \in B : key[c] = c[2] /\ key[c] \in Selection!Games /\ ReachedGame(f, c[2])
  BY <1>1
<1>4. ASSUME NEW g \in Selection!Games
      PROVE  Selection!SumOver(h, {c \in B : key[c] = g}) <= Selection!SumOver(f, {c \in B : key[c] = g})
  <2> DEFINE S == {c \in B : key[c] = g}
             T == CellsOfGame(g)
  <2>1. CASE ~ ReachedGame(f, g)
    <3>1. S = {}
      BY <1>3, <2>1
    <3> HIDE DEF S
    <3>2. Selection!SumOver(h, S) = 0 /\ Selection!SumOver(f, S) = 0
      BY <3>1, SumEmpty
    <3>3. Selection!SumOver(h, S) <= Selection!SumOver(f, S)
      BY <3>2
    <3> QED  BY <3>3 DEF S
  <2>2. CASE ReachedGame(f, g)
    <3>1. S \subseteq T /\ T \subseteq Selection!Cells
      BY <1>1, <1>3 DEF CellsOfGame
    <3>2. \A c \in T \ S : c[1] \in Phases /\ c[2] = g /\ c = <<c[1], g>> /\ ~ ReachedPhase(f, c[1])
      BY <1>1, <1>3, <2>2 DEF CellsOfGame
    <3>3. \A c \in T \ S : f[c] = 0
      <4> SUFFICES ASSUME NEW c \in T \ S PROVE f[c] = 0
        OBVIOUS
      <4>1. ~ (f[<<c[1], g>>] > 0)
        BY <2>2, <3>1, <3>2 DEF ReachedPhase
      <4>2. ~ (f[c] > 0)
        BY <3>2, <4>1
      <4> QED  BY <1>2, <3>1, <4>2
    <3> HIDE DEF S, T
    <3>4. IsFiniteSet(T) /\ IsFiniteSet(T \ S) /\ \A c \in T : f[c] \in Int
      <4>1. IsFiniteSet(T)
        BY <3>1, FS_Subset DEF SelectsFrom
      <4> QED  BY <1>2, <3>1, <4>1, FS_Subset
    <3>4h. \A c \in T : h[c] \in Int
      BY <1>2, <3>1
    <3>5. Selection!OfGame(f, g) = Selection!SumOver(f, T) /\ Selection!OfGame(f, g) \in Int
      BY <1>2, SumsOfCells DEF T
    <3>6. Selection!OfGame(h, g) = Selection!SumOver(h, T) /\ Selection!OfGame(h, g) \in Int
      BY <1>2, SumsOfCells DEF T
    <3>7. /\ Selection!SumOver(f, T) = Selection!SumOver(f, S) + Selection!SumOver(f, T \ S)
          /\ Selection!SumOver(f, S) \in Int
      <4>1. S \in SUBSET T /\ IsFiniteSet(T) /\ HasNumbers(f, T)
        BY <3>1, <3>4 DEF HasNumbers
      <4> QED  BY <4>1, SumHasParts
    <3>8. /\ Selection!SumOver(h, T) = Selection!SumOver(h, S) + Selection!SumOver(h, T \ S)
          /\ Selection!SumOver(h, S) \in Int
      <4>1. S \in SUBSET T /\ IsFiniteSet(T) /\ HasNumbers(h, T)
        BY <3>1, <3>4, <3>4h DEF HasNumbers
      <4> QED  BY <4>1, SumHasParts
    <3>9. Selection!SumOver(f, T \ S) = 0
      BY <3>3, <3>4, SumZero
    <3>10. Selection!SumOver(h, T \ S) \in Nat
      <4>1. \A c \in T \ S : h[c] \in Nat
        BY <1>2, <3>1
      <4> QED  BY <3>4, <4>1, SumNatural
    <3>11. ~ (Selection!OfGame(f, g) < args.cap) /\ args.cap \in Nat
      BY <2>2, ReachedGamesAreFull DEF SelectsFrom
    <3>12. Selection!OfGame(h, g) <= args.cap
      BY DEF KeepsTo
    <3>13. Selection!SumOver(h, S) <= Selection!SumOver(f, S)
      BY <3>5, <3>6, <3>7, <3>8, <3>9, <3>10, <3>11, <3>12
    <3> QED  BY <3>13 DEF S
  <2> QED  BY <2>1, <2>2
<1>5. \A c \in B : h[c] \in Int /\ f[c] \in Int /\ key[c] \in Selection!Games
  BY <1>1, <1>2, <1>3
<1> HIDE DEF key
<1> QED  BY <1>1, <1>4, <1>5, SumByKeys

\* With no augmenting path left, a flow is as large as any that keeps to what
\* is there, the quotas and the cap (max_flow).
LEMMA NothingMoreToSend ==
    ASSUME SelectsFrom, FiniteSelection, NEW f, KeepsTo(f), NoneLeft(f), NEW h, KeepsTo(h)
    PROVE  Selection!SumOver(h, Selection!Cells) <= Selection!SumOver(f, Selection!Cells)
<1> DEFINE C == Selection!Cells
           A == {c \in C : ~ ReachedPhase(f, c[1])}
           D == C \ A
           B == {c \in C : ReachedPhase(f, c[1]) /\ ReachedGame(f, c[2])}
           E == D \ B
<1>1. /\ A \subseteq C /\ B \subseteq D /\ D \subseteq C /\ E \subseteq C
      /\ IsFiniteSet(C) /\ IsFiniteSet(D) /\ IsFiniteSet(E)
  <2>1. IsFiniteSet(C)
    BY DEF SelectsFrom
  <2> QED  BY <2>1, FS_Subset
<1>2. Selection!SumOver(h, A) <= Selection!SumOver(f, A)
  BY UnreachedPhases
<1>3. Selection!SumOver(h, B) <= Selection!SumOver(f, B)
  BY ReachedGamesOfPhases
<1>4. \A c \in C : f[c] \in Nat /\ f[c] \in Int /\ h[c] \in Nat /\ h[c] \in Int
  BY DEF KeepsTo
<1>5. \A c \in E : h[c] <= f[c]
  <2> SUFFICES ASSUME NEW c \in E PROVE h[c] <= f[c]
    OBVIOUS
  <2>1. c \in C /\ ReachedPhase(f, c[1]) /\ ~ ReachedGame(f, c[2])
    OBVIOUS
  <2>2. c = <<c[1], c[2]>>
    BY <2>1 DEF SelectsFrom
  <2> DEFINE p == c[1]
             g == c[2]
  <2> HIDE DEF p, g
  <2>3. ~ (f[<<p, g>>] < Selection!Room(<<p, g>>))
    BY <2>1, <2>2, ReachesGames DEF p, g
  <2>4. ~ (f[c] < Selection!Room(c))
    BY <2>2, <2>3 DEF p, g
  <2>5. h[c] <= Selection!Room(c) /\ Selection!Room(c) \in Nat
    BY <2>1 DEF KeepsTo, SelectsFrom
  <2> HIDE DEF C, E
  <2> QED  BY <1>4, <2>1, <2>4, <2>5
<1> HIDE DEF C, A, D, B, E
<1>6. Selection!SumOver(h, E) <= Selection!SumOver(f, E)
  BY <1>1, <1>4, <1>5, SumMonotone
<1>7. E = D \ B /\ D = C \ A
  BY DEF E, D
<1>8. ASSUME NEW x, \A c \in C : x[c] \in Int
      PROVE  /\ Selection!SumOver(x, C)
                = Selection!SumOver(x, A) + (Selection!SumOver(x, B) + Selection!SumOver(x, E))
             /\ Selection!SumOver(x, A) \in Int
             /\ Selection!SumOver(x, B) \in Int /\ Selection!SumOver(x, E) \in Int
  <2>1. /\ Selection!SumOver(x, C) = Selection!SumOver(x, A) + Selection!SumOver(x, C \ A)
        /\ Selection!SumOver(x, A) \in Int
    <3>1. A \in SUBSET C /\ IsFiniteSet(C) /\ HasNumbers(x, C)
      BY <1>1, <1>8 DEF HasNumbers
    <3> QED  BY <3>1, SumHasParts
  <2>2. \A c \in D : x[c] \in Int
    BY <1>1, <1>8
  <2>3. /\ Selection!SumOver(x, D) = Selection!SumOver(x, B) + Selection!SumOver(x, D \ B)
        /\ Selection!SumOver(x, B) \in Int /\ Selection!SumOver(x, D \ B) \in Int
    <3>1. B \in SUBSET D /\ IsFiniteSet(D) /\ HasNumbers(x, D)
      BY <1>1, <2>2 DEF HasNumbers
    <3> QED  BY <3>1, SumHasParts
  <2> QED  BY <1>7, <2>1, <2>3
<1>9. /\ Selection!SumOver(f, C)
         = Selection!SumOver(f, A) + (Selection!SumOver(f, B) + Selection!SumOver(f, E))
      /\ Selection!SumOver(f, A) \in Int
      /\ Selection!SumOver(f, B) \in Int /\ Selection!SumOver(f, E) \in Int
  BY <1>4, <1>8, Zenon
<1>10. /\ Selection!SumOver(h, C)
          = Selection!SumOver(h, A) + (Selection!SumOver(h, B) + Selection!SumOver(h, E))
       /\ Selection!SumOver(h, A) \in Int
       /\ Selection!SumOver(h, B) \in Int /\ Selection!SumOver(h, E) \in Int
  BY <1>4, <1>8, Zenon
<1>11. Selection!SumOver(h, C) <= Selection!SumOver(f, C)
  BY <1>2, <1>3, <1>6, <1>9, <1>10
<1> QED  BY <1>11 DEF C

-----------------------------------------------------------------------------
(***************************************************************************)
(* From a flow to the roots that are written: each cell gives as many as   *)
(* were sent through it, its least ones by key, and a split policy changes *)
(* none of these numbers.                                                  *)
(***************************************************************************)

\* With distinct keys, n members have fewer than n before them.
LEMMA RankedLeast ==
    ASSUME NEW S, IsFiniteSet(S), NEW key, \A x \in S : key[x] \in Int,
           \A x, y \in S : key[x] = key[y] => x = y, NEW n \in Nat, n <= Cardinality(S)
    PROVE  /\ IsFiniteSet(Fewest(S, n, key)) /\ Fewest(S, n, key) \subseteq S
           /\ Cardinality(Fewest(S, n, key)) = n
<1> DEFINE N == Cardinality(S)
           SmallerKeys(x) == {y \in S : key[y] < key[x]}
           rank == [x \in S |-> Cardinality(SmallerKeys(x))]
           F == Fewest(S, n, key)
<1>1. N \in Nat
  BY FS_CardinalityType
<1>2. \A x \in S : IsFiniteSet(SmallerKeys(x)) /\ Cardinality(SmallerKeys(x)) \in Nat
  <2> SUFFICES ASSUME NEW x \in S PROVE IsFiniteSet(SmallerKeys(x)) /\ Cardinality(SmallerKeys(x)) \in Nat
    OBVIOUS
  <2>1. SmallerKeys(x) \subseteq S
    OBVIOUS
  <2> HIDE DEF SmallerKeys
  <2> QED  BY <2>1, FS_Subset, FS_CardinalityType
<1>3. ASSUME NEW x \in S PROVE rank[x] \in 0..(N - 1)
  <2>1. SmallerKeys(x) \subseteq S \ {x} /\ rank[x] = Cardinality(SmallerKeys(x))
    <3>1. key[x] \in Int
      OBVIOUS
    <3>2. ASSUME NEW y \in S, key[y] < key[x] PROVE y # x
      BY <3>1, <3>2
    <3> QED  BY <3>2
  <2>2. IsFiniteSet(S \ {x}) /\ Cardinality(S \ {x}) = N - 1
    BY FS_RemoveElement
  <2>3. Cardinality(SmallerKeys(x)) <= N - 1 /\ Cardinality(SmallerKeys(x)) \in Nat
    <3> HIDE DEF SmallerKeys, N
    <3>1. Cardinality(SmallerKeys(x)) <= Cardinality(S \ {x})
      BY <2>1, <2>2, FS_Subset
    <3> QED  BY <1>2, <2>2, <3>1
  <2> HIDE DEF SmallerKeys, rank, N
  <2> QED  BY <1>1, <2>1, <2>3
<1>4. ASSUME NEW x \in S, NEW y \in S, key[x] < key[y] PROVE rank[x] < rank[y]
  <2>1. SmallerKeys(x) \subseteq SmallerKeys(y) \ {x} /\ x \in SmallerKeys(y)
    <3>1. ASSUME NEW z \in S, key[z] < key[x] PROVE key[z] < key[y] /\ z # x
      <4>1. key[x] \in Int /\ key[y] \in Int /\ key[z] \in Int
        OBVIOUS
      <4> QED  BY <1>4, <3>1, <4>1
    <3> QED  BY <1>4, <3>1
  <2>2. rank[x] = Cardinality(SmallerKeys(x)) /\ rank[y] = Cardinality(SmallerKeys(y))
    OBVIOUS
  <2>3. IsFiniteSet(SmallerKeys(y)) /\ Cardinality(SmallerKeys(y)) \in Nat /\ Cardinality(SmallerKeys(x)) \in Nat
    BY <1>2
  <2> HIDE DEF SmallerKeys, rank
  <2>4. IsFiniteSet(SmallerKeys(y) \ {x}) /\ Cardinality(SmallerKeys(y) \ {x}) = Cardinality(SmallerKeys(y)) - 1
    BY <2>1, <2>3, FS_RemoveElement
  <2>5. Cardinality(SmallerKeys(x)) <= Cardinality(SmallerKeys(y)) - 1
    BY <2>1, <2>4, FS_Subset
  <2> QED  BY <2>2, <2>3, <2>5
<1>5. ASSUME NEW x \in S, NEW y \in S, rank[x] = rank[y] PROVE x = y
  <2>1. rank[x] \in Int /\ rank[y] \in Int
    <3> HIDE DEF rank
    <3> QED  BY <1>1, <1>3
  <2>2. ~ (key[x] < key[y]) /\ ~ (key[y] < key[x])
    <3> HIDE DEF rank
    <3> QED  BY <1>4, <1>5, <2>1
  <2>3. key[x] \in Int /\ key[y] \in Int
    OBVIOUS
  <2>4. key[x] = key[y]
    BY <2>2, <2>3
  <2> QED  BY <2>4
<1>6. IsFiniteSet(0..(N - 1)) /\ Cardinality(0..(N - 1)) = N
  <2> HIDE DEF N
  <2> QED  BY <1>1, FS_Interval
<1>7. rank \in Surjection(S, 0..(N - 1))
  <2>1. rank \in Injection(S, 0..(N - 1))
    <3>1. rank \in [S -> 0..(N - 1)]
      BY <1>3
    <3> HIDE DEF rank
    <3> QED  BY <1>5, <3>1 DEF Injection, IsInjective
  <2> HIDE DEF rank
  <2> QED  BY <1>6, <2>1, FS_Injection
<1>8. F = {x \in S : rank[x] < n}
  BY DEF Fewest
<1> HIDE DEF rank, F, N
<1> DEFINE first == [x \in F |-> rank[x]]
<1>9. first \in Injection(F, 0..(n - 1)) /\ first \in Surjection(F, 0..(n - 1))
  <2>1. \A x \in F : x \in S /\ rank[x] \in 0..(n - 1)
    <3>1. \A x \in F : x \in S /\ rank[x] \in Nat /\ rank[x] < n
      BY <1>1, <1>3, <1>8
    <3> QED  BY <3>1
  <2>2. first \in [F -> 0..(n - 1)]
    BY <2>1
  <2>3. ASSUME NEW i \in 0..(n - 1) PROVE \E x \in F : first[x] = i
    <3>1. i \in 0..(N - 1) /\ i < n
      BY <1>1 DEF N
    <3>2. PICK x \in S : rank[x] = i
      BY <1>7, <3>1 DEF Surjection
    <3> QED  BY <1>8, <3>1, <3>2
  <2>4. \A x, y \in F : first[x] = first[y] => x = y
    BY <1>5, <2>1
  <2> HIDE DEF first
  <2> QED  BY <2>2, <2>3, <2>4 DEF Injection, IsInjective, Surjection
<1>10. IsFiniteSet(0..(n - 1)) /\ Cardinality(0..(n - 1)) = n
  BY FS_Interval
<1>11. F \subseteq S
  BY <1>8
<1> HIDE DEF first
<1>12. IsFiniteSet(F) /\ (Cardinality(F) = Cardinality(0..(n - 1)))
  BY <1>9, <1>10, FS_Injection
<1> QED  BY <1>10, <1>11, <1>12 DEF F

\* Roots told apart by their boards, and their boards by their keys.
RootsApart(R) ==
    /\ IsFiniteSet(R) /\ BoardsApart(args.seed, BoardsOf(R))
    /\ \A r, x \in R : r.board = x.board => r = x

LEMMA LeastRoots ==
    ASSUME NEW R, RootsApart(R), NEW n \in Nat, n <= Cardinality(R)
    PROVE  /\ IsFiniteSet(Selection!Least(R, n)) /\ Selection!Least(R, n) \subseteq R
           /\ Cardinality(Selection!Least(R, n)) = n
<1> DEFINE key == [r \in R |-> BoardKey(args.seed, r.board)]
<1>1. \A r \in R : key[r] = BoardKey(args.seed, r.board) /\ r.board \in BoardsOf(R)
  BY DEF BoardsOf
<1>2. Selection!Least(R, n) = Fewest(R, n, key)
  <2>1. ASSUME NEW r \in R
        PROVE  {x \in R : SampleKey(args.seed, <<x.board>>) < SampleKey(args.seed, <<r.board>>)}
               = {x \in R : key[x] < key[r]}
    BY <1>1 DEF BoardKey
  <2>2. Selection!Least(R, n)
        = {r \in R : Cardinality({x \in R : SampleKey(args.seed, <<x.board>>)
                                            < SampleKey(args.seed, <<r.board>>)}) < n}
    BY SelectedCardinality DEF Selection!Least
  <2> HIDE DEF key
  <2> QED  BY <2>1, <2>2 DEF Fewest
<1> HIDE DEF key
<1>3. \A r \in R : key[r] \in Int
  BY <1>1 DEF RootsApart, BoardsApart
<1>4. \A r, x \in R : key[r] = key[x] => r = x
  BY <1>1 DEF RootsApart, BoardsApart
<1>5. IsFiniteSet(R)
  BY DEF RootsApart
<1> QED  BY <1>2, <1>3, <1>4, <1>5, RankedLeast

LEMMA SomeRootsApart ==
    ASSUME NEW R, RootsApart(R), NEW T \in SUBSET R
    PROVE  RootsApart(T)
<1>1. IsFiniteSet(T)
  BY FS_Subset DEF RootsApart
<1>2. BoardsOf(T) \subseteq BoardsOf(R)
  BY DEF BoardsOf
<1> QED  BY <1>1, <1>2 DEF RootsApart, BoardsApart

\* What a selection with a cap reads.
Selecting ==
    /\ args.tool = "select_phases" /\ Legal(args) /\ args.cap # None
    /\ files.normalized # None /\ NormalizedRows(files.normalized)

LEMMA RootsLoaded ==
    ASSUME Selecting
    PROVE  /\ RootsApart(Selection!load_roots)
           /\ Selection!load_roots \subseteq files.normalized
<1> DEFINE rows == files.normalized
           U == Selection!load_roots
<1>1. U = {row \in rows : \A x \in rows : x.board = row.board => row.ordinal <= x.ordinal}
  BY DEF Selection!load_roots, Selection!unique_roots
<1>2. /\ IsFiniteSet(rows) /\ \A r \in rows : r.ordinal \in Nat /\ r.board \in KnownBoards
      /\ \A r, x \in rows : r.ordinal = x.ordinal => r = x
  BY DEF Selecting, NormalizedRows
<1> HIDE DEF rows, U
<1>3. U \subseteq rows /\ IsFiniteSet(U)
  BY <1>1, <1>2, FS_Subset
<1>4. ASSUME NEW r \in U, NEW x \in U, r.board = x.board PROVE r = x
  <2>1. r.ordinal <= x.ordinal /\ x.ordinal <= r.ordinal /\ r \in rows /\ x \in rows
    BY <1>1, <1>4
  <2>2. r.ordinal = x.ordinal
    BY <1>2, <2>1
  <2> QED  BY <1>2, <2>1, <2>2
<1>5. BoardsApart(args.seed, BoardsOf(U))
  <2> DEFINE boards == KnownBoards
             seed == args.seed
  <2>1. KeysApart(seed, {<<b>> : b \in boards})
    BY DEF Selecting, Legal
  <2>2. BoardsOf(U) \subseteq boards
    BY <1>2, <1>3 DEF BoardsOf
  <2> HIDE DEF boards, seed
  <2>3. BoardsApart(seed, boards)
    BY <2>1, BoardsKeysApart
  <2>4. BoardsApart(seed, BoardsOf(U))
    BY <2>2, <2>3 DEF BoardsApart
  <2> QED  BY <2>4 DEF seed
<1>6. RootsApart(U)
  BY <1>3, <1>4, <1>5 DEF RootsApart
<1> QED  BY <1>3, <1>6 DEF U, rows

RootsOfCell(c) == Selection!roots_by_phase_and_game(c[1], c[2])

\* What can be selected is finite, and a cell has room for what is in it.
LEMMA CellsToSelect ==
    ASSUME Selecting
    PROVE  /\ SelectsFrom /\ FiniteSelection
           /\ \A c : RootsApart(RootsOfCell(c)) /\ Selection!Room(c) = Cardinality(RootsOfCell(c))
<1> DEFINE U == Selection!load_roots
           G == Selection!Games
<1>1. IsFiniteSet(Phases)
  BY PhasesAssumption
<1>2. RootsApart(U) /\ IsFiniteSet(U)
  BY RootsLoaded DEF RootsApart
<1>3. IsFiniteSet(G)
  <2> DEFINE game == [r \in U |-> r.game]
  <2>1. G = {r.game : r \in U}
    BY DEF Selection!Games
  <2> HIDE DEF G, U
  <2>2. game \in Surjection(U, G)
    BY <2>1 DEF Surjection
  <2> HIDE DEF game
  <2> QED  BY <1>2, <2>2, FS_Surjection
<1>4. IsFiniteSet(Phases \X G)
  <2> HIDE DEF G
  <2> QED  BY <1>1, <1>3, FS_Product
<1>5. Selection!Cells \subseteq Phases \X G /\ IsFiniteSet(Selection!Cells)
  <2>1. Selection!Cells \subseteq Phases \X G
    BY DEF Selection!Cells
  <2> HIDE DEF G
  <2> QED  BY <1>4, <2>1, FS_Subset
<1>6. ASSUME NEW c
      PROVE  /\ RootsApart(RootsOfCell(c)) /\ Selection!Room(c) = Cardinality(RootsOfCell(c))
             /\ Selection!Room(c) \in Nat
  <2>1. RootsOfCell(c) \in SUBSET U
    BY DEF RootsOfCell, Selection!roots_by_phase_and_game
  <2>2. RootsApart(RootsOfCell(c))
    <3> HIDE DEF U
    <3> QED  BY <1>2, <2>1, SomeRootsApart
  <2>3. Selection!Room(c) = Cardinality(RootsOfCell(c))
    BY SelectedCardinality DEF Selection!Room, RootsOfCell
  <2>4. Cardinality(RootsOfCell(c)) \in Nat
    BY <2>2, FS_CardinalityType DEF RootsApart
  <2> QED  BY <2>2, <2>3, <2>4
<1>7. args.quota \in [Phases -> Nat] /\ args.cap \in Nat
  <2>1. args.quota \in [Phases -> Nat \ {0}] /\ Positive(args.cap) /\ args.cap # None
    BY DEF Selecting, Legal
  <2>2. args.quota \in [Phases -> Nat]
    BY <2>1
  <2> QED  BY <2>1, <2>2 DEF Positive
<1> QED  BY <1>1, <1>3, <1>5, <1>6, <1>7 DEF SelectsFrom, FiniteSelection

\* The roots of a cell are of its phase and game, and no root is of two.
LEMMA RootsInTheirCells ==
    ASSUME Selecting
    PROVE  /\ \A c \in Selection!Cells : \A r \in RootsOfCell(c) : <<r.phase, r.game>> = c
           /\ \A c \in Selection!Cells : c = <<c[1], c[2]>>
<1>1. ASSUME NEW c \in Selection!Cells PROVE c = <<c[1], c[2]>>
  BY CellsToSelect DEF SelectsFrom
<1>2. ASSUME NEW c \in Selection!Cells, NEW r \in RootsOfCell(c) PROVE <<r.phase, r.game>> = c
  <2>1. r.phase = c[1] /\ r.game = c[2]
    BY DEF RootsOfCell, Selection!roots_by_phase_and_game
  <2> QED  BY <1>1, <2>1
<1> QED  BY <1>1, <1>2

\* Of what is selected, each cell has as many as are sent through it.
Selected(f) == UNION {Selection!Least(RootsOfCell(c), f[c]) : c \in Selection!Cells}
SelectedOf(f, c) == {r \in Selected(f) : r.phase = c[1] /\ r.game = c[2]}

LEMMA SelectedOfCell ==
    ASSUME Selecting, NEW f, KeepsTo(f), NEW c \in Selection!Cells
    PROVE  Cardinality(SelectedOf(f, c)) = f[c]
<1> DEFINE L(d) == Selection!Least(RootsOfCell(d), f[d])
<1>1. \A d \in Selection!Cells : /\ L(d) \subseteq RootsOfCell(d)
                                 /\ Cardinality(L(d)) = f[d]
  <2> SUFFICES ASSUME NEW d \in Selection!Cells
               PROVE  L(d) \subseteq RootsOfCell(d) /\ Cardinality(L(d)) = f[d]
    OBVIOUS
  <2> DEFINE R == RootsOfCell(d)
             n == f[d]
  <2>1. RootsApart(R) /\ n \in Nat /\ n <= Cardinality(R)
    BY CellsToSelect DEF KeepsTo
  <2> HIDE DEF R, n
  <2>2. Selection!Least(R, n) \subseteq R /\ Cardinality(Selection!Least(R, n)) = n
    BY <2>1, LeastRoots
  <2> QED  BY <2>2 DEF R, n
<1>2. /\ \A d \in Selection!Cells : \A r \in RootsOfCell(d) : <<r.phase, r.game>> = d
      /\ \A d \in Selection!Cells : d = <<d[1], d[2]>>
  BY RootsInTheirCells
<1>3. SelectedOf(f, c) = L(c)
  <2>1. ASSUME NEW r \in SelectedOf(f, c) PROVE r \in L(c)
    <3>1. r.phase = c[1] /\ r.game = c[2] /\ r \in Selected(f)
      BY DEF SelectedOf
    <3>2. PICK d \in Selection!Cells : r \in L(d)
      BY <3>1 DEF Selected
    <3> HIDE DEF L
    <3>3. <<r.phase, r.game>> = d
      BY <1>1, <1>2, <3>2
    <3>4. d = c
      BY <1>2, <3>1, <3>3
    <3> QED  BY <3>2, <3>4
  <2>2. ASSUME NEW r \in L(c) PROVE r \in SelectedOf(f, c)
    <3>1. r \in Selected(f)
      BY DEF Selected
    <3> HIDE DEF L
    <3>2. <<r.phase, r.game>> = <<c[1], c[2]>>
      BY <1>1, <1>2
    <3> QED  BY <3>1, <3>2 DEF SelectedOf
  <2> QED  BY <2>1, <2>2
<1> QED  BY <1>1, <1>3

LEMMA SelectedRoots ==
    ASSUME Selecting, NEW f, KeepsTo(f)
    PROVE  /\ Selected(f) \subseteq Selection!load_roots /\ IsFiniteSet(Selected(f))
           /\ \A r \in Selected(f) : <<r.phase, r.game>> \in Selection!Cells
           /\ Cardinality(Selected(f)) = Selection!SumOver(f, Selection!Cells)
<1> DEFINE S == Selected(f)
           C == Selection!Cells
           L(d) == Selection!Least(RootsOfCell(d), f[d])
           key == [r \in S |-> <<r.phase, r.game>>]
           count == CountsByKey(S, key, C)
<1>1. \A d \in C : L(d) \subseteq RootsOfCell(d)
  BY DEF Selection!Least
<1>2. /\ \A d \in C : \A r \in RootsOfCell(d) : <<r.phase, r.game>> = d
      /\ \A d \in C : d = <<d[1], d[2]>>
  BY RootsInTheirCells
<1>3. ASSUME NEW r \in S
      PROVE  r \in Selection!load_roots /\ <<r.phase, r.game>> \in C
  <2>1. PICK d \in C : r \in L(d)
    BY DEF Selected
  <2> HIDE DEF L, C
  <2>2. r \in RootsOfCell(d)
    BY <1>1, <2>1
  <2>3. r \in Selection!load_roots
    BY <2>2 DEF RootsOfCell, Selection!roots_by_phase_and_game
  <2> QED  BY <1>2, <2>2, <2>3
<1>4. S \subseteq Selection!load_roots /\ IsFiniteSet(S)
  <2>1. IsFiniteSet(Selection!load_roots)
    BY RootsLoaded DEF RootsApart
  <2> HIDE DEF S
  <2> QED  BY <1>3, <2>1, FS_Subset
<1>5. IsFiniteSet(C) /\ \A r \in S : key[r] \in C
  BY <1>3, CellsToSelect DEF SelectsFrom
<1>6. \A d \in C : count[d] = f[d]
  <2> SUFFICES ASSUME NEW d \in C PROVE count[d] = f[d]
    OBVIOUS
  <2>1. {r \in S : key[r] = d} = SelectedOf(f, d)
    BY <1>2 DEF SelectedOf
  <2>2. count[d] = Cardinality({r \in S : key[r] = d})
    BY DEF CountsByKey
  <2> QED  BY <2>1, <2>2, SelectedOfCell
<1> HIDE DEF S, C, key, count
<1>7. Selection!SumOver(count, C) = Selection!SumOver(f, C)
  BY <1>5, <1>6, SumSame
<1>8. Cardinality(S) = Selection!SumOver(count, C)
  BY <1>4, <1>5, CardinalityIsSum DEF count
<1> QED  BY <1>3, <1>4, <1>7, <1>8 DEF S, C

\* A split policy changes nothing else and keeps roots apart.
Resplit(r) ==
    [r EXCEPT !.split = IF r.phase \in args.train_only THEN "train"
                        ELSE IF args.split_policy = "preserve" THEN r.split
                        ELSE SelectedSplit(r.game)]

LEMMA ResplitKeeps ==
    ASSUME NEW r, {"board", "game", "phase"} \subseteq DOMAIN r
    PROVE  Resplit(r).board = r.board /\ Resplit(r).game = r.game /\ Resplit(r).phase = r.phase
BY DEF Resplit

LEMMA ResplitCounts ==
    ASSUME NEW R, IsFiniteSet(R), \A r \in R : {"board", "game", "phase"} \subseteq DOMAIN r,
           \A r, x \in R : r.board = x.board => r = x,
           NEW Out, Out = {Resplit(r) : r \in R}
    PROVE  IsFiniteSet(Out) /\ Cardinality(Out) = Cardinality(R)
<1> DEFINE to == [r \in R |-> Resplit(r)]
<1>1. to \in Surjection(R, Out)
  BY DEF Surjection
<1>2. \A r \in R : to[r].board = r.board
  <2> SUFFICES ASSUME NEW r \in R PROVE to[r].board = r.board
    OBVIOUS
  <2>1. to[r] = Resplit(r)
    OBVIOUS
  <2> HIDE DEF to
  <2> QED  BY <2>1, ResplitKeeps
<1> HIDE DEF to
<1>3. to \in Injection(R, Out)
  <2>1. to \in [R -> Out]
    BY <1>1 DEF Surjection
  <2>2. ASSUME NEW r \in R, NEW x \in R, to[r] = to[x] PROVE r = x
    <3>1. r.board = x.board
      BY <1>2, <2>2
    <3> QED  BY <3>1
  <2> QED  BY <2>1, <2>2 DEF Injection, IsInjective
<1> QED  BY <1>1, <1>3, FS_Surjection

Resplits(R) == {Resplit(r) : r \in R}
OfCell(R, p, g) == {r \in R : r.phase = p /\ r.game = g}

LEMMA ResplitOfCell ==
    ASSUME NEW R, \A r \in R : {"board", "game", "phase"} \subseteq DOMAIN r, NEW p, NEW g
    PROVE  OfCell(Resplits(R), p, g) = Resplits(OfCell(R, p, g))
<1>1. ASSUME NEW o \in OfCell(Resplits(R), p, g)
      PROVE  o \in Resplits(OfCell(R, p, g))
  <2>1. PICK r \in R : o = Resplit(r)
    BY DEF OfCell, Resplits
  <2>2. r.phase = p /\ r.game = g
    BY <2>1, ResplitKeeps DEF OfCell
  <2> QED  BY <2>1, <2>2 DEF OfCell, Resplits
<1>2. ASSUME NEW r \in OfCell(R, p, g)
      PROVE  Resplit(r) \in OfCell(Resplits(R), p, g)
  BY ResplitKeeps DEF OfCell, Resplits
<1>3. \A o \in Resplits(OfCell(R, p, g)) : o \in OfCell(Resplits(R), p, g)
  BY <1>2 DEF Resplits
<1> QED  BY <1>1, <1>3

\* What a selection with a cap writes has as many roots of each phase and
\* game as were sent, and as many as any that keeps to the quotas and the
\* cap.
MostRoots(out) ==
    LET chosen == [c \in Selection!Cells |->
                      Cardinality({r \in out : r.phase = c[1] /\ r.game = c[2]})]
    IN  /\ chosen \in Feasible
        /\ Cardinality(out) = Max({Selection!SumOver(f, Selection!Cells) : f \in Feasible})

LEMMA FeasibleFlows ==
    ASSUME SelectsFrom
    PROVE  \A f : f \in Feasible <=> KeepsTo(f)
<1> DEFINE C == Selection!Cells
           rooms == {Selection!Room(c) : c \in C} \cup {0}
           most == Max(rooms)
<1>1. most \in Nat /\ \A c \in C : Selection!Room(c) <= most
  <2> DEFINE key == [n \in rooms |-> n]
             room == [c \in C |-> Selection!Room(c)]
             R == {Selection!Room(c) : c \in C}
  <2>1. IsFiniteSet(C) /\ \A c \in C : Selection!Room(c) \in Nat
    BY DEF SelectsFrom
  <2>2. IsFiniteSet(R)
    <3>1. room \in Surjection(C, R)
      BY DEF Surjection
    <3> HIDE DEF room, R, C
    <3> QED  BY <2>1, <3>1, FS_Surjection
  <2>3. IsFiniteSet(rooms) /\ rooms # {} /\ rooms \subseteq Nat /\ rooms = R \cup {0}
    <3>1. rooms = R \cup {0} /\ rooms # {} /\ rooms \subseteq Nat
      BY <2>1
    <3> HIDE DEF rooms, R
    <3>2. IsFiniteSet(R \cup {0})
      BY <2>2, FS_AddElement
    <3> QED  BY <3>1, <3>2
  <2> HIDE DEF rooms
  <2>4. \A n \in rooms : key[n] \in Int /\ key[n] = n
    BY <2>3
  <2> HIDE DEF key
  <2>5. PICK m \in rooms : \A n \in rooms : key[n] <= key[m]
    BY <2>3, <2>4, GreatestKey
  <2>6. \A n \in rooms : n <= m
    BY <2>4, <2>5
  <2>7. most \in rooms /\ \A n \in rooms : n <= most
    BY <2>6 DEF Max
  <2> HIDE DEF most
  <2> QED  BY <2>3, <2>7 DEF rooms
<1> HIDE DEF most
<1>2. Feasible = {f \in [C -> 0..most] :
        /\ \A c \in C : f[c] <= Selection!Room(c)
        /\ \A p \in Phases : Selection!OfPhase(f, p) <= args.quota[p]
        /\ \A g \in Selection!Games : Selection!OfGame(f, g) <= args.cap}
  BY DEF Feasible, most
<1>3. ASSUME NEW f \in Feasible PROVE KeepsTo(f)
  <2>1. f \in [C -> 0..most]
    BY <1>2
  <2>2. f = [c \in C |-> f[c]] /\ \A c \in C : f[c] \in Nat
    BY <1>1, <2>1
  <2> QED  BY <1>2, <2>2 DEF KeepsTo
<1>4. ASSUME NEW f, KeepsTo(f) PROVE f \in Feasible
  <2>1. f = [c \in C |-> f[c]] /\ \A c \in C : f[c] \in Nat /\ f[c] <= Selection!Room(c)
    BY <1>4 DEF KeepsTo
  <2>2. \A c \in C : f[c] \in 0..most
    <3> SUFFICES ASSUME NEW c \in C PROVE f[c] \in 0..most
      OBVIOUS
    <3>1. f[c] \in Nat /\ f[c] <= Selection!Room(c) /\ Selection!Room(c) <= most
          /\ Selection!Room(c) \in Nat /\ most \in Nat
      BY <1>1, <2>1 DEF SelectsFrom
    <3> QED  BY <3>1
  <2>3. f \in [C -> 0..most]
    BY <2>1, <2>2
  <2> QED  BY <1>2, <1>4, <2>1, <2>3 DEF KeepsTo
<1> QED  BY <1>3, <1>4

LEMMA GreatestSum ==
    ASSUME SelectsFrom, FiniteSelection, NEW f, KeepsTo(f), NoneLeft(f)
    PROVE  Selection!SumOver(f, Selection!Cells)
           = Max({Selection!SumOver(h, Selection!Cells) : h \in Feasible})
<1> DEFINE sums == {Selection!SumOver(h, Selection!Cells) : h \in Feasible}
           m == Selection!SumOver(f, Selection!Cells)
<1>1. f \in Feasible /\ \A h \in Feasible : KeepsTo(h)
  BY FeasibleFlows
<1>2. ASSUME NEW h \in Feasible
      PROVE  /\ Selection!SumOver(h, Selection!Cells) \in Int
             /\ Selection!SumOver(h, Selection!Cells) <= m
  <2>1. KeepsTo(h)
    BY <1>1
  <2>2. IsFiniteSet(Selection!Cells) /\ \A c \in Selection!Cells : h[c] \in Int
    BY <2>1 DEF SelectsFrom, KeepsTo
  <2>3. Selection!SumOver(h, Selection!Cells) \in Int
    BY <2>2, SumTakesOut
  <2>4. Selection!SumOver(h, Selection!Cells) <= m
    BY <2>1, NothingMoreToSend
  <2> QED  BY <2>3, <2>4
<1>3. m \in sums /\ \A y \in sums : y \in Int /\ y <= m
  BY <1>1, <1>2
<1> HIDE DEF sums, m
<1>4. Max(sums) \in sums /\ \A y \in sums : y <= Max(sums)
  <2>1. \E x \in sums : \A y \in sums : y <= x
    BY <1>3
  <2> QED  BY <2>1 DEF Max
<1> DEFINE most == Max(sums)
<1>5. m \in Int /\ most \in Int /\ m <= most /\ most <= m
  BY <1>3, <1>4
<1>6. m = most
  <2> HIDE DEF most
  <2> QED  BY <1>5
<1> QED  BY <1>6 DEF sums, m

LEMMA SelectionHasMost ==
    ASSUME Selecting, KeepsTo(flow), Selection!Shortest(flow) = {},
           NEW out, out = Selection!apply_selected_split_policy(Selection!select_with_game_cap)
    PROVE  MostRoots(out)
<1> DEFINE R == Selected(flow)
           C == Selection!Cells
           chosen == [c \in C |-> Cardinality({r \in out : r.phase = c[1] /\ r.game = c[2]})]
<1>1. SelectsFrom /\ FiniteSelection /\ NoneLeft(flow)
  BY CellsToSelect, NothingShortest
<1>2. out = {Resplit(r) : r \in R}
  <2>1. Selection!select_with_game_cap = R
    BY DEF Selection!select_with_game_cap, Selected, RootsOfCell
  <2> HIDE DEF R
  <2>2. out = Selection!apply_selected_split_policy(R)
    BY <2>1
  <2>3. ASSUME NEW o \in out PROVE o \in {Resplit(r) : r \in R}
    BY <2>2 DEF Selection!apply_selected_split_policy, Resplit
  <2>4. ASSUME NEW r \in R PROVE Resplit(r) \in out
    BY <2>2 DEF Selection!apply_selected_split_policy, Resplit
  <2> QED  BY <2>3, <2>4
<1>3. /\ R \subseteq Selection!load_roots /\ IsFiniteSet(R)
      /\ \A r \in R : <<r.phase, r.game>> \in C
      /\ Cardinality(R) = Selection!SumOver(flow, C)
  BY SelectedRoots
<1>4. \A r \in R : {"board", "game", "phase"} \subseteq DOMAIN r
  BY <1>3, RootsLoaded DEF Selecting, NormalizedRows
<1>5. \A r, x \in R : r.board = x.board => r = x
  BY <1>3, RootsLoaded DEF RootsApart
<1> HIDE DEF R
<1>6. Cardinality(out) = Cardinality(R)
  BY <1>2, <1>3, <1>4, <1>5, ResplitCounts
<1>7. ASSUME NEW c \in C
      PROVE  Cardinality({r \in out : r.phase = c[1] /\ r.game = c[2]}) = flow[c]
  <2> DEFINE p == c[1]
             g == c[2]
             D == OfCell(R, p, g)
             E == OfCell(out, p, g)
  <2>1. E = {Resplit(r) : r \in D}
    <3> HIDE DEF p, g
    <3>1. out = Resplits(R)
      BY <1>2 DEF Resplits
    <3>2. E = Resplits(D)
      BY <1>4, <3>1, ResplitOfCell
    <3> QED  BY <3>2 DEF Resplits
  <2>2. IsFiniteSet(D) /\ D \subseteq R
    BY <1>3, FS_Subset DEF OfCell
  <2>3. D = SelectedOf(flow, c)
    BY DEF SelectedOf, OfCell, R
  <2> HIDE DEF D, E
  <2>4. \A r \in D : {"board", "game", "phase"} \subseteq DOMAIN r
    BY <1>4, <2>2
  <2>5. \A r, x \in D : r.board = x.board => r = x
    BY <1>5, <2>2
  <2>6. Cardinality(E) = Cardinality(D)
    BY <2>1, <2>2, <2>4, <2>5, ResplitCounts
  <2>7. Cardinality(D) = flow[c]
    BY <2>3, SelectedOfCell
  <2> QED  BY <2>6, <2>7 DEF E, OfCell
<1>8. chosen = flow
  <2>1. flow = [c \in C |-> flow[c]]
    BY DEF KeepsTo
  <2> HIDE DEF C
  <2>2. chosen = [c \in C |-> flow[c]]
    BY <1>7
  <2> QED  BY <2>1, <2>2
<1>9. flow \in Feasible
  BY <1>1, FeasibleFlows
<1>10. Cardinality(out) = Max({Selection!SumOver(h, Selection!Cells) : h \in Feasible})
  BY <1>1, <1>3, <1>6, GreatestSum
<1>11. chosen \in Feasible
  BY <1>8, <1>9
<1> QED  BY <1>10, <1>11 DEF MostRoots

-----------------------------------------------------------------------------
(***************************************************************************)
(* The invariant: rows are numbered as they are read, so that no two have  *)
(* one key, until a selection reads them; a selection under way has a flow *)
(* that keeps to the limits.                                               *)
(***************************************************************************)

\* Rows that are numbered as they were read.
RowsNumbered(rows, n) ==
    /\ n \in Nat /\ IsFiniteSet(rows)
    /\ \A r \in rows : /\ {"split", "board", "game", "phase", "ordinal"} \subseteq DOMAIN r
                       /\ r.ordinal \in 1..n /\ r.board \in KnownBoards
    /\ \A r, x \in rows : r.ordinal = x.ordinal => r = x

CommandIsGiven ==
    args # None => \E step \in DOMAIN CommandLines : args \in CommandLines[step]

NormalizedIsSound == files.normalized # None => NormalizedRows(files.normalized)

BoardRowsAreNumbered ==
    Running("import_board_scores") =>
        /\ RowsNumbered(summary.considered, summary.candidates)
        /\ ~BoardScores!Enabled => sample \subseteq summary.considered

FlowKeeps ==
    Running("select_phases") /\ args.cap # None /\ flow # None =>
        files.normalized # None /\ KeepsTo(flow)

RowsInv == CommandIsGiven /\ NormalizedIsSound /\ BoardRowsAreNumbered
SelectionInv == RowsInv /\ FlowKeeps /\ SelectionIsMaximal

LEMMA SomeNumbered ==
    ASSUME NEW rows, NEW n, RowsNumbered(rows, n), NEW some \in SUBSET rows
    PROVE  NormalizedRows(some)
<1>1. IsFiniteSet(some)
  BY FS_Subset DEF RowsNumbered
<1>2. \A r \in some : r.ordinal \in Nat
  BY DEF RowsNumbered
<1> QED  BY <1>1, <1>2 DEF RowsNumbered, NormalizedRows

LEMMA OneMoreNumbered ==
    ASSUME NEW rows, NEW n, NEW row, RowsNumbered(rows, n), row.ordinal = n + 1,
           {"split", "board", "game", "phase", "ordinal"} \subseteq DOMAIN row,
           row.board \in KnownBoards
    PROVE  RowsNumbered(rows \cup {row}, n + 1)
<1>1. n \in Nat /\ IsFiniteSet(rows) /\ \A r \in rows : r.ordinal \in 1..n
  BY DEF RowsNumbered
<1>2. IsFiniteSet(rows \cup {row})
  BY <1>1, FS_AddElement
<1>3. ASSUME NEW r \in rows PROVE r.ordinal # row.ordinal /\ r.ordinal \in 1..(n + 1)
  BY <1>1
<1>4. ASSUME NEW r \in rows \cup {row}, NEW x \in rows \cup {row}, r.ordinal = x.ordinal
      PROVE  r = x
  BY <1>3, <1>4 DEF RowsNumbered
<1>5. ASSUME NEW r \in rows \cup {row}
      PROVE  /\ {"split", "board", "game", "phase", "ordinal"} \subseteq DOMAIN r
             /\ r.ordinal \in 1..(n + 1) /\ r.board \in KnownBoards
  <2>1. CASE r = row
    BY <1>1, <2>1
  <2>2. CASE r \in rows
    BY <1>3, <2>2 DEF RowsNumbered
  <2> QED  BY <2>1, <2>2
<1> QED  BY <1>1, <1>2, <1>4, <1>5 DEF RowsNumbered

\* A split given to them leaves rows numbered.
LEMMA ResplitNumbered ==
    ASSUME NEW rows, NEW n, RowsConsidered(rows, n)
    PROVE  NormalizedRows(Import!connected_board_game_resplit(rows))
<1> DEFINE find == Import!Components(rows)
           Node(r) == Import!GameNode(r)
           members(m) == {k \in DOMAIN find : find[k] = find[m]}
           to == [r \in rows |-> [r EXCEPT !.split = ComponentSplit(Import!Min(members(Node(r))))]]
           Out == Import!connected_board_game_resplit(rows)
<1>1. Out = {to[r] : r \in rows}
  BY DEF Import!connected_board_game_resplit
<1>2. /\ IsFiniteSet(rows)
      /\ \A r \in rows : /\ {"split", "board", "game", "phase", "ordinal"} \subseteq DOMAIN r
                         /\ r.ordinal \in Nat /\ r.board \in KnownBoards
      /\ \A r, x \in rows : r.ordinal = x.ordinal => r = x
  <2>1. ASSUME NEW r \in rows PROVE r.board \in KnownBoards
    <3>1. Import!position(r) \in Positions /\ Import!position(r)[3] = r.board
      BY DEF RowsConsidered, Import!position
    <3> QED  BY <3>1 DEF KnownBoards
  <2>2. \A r \in rows : r.ordinal \in Nat
    BY DEF RowsConsidered
  <2> QED  BY <2>1, <2>2 DEF RowsConsidered
<1>3. ASSUME NEW r \in rows
      PROVE  /\ DOMAIN to[r] = DOMAIN r
             /\ to[r].ordinal = r.ordinal /\ to[r].board = r.board
  <2> DEFINE s == ComponentSplit(Import!Min(members(Node(r))))
  <2>1. to[r] = [r EXCEPT !.split = s]
    OBVIOUS
  <2> HIDE DEF s, to
  <2> QED  BY <1>2, <2>1
<1>4. DOMAIN to = rows
  OBVIOUS
<1> HIDE DEF to, Out
<1>5. IsFiniteSet(Out)
  <2>1. [r \in rows |-> to[r]] \in Surjection(rows, Out)
    BY <1>1 DEF Surjection
  <2> QED  BY <1>2, <2>1, FS_Surjection
<1>6. ASSUME NEW o \in Out
      PROVE  /\ {"split", "board", "game", "phase", "ordinal"} \subseteq DOMAIN o
             /\ o.ordinal \in Nat /\ o.board \in KnownBoards
  BY <1>1, <1>2, <1>3
<1>7. ASSUME NEW o \in Out, NEW u \in Out, o.ordinal = u.ordinal PROVE o = u
  BY <1>1, <1>2, <1>3, <1>7
<1>8. NormalizedRows(Out)
  BY <1>5, <1>6, <1>7 DEF NormalizedRows
<1> QED  BY <1>8 DEF Out

LEMMA ConsideredNumbered ==
    ASSUME NEW rows, NEW n, RowsConsidered(rows, n)
    PROVE  RowsNumbered(rows, n)
<1>1. ASSUME NEW r \in rows PROVE r.board \in KnownBoards
  <2>1. Import!position(r) \in Positions /\ Import!position(r)[3] = r.board
    BY DEF RowsConsidered, Import!position
  <2> QED  BY <2>1 DEF KnownBoards
<1> QED  BY <1>1 DEF RowsConsidered, RowsNumbered

\* What a game importer writes.
LEMMA SplitRowsNumbered ==
    ASSUME SummaryOf(summary, sample, args.seed)
    PROVE  NormalizedRows(Import!split_rows)
<1>1. PICK n : RowsConsidered(summary.considered, n)
  BY DEF SummaryOf
<1>2. sample.rows \in SUBSET summary.considered
  BY DEF SummaryOf, SampleOf
<1>3. IsFiniteSet(sample.rows)
  BY <1>1, <1>2, FS_Subset DEF RowsConsidered
<1>4. RowsConsidered(sample.rows, n)
  BY <1>1, <1>2, <1>3 DEF RowsConsidered
<1>5. CASE Import!split_rows = sample.rows
  BY <1>1, <1>2, <1>5, ConsideredNumbered, SomeNumbered
<1>6. CASE Import!split_rows = Import!connected_board_game_resplit(sample.rows)
  BY <1>4, <1>6, ResplitNumbered
<1> QED  BY <1>5, <1>6 DEF Import!split_rows, Import!apply_split_policy

\* Only the start of a tool gives another command line.
LEMMA ArgsStand ==
    ASSUME PipelineInv, [Next]_vars, ~start_tool
    PROVE  UNCHANGED args
<1>1. CASE game_import
  BY <1>1 DEF game_import, Import!ImportNext, Import!process_input, Import!payloads_from_file,
     Import!process_text_stream, Import!process_game, Import!finish_sequences,
     Import!finish_wthor, Import!Reading
<1>2. CASE board_score_import
  BY <1>2 DEF board_score_import, BoardScores!BoardScoreNext, BoardScores!open_member,
     BoardScores!consider_line, BoardScores!replace_output, BoardScores!write_report
<1>3. CASE selection
  BY <1>3 DEF selection, Selection!SelectionNext, Selection!start_selection, Selection!augment,
     Selection!finish_selection, Selection!select_low_empty, Selection!select_hard
<1>4. CASE labelling
  BY <1>4 DEF labelling, Labels!LabelNext, Labels!search_teacher, Labels!exact_teacher,
     Labels!partition_selected, Labels!merge_teacher_outputs,
     Labels!overlay_search_move_teacher, Labels!derive_exact_root_labels, Labels!apply_overlay
<1>5. CASE training
  BY <1>5, TrainingLeavesTables
<1>6. CASE caching \/ running \/ UNCHANGED vars
  BY <1>6 DEF caching, running, vars, pipelineState
<1> QED  BY <1>1, <1>2, <1>3, <1>4, <1>5, <1>6 DEF Next

\* Nothing is written when a tool is started.
LEMMA StartsLeave ==
    ASSUME start_tool
    PROVE  UNCHANGED files /\ args' \in CommandLines[Head(plan)]
<1>1. PICK a \in CommandLines[Head(plan)] :
        CASE a.tool = "import_games" -> Import!start_import(a) /\ UNCHANGED <<flow, trainer>>
          [] a.tool = "import_board_scores" ->
               BoardScores!start_board_scores(a) /\ UNCHANGED <<theoretical, flow, trainer>>
          [] OTHER ->
               /\ args' = a /\ outcome' = None /\ flow' = None
               /\ trainer' = IF a.tool = "train" THEN None ELSE trainer
               /\ unread' = {} /\ lines' = <<>> /\ summary' = None
               /\ sample' = None /\ theoretical' = None
               /\ UNCHANGED files
  BY DEF start_tool
<1>2. CASE a.tool = "import_games"
  BY <1>1, <1>2 DEF Import!start_import
<1>3. CASE a.tool = "import_board_scores"
  BY <1>1, <1>3 DEF BoardScores!start_board_scores
<1>4. CASE a.tool \notin {"import_games", "import_board_scores"}
  BY <1>1, <1>4
<1> QED  BY <1>2, <1>3, <1>4

LEMMA CommandKeeps ==
    PipelineInv /\ CommandIsGiven /\ [Next]_vars => CommandIsGiven'
<1> SUFFICES ASSUME PipelineInv, CommandIsGiven, [Next]_vars
             PROVE  CommandIsGiven'
  OBVIOUS
<1>1. CASE start_tool
  <2>1. args' \in CommandLines[Head(plan)]
    BY <1>1, StartsLeave
  <2>2. Head(plan) \in DOMAIN CommandLines
    BY <1>1 DEF start_tool, PipelineInv, InputsAreLegal
  <2> QED  BY <2>1, <2>2 DEF CommandIsGiven
<1>2. CASE ~start_tool
  BY <1>2, ArgsStand DEF CommandIsGiven
<1> QED  BY <1>1, <1>2

\* Only importers write normalised rows.
LEMMA NormalizedStands ==
    ASSUME PipelineInv, [Next]_vars, ~game_import, ~board_score_import
    PROVE  files'.normalized = files.normalized
<1>1. /\ "normalized" \in DOMAIN files
      /\ \A t \in Tables : t # "normalized"
  BY DEF PipelineInv, InputsAreLegal, Artifacts, Tables
<1>2. CASE start_tool
  BY <1>2, StartsLeave
<1>3. CASE selection
  <2>1. CASE UNCHANGED files
    BY <2>1
  <2>2. CASE Selection!finish_selection
    BY <1>1, <2>2 DEF Selection!finish_selection, Selection!Report
  <2>3. CASE Selection!select_low_empty
    BY <1>1, <2>3 DEF Selection!select_low_empty, Selection!Report, Selection!Finish
  <2>4. CASE Selection!select_hard
    BY <1>1, <2>4 DEF Selection!select_hard, Selection!Report, Selection!Finish
  <2> QED  BY <1>3, <2>1, <2>2, <2>3, <2>4 DEF selection, Selection!SelectionNext,
              Selection!start_selection, Selection!augment, Selection!Report
<1>4. CASE labelling
  <2>0. args # None /\ Labels!LabelNext
    BY <1>4 DEF labelling
  <2>1. CASE Labels!search_teacher \/ Labels!exact_teacher
    <3>1. args.move_teacher_out # "normalized" /\ args.child_normalized_out # "normalized"
      BY <1>1, <2>0, <2>1 DEF PipelineInv, InputsAreLegal, Legal, Labels!search_teacher,
         Labels!exact_teacher, ChildTable, Tables
    <3> QED  BY <1>1, <2>1, <3>1 DEF Labels!search_teacher, Labels!exact_teacher,
       Labels!Refuse, Labels!Labelled, Labels!Write
  <2>2. CASE Labels!partition_selected
    BY <1>1, <2>2 DEF Labels!partition_selected, Labels!Refuse, Labels!Write
  <2>3. CASE Labels!merge_teacher_outputs
    BY <1>1, <2>3 DEF Labels!merge_teacher_outputs, Labels!Refuse
  <2>4. CASE Labels!overlay_search_move_teacher
    BY <1>1, <2>4 DEF Labels!overlay_search_move_teacher, Labels!Refuse, Labels!Write
  <2>5. CASE Labels!derive_exact_root_labels
    BY <1>1, <2>5 DEF Labels!derive_exact_root_labels, Labels!Refuse, Labels!Write
  <2>6. CASE Labels!apply_overlay
    BY <1>1, <2>6 DEF Labels!apply_overlay, Labels!Refuse
  <2> QED  BY <2>0, <2>1, <2>2, <2>3, <2>4, <2>5, <2>6 DEF Labels!LabelNext
<1>5. CASE training
  <2>1. Trainer!TrainerNext
    BY <1>5 DEF training
  <2>2. CASE Trainer!build_dataset
    BY <1>1, <2>2 DEF Trainer!build_dataset, Trainer!Save
  <2>3. CASE Trainer!start_training \/ Trainer!train_epoch
    BY <2>3 DEF Trainer!start_training, Trainer!train_epoch, Trainer!Fail
  <2>4. CASE Trainer!write_weights
    BY <1>1, <2>4 DEF Trainer!write_weights, Trainer!Save
  <2>5. CASE Trainer!write_payload
    BY <1>1, <2>5 DEF Trainer!write_payload
  <2>6. CASE Trainer!write_manifest
    BY <1>1, <2>6 DEF Trainer!write_manifest, Trainer!Save
  <2>7. CASE Trainer!refuse_export
    BY <2>7 DEF Trainer!refuse_export, Trainer!Fail
  <2>8. CASE Trainer!export_killed
    BY <1>1, <2>8 DEF Trainer!export_killed
  <2>9. CASE Trainer!import_artifact
    BY <1>1, <2>9 DEF Trainer!import_artifact, Trainer!Fail, Trainer!Save
  <2> QED  BY <2>1, <2>2, <2>3, <2>4, <2>5, <2>6, <2>7, <2>8, <2>9 DEF Trainer!TrainerNext
<1>6. CASE caching \/ running \/ UNCHANGED vars
  BY <1>6 DEF caching, running, vars, pipelineState
<1> QED  BY <1>2, <1>3, <1>4, <1>5, <1>6 DEF Next

LEMMA ScoredAreKnown ==
    ASSUME CommandIsGiven, Running("import_board_scores"), NEW line \in ScoreLines(args)
    PROVE  line.board \in KnownBoards
<1>1. PICK step \in DOMAIN CommandLines : args \in CommandLines[step]
  BY DEF CommandIsGiven, Running
<1>2. args \in {x \in CommandLines[step] : x.tool = "import_board_scores"}
  BY <1>1 DEF Running
<1>3. line.board \in {l.board : l \in ScoreLines(args)}
  OBVIOUS
<1> DEFINE given == {x \in CommandLines[step] : x.tool = "import_board_scores"}
           boards(a) == {l.board : l \in ScoreLines(a)}
<1>4. line.board \in UNION {boards(a) : a \in given}
  BY <1>2, <1>3
<1>5. line.board \in ScoredBoards
  BY <1>1, <1>4 DEF ScoredBoards
<1> QED  BY <1>5 DEF KnownBoards

\* What board scores are imported as.
LEMMA SampledNumbered ==
    ASSUME Running("import_board_scores"), Legal(args), BoardImportIsSound, BoardRowsAreNumbered
    PROVE  BoardScores!sampled_rows \in SUBSET summary.considered
<1>1. CASE ~BoardScores!Enabled
  BY <1>1 DEF BoardRowsAreNumbered, BoardScores!sampled_rows
<1>2. CASE BoardScores!Enabled
  <2>1. /\ sample = [b \in Buckets |-> sample[b]]
        /\ \A b \in Buckets :
              BucketIsSound(sample[b], RowsOfBucket(b), BoardsRead, args.seed)
    BY <1>2 DEF BoardImportIsSound
  <2>2. ASSUME NEW b \in DOMAIN sample
        PROVE  sample[b].entries \subseteq summary.considered
    <3>1. b \in Buckets
      BY <2>1
    <3>2. sample[b].entries \subseteq RowsOfBucket(b)
      BY <2>1, <3>1 DEF BucketIsSound
    <3> QED  BY <3>2 DEF RowsOfBucket
  <2> QED  BY <1>2, <2>2 DEF BoardScores!sampled_rows
<1> QED  BY <1>1, <1>2

LEMMA NormalizedKeeps ==
    ASSUME PipelineInv, ImportsAreSound, RowsInv, [Next]_vars
    PROVE  NormalizedIsSound'
<1>0. NormalizedIsSound /\ "normalized" \in DOMAIN files
  BY DEF RowsInv, PipelineInv, InputsAreLegal, Artifacts
<1>1. files'.normalized = files.normalized => NormalizedIsSound'
  BY <1>0 DEF NormalizedIsSound, NormalizedRows
<1>2. ASSUME NormalizedRows(files'.normalized) PROVE NormalizedIsSound'
  BY <1>2 DEF NormalizedIsSound, NormalizedRows
<1>3. CASE game_import
  <2>1. SummaryOf(summary, sample, args.seed) /\ Import!ImportNext
    BY <1>3 DEF game_import, ImportsAreSound, GameImportIsSound
  <2>2. NormalizedRows(Import!split_rows)
    BY <2>1, SplitRowsNumbered
  <2>3. CASE UNCHANGED files
    BY <1>1, <2>3
  <2>4. CASE Import!finish_sequences
    <3>1. files'.normalized = files.normalized \/ files'.normalized = Import!split_rows
      BY <1>0, <2>4 DEF Import!finish_sequences, Import!refuse
    <3> QED  BY <1>1, <1>2, <2>2, <3>1
  <2>5. CASE Import!finish_wthor
    <3>1. files'.normalized = files.normalized \/ files'.normalized = Import!split_rows
      BY <1>0, <2>5 DEF Import!finish_wthor, Import!refuse, Import!write_theoretical_wld,
         Import!write_normalized
    <3> QED  BY <1>1, <1>2, <2>2, <3>1
  <2> QED  BY <2>1, <2>3, <2>4, <2>5 DEF Import!ImportNext, Import!process_input,
              Import!payloads_from_file, Import!process_text_stream, Import!process_game
<1>4. CASE board_score_import
  <2>1. Running("import_board_scores") /\ BoardScores!BoardScoreNext
    BY <1>4 DEF board_score_import
  <2>2. CASE UNCHANGED files
    BY <1>1, <2>2
  <2>3. CASE BoardScores!replace_output
    <3>1. files'.normalized = files.normalized \/ files'.normalized = BoardScores!sampled_rows
      BY <1>0, <2>3 DEF BoardScores!replace_output
    <3>2. /\ RowsNumbered(summary.considered, summary.candidates)
          /\ BoardScores!sampled_rows \in SUBSET summary.considered
      BY <2>1, SampledNumbered DEF RowsInv, BoardRowsAreNumbered, PipelineInv, InputsAreLegal,
         Running, ImportsAreSound
    <3>3. NormalizedRows(BoardScores!sampled_rows)
      BY <3>2, SomeNumbered
    <3> QED  BY <1>1, <1>2, <3>1, <3>3
  <2>4. CASE BoardScores!write_report
    BY <1>0, <1>1, <2>4 DEF BoardScores!write_report
  <2> QED  BY <2>1, <2>2, <2>3, <2>4 DEF BoardScores!BoardScoreNext, BoardScores!open_member,
              BoardScores!consider_line
<1>5. CASE ~game_import /\ ~board_score_import
  BY <1>1, <1>5, NormalizedStands
<1> QED  BY <1>3, <1>4, <1>5

LEMMA BoardRowsStand ==
    ASSUME BoardRowsAreNumbered, UNCHANGED <<args, sample>>,
           summary'.considered = summary.considered, summary'.candidates = summary.candidates
    PROVE  BoardRowsAreNumbered'
BY DEF BoardRowsAreNumbered, RowsNumbered, Running, BoardScores!Enabled

\* One more line of an archive.
LEMMA LineNumbered ==
    ASSUME CommandIsGiven, Running("import_board_scores"), BoardImportIsSound,
           BoardRowsAreNumbered, BoardScores!consider_line
    PROVE  BoardRowsAreNumbered'
<1> DEFINE line == Head(lines)
           row == BoardScores!Candidate(line)
<1>1. /\ lines # <<>> /\ UNCHANGED args /\ lines \in Seq(ScoreLines(args))
      /\ summary = [f \in SummaryFields |-> summary[f]]
  BY DEF BoardScores!consider_line, BoardImportIsSound
<1>2. CASE UNCHANGED <<summary, sample>>
  BY <1>1, <1>2, BoardRowsStand
<1>3. CASE ~UNCHANGED <<summary, sample>>
  <2>1. /\ summary' = [summary EXCEPT !.candidates = @ + 1, !.considered = @ \cup {row}]
        /\ ~BoardScores!Enabled => sample' = sample \cup {row}
    BY <1>3 DEF BoardScores!consider_line
  <2>2. line \in ScoreLines(args)
    BY <1>1
  <2>3. /\ row.board = line.board /\ row.ordinal = summary.candidates + 1
        /\ {"split", "board", "game", "phase", "ordinal"} \subseteq DOMAIN row
    BY DEF BoardScores!Candidate
  <2> HIDE DEF row, line
  <2>4. row.board \in KnownBoards
    BY <2>2, <2>3, ScoredAreKnown
  <2>5. RowsNumbered(summary.considered, summary.candidates)
    BY DEF BoardRowsAreNumbered
  <2>6. RowsNumbered(summary.considered \cup {row}, summary.candidates + 1)
    BY <2>3, <2>4, <2>5, OneMoreNumbered
  <2>7. /\ summary'.considered = summary.considered \cup {row}
        /\ summary'.candidates = summary.candidates + 1
    BY <1>1, <2>1 DEF SummaryFields
  <2>8. RowsNumbered(summary'.considered, summary'.candidates)
    BY <2>6, <2>7
  <2>9. ~BoardScores!Enabled' => sample' \subseteq summary'.considered
    BY <1>1, <2>1, <2>7 DEF BoardRowsAreNumbered, BoardScores!Enabled
  <2> QED  BY <2>8, <2>9 DEF BoardRowsAreNumbered, RowsNumbered
<1> QED  BY <1>2, <1>3

LEMMA BoardRowsKeep ==
    ASSUME PipelineInv, ImportsAreSound, RowsInv, [Next]_vars
    PROVE  BoardRowsAreNumbered'
<1>1. CASE start_tool
  <2>1. PICK a \in CommandLines[Head(plan)] :
          CASE a.tool = "import_games" -> Import!start_import(a) /\ UNCHANGED <<flow, trainer>>
            [] a.tool = "import_board_scores" ->
                 BoardScores!start_board_scores(a) /\ UNCHANGED <<theoretical, flow, trainer>>
            [] OTHER ->
                 /\ args' = a /\ outcome' = None /\ flow' = None
                 /\ trainer' = IF a.tool = "train" THEN None ELSE trainer
                 /\ unread' = {} /\ lines' = <<>> /\ summary' = None
                 /\ sample' = None /\ theoretical' = None
                 /\ UNCHANGED files
    BY <1>1 DEF start_tool
  <2>2. CASE a.tool = "import_games"
    BY <2>1, <2>2 DEF Import!start_import, BoardRowsAreNumbered, Running
  <2>3. CASE a.tool = "import_board_scores"
    <3>1. /\ args' = a
          /\ summary' = [opened |-> 0, games |-> 0, candidates |-> 0, considered |-> {}]
          /\ sample' = CASE a.max_positions # None ->
                              [b \in {"all"} |-> BoardScores!SampleBucket(a.max_positions)]
                         [] a.per_phase # None     -> [b \in Phases |-> BoardScores!SampleBucket(a.per_phase)]
                         [] OTHER                  -> {}
      BY <2>1, <2>3 DEF BoardScores!start_board_scores
    <3>2. summary'.considered = {} /\ summary'.candidates = 0
      BY <3>1
    <3>3. IsFiniteSet({})
      BY FS_EmptySet
    <3>4. RowsNumbered({}, 0)
      BY <3>3 DEF RowsNumbered
    <3>5. ~BoardScores!Enabled' => sample' = {}
      BY <3>1 DEF BoardScores!Enabled
    <3> QED  BY <3>2, <3>4, <3>5 DEF BoardRowsAreNumbered, RowsNumbered
  <2>4. CASE a.tool \notin {"import_games", "import_board_scores"}
    BY <2>1, <2>4 DEF BoardRowsAreNumbered, Running
  <2> QED  BY <2>2, <2>3, <2>4
<1>2. CASE board_score_import
  <2>1. Running("import_board_scores") /\ BoardScores!BoardScoreNext /\ BoardImportIsSound
    BY <1>2 DEF board_score_import, ImportsAreSound
  <2>2. CASE BoardScores!open_member
    <3>1. /\ UNCHANGED <<args, sample>> /\ summary' = [summary EXCEPT !.opened = @ + 1]
      BY <2>2 DEF BoardScores!open_member
    <3>2. summary'.considered = summary.considered /\ summary'.candidates = summary.candidates
      BY <2>1, <3>1 DEF BoardImportIsSound, SummaryFields
    <3> QED  BY <3>1, <3>2, BoardRowsStand DEF RowsInv
  <2>3. CASE BoardScores!consider_line
    BY <2>1, <2>3, LineNumbered DEF RowsInv
  <2>4. CASE BoardScores!replace_output \/ BoardScores!write_report
    <3>1. UNCHANGED <<args, sample, summary>>
      BY <2>4 DEF BoardScores!replace_output, BoardScores!write_report
    <3> QED  BY <3>1, BoardRowsStand DEF RowsInv
  <2> QED  BY <2>1, <2>2, <2>3, <2>4 DEF BoardScores!BoardScoreNext
<1>3. CASE selection \/ labelling \/ training \/ caching \/ running \/ UNCHANGED vars
  <2>1. UNCHANGED <<summary, sample>>
    BY <1>3 DEF selection, labelling, training, caching, running, vars, pipelineState, importState
  <2>2. UNCHANGED args \/ start_tool
    BY ArgsStand
  <2> QED  BY <1>1, <2>1, <2>2, BoardRowsStand DEF RowsInv
<1>4. CASE game_import
  <2>1. Running("import_games") /\ (UNCHANGED args \/ start_tool)
    BY <1>4, ArgsStand DEF game_import
  <2> QED  BY <1>1, <2>1 DEF BoardRowsAreNumbered, Running
<1> QED  BY <1>1, <1>2, <1>3, <1>4 DEF Next

\* As long as command line and rows stand, so does what can be selected.
RowsStand == UNCHANGED args /\ files'.normalized = files.normalized

LEMMA CellsStand ==
    ASSUME RowsStand
    PROVE  /\ Selection!Cells' = Selection!Cells /\ Selection!Games' = Selection!Games
           /\ \A c : Selection!Room(c)' = Selection!Room(c)
<1>1. Selection!load_roots' = Selection!load_roots
  BY DEF RowsStand, Selection!load_roots, Selection!unique_roots
<1>2. \A p, g : Selection!roots_by_phase_and_game(p, g)' = Selection!roots_by_phase_and_game(p, g)
  BY <1>1 DEF Selection!roots_by_phase_and_game
<1>3. Selection!Games' = Selection!Games
  BY <1>1 DEF Selection!Games
<1>4. \A c : Selection!Room(c)' = Selection!Room(c)
  BY <1>2 DEF Selection!Room, Selection!Cardinality
<1>5. Selection!Cells' = Selection!Cells
  BY <1>2, <1>3 DEF Selection!Cells
<1> QED  BY <1>3, <1>4, <1>5

LEMMA KeepingStands ==
    ASSUME RowsStand, KeepsTo(flow), UNCHANGED flow
    PROVE  KeepsTo(flow)'
<1>1. /\ Selection!Cells' = Selection!Cells /\ Selection!Games' = Selection!Games
      /\ \A c : Selection!Room(c)' = Selection!Room(c)
  BY CellsStand
<1> QED  BY <1>1 DEF KeepsTo, RowsStand

LEMMA FeasibleStands == RowsStand => Feasible' = Feasible
<1> SUFFICES ASSUME RowsStand PROVE Feasible' = Feasible
  OBVIOUS
<1>1. /\ Selection!Cells' = Selection!Cells /\ Selection!Games' = Selection!Games
      /\ \A c : Selection!Room(c)' = Selection!Room(c)
  BY CellsStand
<1> QED  BY <1>1 DEF Feasible, RowsStand

LEMMA NothingSentKeeps ==
    ASSUME SelectsFrom
    PROVE  KeepsTo([c \in Selection!Cells |-> 0])
<1> DEFINE none == [c \in Selection!Cells |-> 0]
<1>1. DOMAIN none = Selection!Cells /\ \A c \in Selection!Cells : none[c] = 0
  OBVIOUS
<1>2. none = [c \in Selection!Cells |-> none[c]]
  OBVIOUS
<1> HIDE DEF none
<1>3. /\ \A p : /\ Selection!OfPhase(none, p) = Selection!SumOver(none, CellsOfPhase(p))
                /\ IsFiniteSet(CellsOfPhase(p)) /\ CellsOfPhase(p) \subseteq Selection!Cells
      /\ \A g : /\ Selection!OfGame(none, g) = Selection!SumOver(none, CellsOfGame(g))
                /\ IsFiniteSet(CellsOfGame(g)) /\ CellsOfGame(g) \subseteq Selection!Cells
  <2>1. \A c \in Selection!Cells : none[c] \in Int
    BY <1>1
  <2> QED  BY <1>1, <2>1, SumsOfCells
<1>4. ASSUME NEW p PROVE Selection!OfPhase(none, p) = 0
  <2>1. \A c \in CellsOfPhase(p) : none[c] = 0
    BY <1>1, <1>3
  <2>2. Selection!SumOver(none, CellsOfPhase(p)) = 0
    BY <1>3, <2>1, SumZero
  <2> QED  BY <1>3, <2>2
<1>5. ASSUME NEW g PROVE Selection!OfGame(none, g) = 0
  <2>1. \A c \in CellsOfGame(g) : none[c] = 0
    BY <1>1, <1>3
  <2>2. Selection!SumOver(none, CellsOfGame(g)) = 0
    BY <1>3, <2>1, SumZero
  <2> QED  BY <1>3, <2>2
<1>6. /\ \A c \in Selection!Cells : none[c] \in Nat /\ none[c] <= Selection!Room(c)
      /\ \A p \in Phases : args.quota[p] \in Nat /\ args.cap \in Nat
  BY <1>1 DEF SelectsFrom
<1>7. KeepsTo(none)
  BY <1>2, <1>4, <1>5, <1>6 DEF KeepsTo, SelectsFrom
<1> QED  BY <1>7 DEF none

\* One step of the selection with a cap.
LEMMA ShortestAugments ==
    ASSUME FiniteSelection, NEW f, NEW path \in Selection!Shortest(f)
    PROVE  \E k \in Nat \ {0} : path \in Selection!AugmentingPaths(f, k)
<1> DEFINE lengths == {k \in 1..Selection!Longest : Selection!AugmentingPaths(f, k) # {}}
<1>1. lengths # {}
  BY DEF Selection!Shortest
<1>2. Selection!Min(lengths) \in lengths
  <2>1. lengths \in SUBSET Nat
    OBVIOUS
  <2> HIDE DEF lengths
  <2>2. PICK k \in lengths : \A n \in lengths : k <= n
    BY <1>1, <2>1, LeastNumber
  <2> QED  BY <2>2 DEF Selection!Min
<1>3. Selection!Shortest(f) = Selection!AugmentingPaths(f, Selection!Min(lengths))
  BY <1>1 DEF Selection!Shortest
<1>4. Selection!Min(lengths) \in Nat \ {0}
  <2>1. lengths \subseteq Nat \ {0}
    OBVIOUS
  <2> QED  BY <1>2, <2>1
<1> QED  BY <1>3, <1>4

LEMMA SelectsNow ==
    ASSUME PipelineInv, RowsInv, Running("select_phases"), args.cap # None,
           files.normalized # None
    PROVE  Selecting
BY DEF Selecting, RowsInv, NormalizedIsSound, Running, PipelineInv, InputsAreLegal

LEMMA FlowIsKept ==
    ASSUME PipelineInv, RowsInv, FlowKeeps, [Next]_vars
    PROVE  FlowKeeps'
<1> SUFFICES ASSUME Running("select_phases")', (args.cap # None)', (flow # None)'
             PROVE  (files.normalized # None /\ KeepsTo(flow))'
  BY DEF FlowKeeps
<1>1. CASE start_tool
  <2>1. PICK a \in CommandLines[Head(plan)] :
          CASE a.tool = "import_games" -> Import!start_import(a) /\ UNCHANGED <<flow, trainer>>
            [] a.tool = "import_board_scores" ->
                 BoardScores!start_board_scores(a) /\ UNCHANGED <<theoretical, flow, trainer>>
            [] OTHER ->
                 /\ args' = a /\ outcome' = None /\ flow' = None
                 /\ trainer' = IF a.tool = "train" THEN None ELSE trainer
                 /\ unread' = {} /\ lines' = <<>> /\ summary' = None
                 /\ sample' = None /\ theoretical' = None
                 /\ UNCHANGED files
    BY <1>1 DEF start_tool
  <2>2. CASE a.tool = "import_games"
    BY <2>1, <2>2 DEF Import!start_import, Running
  <2>3. CASE a.tool = "import_board_scores"
    BY <2>1, <2>3 DEF BoardScores!start_board_scores, Running
  <2>4. CASE a.tool \notin {"import_games", "import_board_scores"}
    BY <2>1, <2>4
  <2> QED  BY <2>2, <2>3, <2>4
<1>2. CASE ~start_tool
  <2>1. UNCHANGED args /\ Running("select_phases") /\ args.cap # None
    BY <1>2, ArgsStand DEF Running
  <2>2. ~game_import /\ ~board_score_import
    BY <2>1 DEF game_import, board_score_import, Running
  <2>3. RowsStand
    BY <2>1, <2>2, NormalizedStands DEF RowsStand
  <2>4. CASE UNCHANGED flow
    <3>1. files.normalized # None /\ KeepsTo(flow)
      BY <2>1, <2>4 DEF FlowKeeps
    <3> QED  BY <2>3, <2>4, <3>1, KeepingStands DEF RowsStand
  <2>5. CASE selection /\ ~UNCHANGED flow
    <3>1. \/ flow' = [c \in Selection!Cells |-> 0] /\ files.normalized # None
          \/ flow # None /\ \E path \in Selection!Shortest(flow) :
                                flow' = Selection!send_blocking_flow(flow, path)
      BY <2>1, <2>5 DEF selection, Selection!SelectionNext, Selection!start_selection,
         Selection!augment, Selection!finish_selection, Selection!select_low_empty,
         Selection!select_hard, Running
    <3>2. files.normalized # None
      BY <2>1, <3>1 DEF FlowKeeps
    <3>3. Selecting
      BY <2>1, <3>2, SelectsNow
    <3>4. SelectsFrom /\ FiniteSelection
      BY <3>3, CellsToSelect
    <3>5. PICK f : f = flow' /\ KeepsTo(f)
      <4>1. CASE flow' = [c \in Selection!Cells |-> 0]
        BY <3>4, <4>1, NothingSentKeeps
      <4>2. CASE flow' # [c \in Selection!Cells |-> 0]
        <5>1. KeepsTo(flow)
          BY <2>1, <3>1, <4>2 DEF FlowKeeps
        <5>2. PICK path \in Selection!Shortest(flow) :
                  flow' = Selection!send_blocking_flow(flow, path)
          BY <3>1, <4>2
        <5>3. PICK k \in Nat \ {0} : path \in Selection!AugmentingPaths(flow, k)
          BY <3>4, ShortestAugments
        <5>4. KeepsTo(Selection!send_blocking_flow(flow, path))
          BY <3>4, <5>1, <5>3, AugmentKeeps
        <5> QED  BY <5>2, <5>4
      <4> QED  BY <4>1, <4>2
    <3>6. /\ Selection!Cells' = Selection!Cells /\ Selection!Games' = Selection!Games
          /\ \A c : Selection!Room(c)' = Selection!Room(c)
      BY <2>3, CellsStand
    <3>7. KeepsTo(flow)'
      BY <2>1, <3>5, <3>6 DEF KeepsTo
    <3> QED  BY <2>3, <3>2, <3>7 DEF RowsStand
  <2>6. CASE labelling \/ training \/ caching \/ running \/ UNCHANGED vars
    <3>1. UNCHANGED flow
      BY <2>6 DEF labelling, training, caching, running, vars, pipelineState
    <3> QED  BY <2>4, <3>1
  <2> QED  BY <1>2, <2>2, <2>4, <2>5, <2>6 DEF Next
<1> QED  BY <1>1, <1>2

LEMMA MaximalIsMost ==
    SelectionIsMaximal
        <=> (Running("select_phases") /\ outcome \in {"ok", "shortage"} /\ args.cap # None
                => MostRoots(files.roots))
BY DEF SelectionIsMaximal, MostRoots

LEMMA MostStands ==
    ASSUME RowsStand, NEW out, MostRoots(out)
    PROVE  MostRoots(out)'
<1>1. Selection!Cells' = Selection!Cells /\ Feasible' = Feasible
  BY CellsStand, FeasibleStands
<1> QED  BY <1>1 DEF MostRoots, Cardinality

\* Nothing but the selection goes on while it runs.
LEMMA OnlySelection ==
    ASSUME PipelineInv, [Next]_vars, Running("select_phases")
    PROVE  \/ start_tool
           \/ selection
           \/ UNCHANGED <<args, outcome, files, flow>>
<1>1. ~game_import /\ ~board_score_import
  BY DEF game_import, board_score_import, Running
<1>2. ~labelling
  BY DEF labelling, Running, Labels!LabelNext, Labels!search_teacher, Labels!exact_teacher,
     Labels!partition_selected, Labels!merge_teacher_outputs,
     Labels!overlay_search_move_teacher, Labels!derive_exact_root_labels, Labels!apply_overlay
<1>3. ~training
  <2>1. ~Trainer!build_dataset /\ ~Trainer!import_artifact
    BY DEF Trainer!build_dataset, Trainer!import_artifact, Running
  <2>2. ~Trainer!start_training /\ ~Trainer!train_epoch /\ ~Trainer!write_weights
    BY DEF Trainer!start_training, Trainer!train_epoch, Trainer!write_weights, Running
  <2>3. ~Trainer!write_payload /\ ~Trainer!write_manifest /\ ~Trainer!refuse_export
    BY DEF Trainer!write_payload, Trainer!write_manifest, Trainer!refuse_export, Running
  <2>4. ~Trainer!export_killed
    BY DEF Trainer!export_killed, PipelineInv, ExportsAreOfWeights, ExportingNow, ExportTools,
       Running
  <2> QED  BY <2>1, <2>2, <2>3, <2>4 DEF training, Trainer!TrainerNext
<1>4. CASE caching \/ running \/ UNCHANGED vars
  BY <1>4 DEF caching, running, vars, pipelineState
<1> QED  BY <1>1, <1>2, <1>3, <1>4 DEF Next

LEMMA MaximalIsKept ==
    ASSUME PipelineInv, RowsInv, FlowKeeps, SelectionIsMaximal, [Next]_vars
    PROVE  SelectionIsMaximal'
<1> SUFFICES ASSUME Running("select_phases")', (outcome \in {"ok", "shortage"})',
                    (args.cap # None)'
             PROVE  MostRoots(files.roots)'
  BY MaximalIsMost DEF SelectionIsMaximal, MostRoots
<1>1. CASE start_tool
  <2>1. PICK a \in CommandLines[Head(plan)] :
          CASE a.tool = "import_games" -> Import!start_import(a) /\ UNCHANGED <<flow, trainer>>
            [] a.tool = "import_board_scores" ->
                 BoardScores!start_board_scores(a) /\ UNCHANGED <<theoretical, flow, trainer>>
            [] OTHER ->
                 /\ args' = a /\ outcome' = None /\ flow' = None
                 /\ trainer' = IF a.tool = "train" THEN None ELSE trainer
                 /\ unread' = {} /\ lines' = <<>> /\ summary' = None
                 /\ sample' = None /\ theoretical' = None
                 /\ UNCHANGED files
    BY <1>1 DEF start_tool
  <2>2. CASE a.tool = "import_games"
    BY <2>1, <2>2 DEF Import!start_import, Running
  <2>3. CASE a.tool = "import_board_scores"
    BY <2>1, <2>3 DEF BoardScores!start_board_scores, Running
  <2>4. CASE a.tool \notin {"import_games", "import_board_scores"}
    BY <2>1, <2>4, NumbersAssumption
  <2> QED  BY <2>2, <2>3, <2>4
<1>2. CASE ~start_tool
  <2>1. UNCHANGED args /\ Running("select_phases") /\ args.cap # None
    BY <1>2, ArgsStand DEF Running
  <2>2. ~game_import /\ ~board_score_import
    BY <2>1 DEF game_import, board_score_import, Running
  <2>3. RowsStand
    BY <2>1, <2>2, NormalizedStands DEF RowsStand
  <2>4. PICK out : out = files'.roots
    OBVIOUS
  <2>5. MostRoots(out)
    <3>1. CASE UNCHANGED <<args, outcome, files, flow>>
      BY <2>1, <2>4, <3>1, MaximalIsMost
    <3>2. CASE selection
      <4>1. CASE Selection!start_selection \/ Selection!augment
        BY <4>1, NumbersAssumption DEF Selection!start_selection, Selection!augment,
           Selection!Report
      <4>2. CASE Selection!finish_selection
        <5> DEFINE roots == Selection!apply_selected_split_policy(Selection!select_with_game_cap)
        <5>1. flow # None /\ Selection!Shortest(flow) = {}
          BY <2>1, <4>2 DEF Selection!finish_selection
        <5>2. "roots" \in DOMAIN files
          BY DEF PipelineInv, InputsAreLegal, Artifacts
        <5>3. files' = [files EXCEPT !.roots = roots]
          BY <2>1, <4>2 DEF Selection!finish_selection, Selection!Report
        <5> HIDE DEF roots
        <5>4. out = roots
          BY <2>4, <5>2, <5>3
        <5>5. KeepsTo(flow) /\ files.normalized # None
          BY <2>1, <5>1 DEF FlowKeeps
        <5>6. Selecting
          BY <2>1, <5>5, SelectsNow
        <5> QED  BY <5>1, <5>4, <5>5, <5>6, SelectionHasMost DEF roots
      <4>3. CASE Selection!select_low_empty \/ Selection!select_hard
        BY <2>1, <4>3 DEF Selection!select_low_empty, Selection!select_hard, Running
      <4> QED  BY <3>2, <4>1, <4>2, <4>3 DEF selection, Selection!SelectionNext
    <3> QED  BY <1>2, <2>1, <3>1, <3>2, OnlySelection
  <2>6. MostRoots(out)'
    BY <2>3, <2>5, MostStands
  <2> QED  BY <2>4, <2>6 DEF MostRoots, Cardinality
<1> QED  BY <1>1, <1>2

LEMMA SelectionInvKept ==
    ASSUME PipelineInv, ImportsAreSound, SelectionInv, [Next]_vars
    PROVE  SelectionInv'
<1>1. RowsInv /\ FlowKeeps /\ SelectionIsMaximal
  BY DEF SelectionInv
<1>2. RowsInv'
  BY <1>1, CommandKeeps, NormalizedKeeps, BoardRowsKeep DEF RowsInv
<1>3. FlowKeeps' /\ SelectionIsMaximal'
  BY <1>1, FlowIsKept, MaximalIsKept
<1> QED  BY <1>2, <1>3 DEF SelectionInv

LEMMA SelectionInvInit == Init => SelectionInv
<1> SUFFICES ASSUME Init PROVE SelectionInv
  OBVIOUS
<1>1. args = None /\ \E start \in Starts : files = start.files
  BY DEF Init
<1>2. NormalizedIsSound
  BY <1>1, NormalizedAssumption DEF NormalizedIsSound
<1> QED  BY <1>1, <1>2 DEF SelectionInv, RowsInv, CommandIsGiven, BoardRowsAreNumbered,
         FlowKeeps, SelectionIsMaximal, Running

\* A selection with a cap on the roots of a game keeps to its quotas and
\* its cap and has as many roots as any selection that does: the flow found
\* one augmenting path at a time is a greatest one (max_flow,
\* select_with_game_cap), whatever rows importers have left.
THEOREM SelectionCorrect == Spec => []SelectionIsMaximal
<1>1. Init => IInv /\ SelectionInv
  BY InitIInv, SelectionInvInit
<1>2. IInv /\ SelectionInv /\ [Next]_vars => (IInv /\ SelectionInv)'
  BY NextIInv, SelectionInvKept DEF IInv
<1>3. IInv /\ SelectionInv => SelectionIsMaximal
  BY DEF SelectionInv
<1> QED  BY <1>1, <1>2, <1>3, PTL DEF Spec
=============================================================================
