------------------------- MODULE PolicyPackStoreProofs -------------------------
(****************************************************************************)
(* Theorems about PolicyPackStore, for any administrators, packs, contents  *)
(* and number of starts.                                                    *)
(****************************************************************************)
EXTENDS PolicyPackStore, TLAPS

\* What has been seeded since the last start is there, and the server listens only when
\* nothing is left to seed.
SeededSoFar ==
    /\ phase # "down" => \A p \in Baseline \ unseeded : Stored(p)
    /\ phase = "serving" => unseeded = {}

\* No handler of the memory store holds a row between two statements, and what a memory
\* store was told is forgotten with it.
MemoryWritesAtOnce ==
    ~persistent =>
        /\ \A a \in Admins : admin[a].pc # "setting"
        /\ phase # "serving" => disabled = {}

\* The two promises of the memory store, in every phase.
MemoryRemembers ==
    ~persistent =>
        /\ ContentIsLastPut
        /\ \A p \in disabled : Stored(p) => ~packs[p].enabled

Safe == TypeOK /\ SeededSoFar /\ AnswerShowsWrite /\ MemoryWritesAtOnce /\ MemoryRemembers

--------------------------------------------------------------------------------

\* A row that somebody writes marks every other handler that is to read the pack back.
LEMMA OvertakingType ==
    ASSUME TypeOK, NEW p \in Packs
    PROVE  /\ Overtaking(p) \in [Admins -> {Idle} \cup Setting \cup Reading]
           /\ \A b \in Admins : /\ Overtaking(p)[b].pc = admin[b].pc
                                /\ Overtaking(p)[b] # Idle => admin[b] # Idle
<1>1. \A b \in Admins : admin[b] \in {Idle} \cup Setting \cup Reading
  BY DEF TypeOK
<1>2. ASSUME NEW b \in Admins, admin[b].pc = "reading"
      PROVE  /\ admin[b] \in Reading
             /\ [admin[b] EXCEPT !.overtaken = TRUE] \in Reading
  <2>1. admin[b] \in Reading
    BY <1>1, <1>2 DEF Idle, Setting
  <2>2. \A r \in Reading : [r EXCEPT !.overtaken = TRUE] \in Reading
    BY DEF Reading
  <2> QED BY <2>1, <2>2
<1>3. \A b \in Admins : Overtaking(p)[b] =
         IF admin[b].pc = "reading" /\ admin[b].pack = p
         THEN [admin[b] EXCEPT !.overtaken = TRUE] ELSE admin[b]
  BY DEF Overtaking
<1>4. Overtaking(p) \in [Admins -> {Idle} \cup Setting \cup Reading]
  BY <1>1, <1>2 DEF Overtaking
<1>5. ASSUME NEW b \in Admins
      PROVE  /\ Overtaking(p)[b].pc = admin[b].pc
             /\ Overtaking(p)[b] # Idle => admin[b] # Idle
  <2>1. CASE admin[b].pc = "reading" /\ admin[b].pack = p
    BY <1>2, <1>3, <2>1 DEF Reading, Idle
  <2>2. CASE ~(admin[b].pc = "reading" /\ admin[b].pack = p)
    BY <1>3, <2>2
  <2> QED BY <2>1, <2>2
<1> QED BY <1>4, <1>5

\* Every variable keeps its type in every step.
LEMMA TypeStep == TypeOK /\ [Next]_vars => TypeOK'
<1> SUFFICES ASSUME TypeOK, [Next]_vars PROVE TypeOK'
  OBVIOUS
<1> USE PackAssumption, NoPackAssumption
<1>1. ASSUME NEW p \in Packs, Seed(p) PROVE TypeOK'
  BY <1>1 DEF TypeOK, Seed, Upsert, Default, Pack
<1>2. CASE Listen
  BY <1>2 DEF TypeOK, Listen
<1>3. CASE Stop
  BY <1>3 DEF TypeOK, Stop, Empty
<1>4. CASE Start
  BY <1>4 DEF TypeOK, Start
<1>5. ASSUME NEW a \in Admins, NEW p \in Packs, NEW content \in Contents,
             NEW enabled \in BOOLEAN, Put(a, p, content, enabled)
      PROVE  TypeOK'
  <2> DEFINE row == [content |-> content, enabled |-> enabled]
             reading == [pc |-> "reading", pack |-> p, row |-> row, overtaken |-> FALSE]
  <2>1. row \in Pack /\ reading \in Reading
    BY DEF Pack, Reading
  <2>2. admin' \in [Admins -> {Idle} \cup Setting \cup Reading]
    BY <1>5, <2>1, OvertakingType DEF Put, WrittenBy, WrittenUnheard
  <2> QED BY <1>5, <2>1, <2>2 DEF TypeOK, Put, Upsert, Marked
<1>6. ASSUME NEW a \in Admins, NEW p \in Packs, NEW enabled \in BOOLEAN,
             SetEnabled(a, p, enabled)
      PROVE  TypeOK'
  <2> DEFINE row == [packs[p] EXCEPT !.enabled = enabled]
             reading == [pc |-> "reading", pack |-> p, row |-> row, overtaken |-> FALSE]
  <2>1. row \in Pack /\ reading \in Reading
    BY <1>6 DEF TypeOK, SetEnabled, Stored, Pack, Reading
  <2>2. packs' = [packs EXCEPT ![p] = row] /\ packs'[p] = row
    BY <1>6 DEF TypeOK, SetEnabled
  <2>3. admin' \in [Admins -> {Idle} \cup Setting \cup Reading]
    BY <1>6, <2>1, <2>2, OvertakingType DEF SetEnabled, WrittenBy
  <2> QED BY <1>6, <2>1, <2>2, <2>3 DEF TypeOK, SetEnabled, Marked
<1>7. ASSUME NEW a \in Admins, NEW p \in Packs, NEW enabled \in BOOLEAN,
             ReadToSet(a, p, enabled)
      PROVE  TypeOK'
  <2>1. [packs[p] EXCEPT !.enabled = enabled] \in Pack
    BY <1>7 DEF TypeOK, ReadToSet, Stored, Pack
  <2>2. [pc |-> "setting", pack |-> p, row |-> [packs[p] EXCEPT !.enabled = enabled]] \in Setting
    BY <2>1 DEF Setting
  <2> QED BY <1>7, <2>2 DEF TypeOK, ReadToSet
<1>8. ASSUME NEW a \in Admins, WriteSet(a) PROVE TypeOK'
  <2>1. admin[a] \in Setting
    BY <1>8 DEF TypeOK, WriteSet, Idle, Reading
  <2>2. [pc |-> "reading", pack |-> admin[a].pack, row |-> admin[a].row,
         overtaken |-> FALSE] \in Reading
    BY <2>1 DEF Setting, Reading
  <2>3. admin[a].pack \in Packs /\ admin[a].row \in Pack
    BY <2>1 DEF Setting
  <2>4. admin' \in [Admins -> {Idle} \cup Setting \cup Reading]
    BY <1>8, <2>2, <2>3, OvertakingType DEF WriteSet, WrittenBy
  <2>5. phase = "serving"
    BY <1>8 DEF TypeOK, WriteSet, Idle
  <2> QED BY <1>8, <2>3, <2>4, <2>5 DEF TypeOK, WriteSet, Marked
<1>9. ASSUME NEW a \in Admins, WriteSetFails(a) PROVE TypeOK'
  <2>1. admin[a] \in Setting
    BY <1>9 DEF TypeOK, WriteSetFails, Idle, Reading
  <2>2. admin[a].pack \in Packs /\ admin[a].row \in Pack
    BY <2>1 DEF Setting
  <2>3. admin' \in [Admins -> {Idle} \cup Setting \cup Reading]
    BY <1>9, <2>2, OvertakingType DEF WriteSetFails, WrittenUnheard, TypeOK
  <2>4. phase = "serving"
    BY <1>9 DEF TypeOK, WriteSetFails, Idle
  <2> QED BY <1>9, <2>2, <2>3, <2>4 DEF TypeOK, WriteSetFails, Marked
<1>10. ASSUME NEW a \in Admins, ReadBack(a) PROVE TypeOK'
  BY <1>10 DEF TypeOK, ReadBack
<1>11. CASE UNCHANGED vars
  BY <1>11 DEF TypeOK, vars
<1> QED
  BY <1>1, <1>2, <1>3, <1>4, <1>5, <1>6, <1>7, <1>8, <1>9, <1>10, <1>11 DEF Next

--------------------------------------------------------------------------------

\* What a handler writes is a row, and the pack stays stored.
LEMMA WritesStore ==
    ASSUME TypeOK, NEW a \in Admins,
           \/ \E p \in Packs, enabled \in BOOLEAN :
                 \/ \E content \in Contents : Put(a, p, content, enabled)
                 \/ SetEnabled(a, p, enabled)
           \/ WriteSet(a)
           \/ WriteSetFails(a) /\ packs' # packs
    PROVE  \E p \in Packs, row \in Pack :
              /\ packs' = [packs EXCEPT ![p] = row]
              /\ WrittenBy(a, p, row) \/ WrittenUnheard(a, p)
<1>1. ASSUME NEW p \in Packs, NEW content \in Contents, NEW enabled \in BOOLEAN,
             Put(a, p, content, enabled)
      PROVE  \E row \in Pack : /\ packs' = [packs EXCEPT ![p] = row]
                               /\ WrittenBy(a, p, row) \/ WrittenUnheard(a, p)
  <2> DEFINE row == [content |-> content, enabled |-> enabled]
  <2>1. row \in Pack
    BY DEF Pack
  <2>2. packs' = [packs EXCEPT ![p] = row] /\ (WrittenBy(a, p, row) \/ WrittenUnheard(a, p))
    BY <1>1 DEF Put, Upsert
  <2> HIDE DEF row
  <2> QED BY <2>1, <2>2
<1>2. ASSUME NEW p \in Packs, NEW enabled \in BOOLEAN, SetEnabled(a, p, enabled)
      PROVE  \E row \in Pack : packs' = [packs EXCEPT ![p] = row] /\ WrittenBy(a, p, row)
  <2> DEFINE row == [packs[p] EXCEPT !.enabled = enabled]
  <2>1. row \in Pack
    BY <1>2 DEF TypeOK, SetEnabled, Stored, Pack
  <2>2. packs' = [packs EXCEPT ![p] = row] /\ packs'[p] = row
    BY <1>2 DEF TypeOK, SetEnabled
  <2>3. WrittenBy(a, p, row)
    BY <1>2, <2>2 DEF SetEnabled
  <2> HIDE DEF row
  <2> QED BY <2>1, <2>2, <2>3
<1>3. ASSUME admin[a].pc = "setting"
      PROVE  admin[a].pack \in Packs /\ admin[a].row \in Pack
  <2>1. admin[a] \in Setting
    BY <1>3 DEF TypeOK, Idle, Reading
  <2> QED BY <2>1 DEF Setting
<1>4. CASE WriteSet(a)
  BY <1>3, <1>4 DEF WriteSet
<1>5. CASE WriteSetFails(a) /\ packs' # packs
  BY <1>3, <1>5 DEF WriteSetFails
<1> QED BY <1>1, <1>2, <1>4, <1>5

\* Seeding proceeds, and nothing that was seeded is taken away.
LEMMA SeededStep == TypeOK /\ SeededSoFar /\ [Next]_vars => SeededSoFar'
<1> SUFFICES ASSUME TypeOK, SeededSoFar, [Next]_vars PROVE SeededSoFar'
  OBVIOUS
<1> USE PackAssumption, NoPackAssumption
<1>1. ASSUME NEW p \in Packs, Seed(p) PROVE SeededSoFar'
  <2>1. Default \in Pack
    BY DEF Default, Pack
  <2> QED BY <1>1, <2>1 DEF TypeOK, SeededSoFar, Stored, Seed, Upsert
<1>2. CASE Listen
  BY <1>2 DEF SeededSoFar, Stored, Listen
<1>3. CASE Stop
  BY <1>3 DEF SeededSoFar, Stop
<1>4. CASE Start
  BY <1>4 DEF SeededSoFar, Start
<1>5. ASSUME NEW p \in Packs, NEW row \in Pack, packs' = [packs EXCEPT ![p] = row],
             UNCHANGED <<phase, unseeded>>
      PROVE  SeededSoFar'
  BY <1>5 DEF TypeOK, SeededSoFar, Stored
<1>6. ASSUME UNCHANGED <<packs, phase, unseeded>> PROVE SeededSoFar'
  BY <1>6 DEF SeededSoFar, Stored
<1>7. ASSUME NEW a \in Admins, NEW p \in Packs, NEW content \in Contents,
             NEW enabled \in BOOLEAN, Put(a, p, content, enabled)
      PROVE  SeededSoFar'
  BY <1>5, <1>7, WritesStore DEF Put
<1>8. ASSUME NEW a \in Admins, NEW p \in Packs, NEW enabled \in BOOLEAN,
             SetEnabled(a, p, enabled)
      PROVE  SeededSoFar'
  BY <1>5, <1>8, WritesStore DEF SetEnabled
<1>9. ASSUME NEW a \in Admins, WriteSet(a) PROVE SeededSoFar'
  BY <1>5, <1>9, WritesStore DEF WriteSet
<1>10. ASSUME NEW a \in Admins, WriteSetFails(a) PROVE SeededSoFar'
  BY <1>5, <1>6, <1>10, WritesStore DEF WriteSetFails
<1>11. ASSUME NEW a \in Admins, NEW p \in Packs, NEW enabled \in BOOLEAN,
              ReadToSet(a, p, enabled)
       PROVE  SeededSoFar'
  BY <1>6, <1>11 DEF ReadToSet
<1>12. ASSUME NEW a \in Admins, ReadBack(a) PROVE SeededSoFar'
  BY <1>6, <1>12 DEF ReadBack
<1>13. CASE UNCHANGED vars
  BY <1>6, <1>13 DEF vars
<1> QED
  BY <1>1, <1>2, <1>3, <1>4, <1>7, <1>8, <1>9, <1>10, <1>11, <1>12, <1>13 DEF Next

\* Whoever writes a pack is about to answer with that row, and everybody else who is
\* about to answer with the pack has been overtaken.
LEMMA WriteShows ==
    ASSUME TypeOK, AnswerShowsWrite, NEW a \in Admins, NEW p \in Packs, NEW row \in Pack,
           packs' = [packs EXCEPT ![p] = row],
           WrittenBy(a, p, row) \/ WrittenUnheard(a, p)
    PROVE  AnswerShowsWrite'
<1> USE NoPackAssumption
<1> SUFFICES ASSUME NEW b \in Admins, admin'[b].pc = "reading"
             PROVE  /\ packs'[admin'[b].pack] # NoPack
                    /\ admin'[b].overtaken \/ packs'[admin'[b].pack] = admin'[b].row
  BY DEF AnswerShowsWrite
<1>1. packs'[p] = row /\ \A q \in Packs : q # p => packs'[q] = packs[q]
  BY DEF TypeOK
<1>2. CASE b = a
  <2>1. a \in DOMAIN Overtaking(p)
    BY DEF Overtaking
  <2>2. WrittenUnheard(a, p) => admin'[a] = Idle
    BY <2>1 DEF WrittenUnheard
  <2>3. WrittenBy(a, p, row)
    BY <1>2, <2>2 DEF Idle
  <2>4. admin'[a] = [pc |-> "reading", pack |-> p, row |-> row, overtaken |-> FALSE]
    BY <2>1, <2>3 DEF WrittenBy
  <2>5. admin'[a].pack = p /\ admin'[a].row = row
    BY <2>4
  <2> QED BY <1>1, <1>2, <2>5, NoPackAssumption
<1>3. CASE b # a
  <2>1. admin'[b] = Overtaking(p)[b]
    BY <1>3 DEF WrittenBy, WrittenUnheard, Overtaking
  <2>2. admin[b].pc = "reading"
    BY <2>1, OvertakingType
  <2>3. admin[b] \in Reading
    BY <2>2 DEF TypeOK, Idle, Setting
  <2>4. admin[b].pack \in Packs
    BY <2>3 DEF Reading
  <2>5. CASE admin[b].pack = p
    <3>1. admin'[b] = [admin[b] EXCEPT !.overtaken = TRUE]
      BY <2>1, <2>2, <2>5 DEF Overtaking
    <3>2. admin'[b].overtaken /\ admin'[b].pack = p
      BY <2>3, <2>5, <3>1 DEF Reading
    <3> QED BY <1>1, <3>2
  <2>6. CASE admin[b].pack # p
    <3>1. admin'[b] = admin[b]
      BY <2>1, <2>6 DEF Overtaking
    <3> QED BY <1>1, <2>2, <2>4, <2>6, <3>1 DEF AnswerShowsWrite
  <2> QED BY <2>5, <2>6
<1> QED BY <1>2, <1>3

\* No step makes an answer show anything but the handler's own write or a later one.
LEMMA AnswerStep == TypeOK /\ AnswerShowsWrite /\ [Next]_vars => AnswerShowsWrite'
<1> SUFFICES ASSUME TypeOK, AnswerShowsWrite, [Next]_vars PROVE AnswerShowsWrite'
  OBVIOUS
<1>1. ASSUME \A a \in Admins : admin'[a] = Idle PROVE AnswerShowsWrite'
  BY <1>1 DEF AnswerShowsWrite, Idle
<1>2. ASSUME NEW a \in Admins, UNCHANGED packs,
             \A b \in Admins : admin'[b].pc = "reading" => admin'[b] = admin[b]
      PROVE  AnswerShowsWrite'
  BY <1>2 DEF AnswerShowsWrite
<1>3. ASSUME NEW p \in Packs, Seed(p) PROVE AnswerShowsWrite'
  BY <1>1, <1>3 DEF TypeOK, Seed
<1>4. CASE Listen
  BY <1>1, <1>4 DEF TypeOK, Listen
<1>5. CASE Stop
  BY <1>1, <1>5 DEF Stop
<1>6. CASE Start
  BY <1>1, <1>6 DEF TypeOK, Start
<1>7. ASSUME NEW a \in Admins, NEW p \in Packs, NEW content \in Contents,
             NEW enabled \in BOOLEAN, Put(a, p, content, enabled)
      PROVE  AnswerShowsWrite'
  BY <1>7, WritesStore, WriteShows
<1>8. ASSUME NEW a \in Admins, NEW p \in Packs, NEW enabled \in BOOLEAN,
             SetEnabled(a, p, enabled)
      PROVE  AnswerShowsWrite'
  BY <1>8, WritesStore, WriteShows
<1>9. ASSUME NEW a \in Admins, WriteSet(a) PROVE AnswerShowsWrite'
  BY <1>9, WritesStore, WriteShows
<1>10. ASSUME NEW a \in Admins, NEW p \in Packs, NEW enabled \in BOOLEAN,
              ReadToSet(a, p, enabled)
       PROVE  AnswerShowsWrite'
  BY <1>2, <1>10 DEF TypeOK, ReadToSet
<1>11. ASSUME NEW a \in Admins, ReadBack(a) PROVE AnswerShowsWrite'
  BY <1>2, <1>11 DEF TypeOK, ReadBack, Idle
<1>12. ASSUME NEW a \in Admins, WriteSetFails(a) PROVE AnswerShowsWrite'
  <2>1. CASE admin' = [admin EXCEPT ![a] = Idle] /\ UNCHANGED packs
    BY <1>2, <2>1 DEF TypeOK, Idle
  <2>2. CASE /\ packs' = [packs EXCEPT ![admin[a].pack] = admin[a].row]
             /\ WrittenUnheard(a, admin[a].pack)
    <3>1. admin[a] \in Setting
      BY <1>12 DEF TypeOK, WriteSetFails, Idle, Reading
    <3>2. admin[a].pack \in Packs /\ admin[a].row \in Pack
      BY <3>1 DEF Setting
    <3> QED BY <2>2, <3>2, WriteShows
  <2> QED BY <1>12, <2>1, <2>2 DEF WriteSetFails
<1>13. CASE UNCHANGED vars
  BY <1>13 DEF AnswerShowsWrite, vars
<1> QED
  BY <1>3, <1>4, <1>5, <1>6, <1>7, <1>8, <1>9, <1>10, <1>11, <1>12, <1>13 DEF Next

\* Which store is configured is settled when the server is first started.
LEMMA StoreStays == [Next]_vars => persistent' = persistent
<1> SUFFICES ASSUME [Next]_vars PROVE persistent' = persistent
  OBVIOUS
<1>1. ASSUME NEW p \in Packs, Seed(p) PROVE persistent' = persistent
  BY <1>1 DEF Seed
<1>2. CASE Listen \/ Stop \/ Start
  BY <1>2 DEF Listen, Stop, Start
<1>3. ASSUME NEW a \in Admins, NEW p \in Packs, NEW enabled \in BOOLEAN,
             \/ \E content \in Contents : Put(a, p, content, enabled)
             \/ SetEnabled(a, p, enabled) \/ ReadToSet(a, p, enabled)
      PROVE  persistent' = persistent
  BY <1>3 DEF Put, SetEnabled, ReadToSet
<1>4. ASSUME NEW a \in Admins, WriteSet(a) \/ WriteSetFails(a) \/ ReadBack(a)
      PROVE  persistent' = persistent
  BY <1>4 DEF WriteSet, WriteSetFails, ReadBack
<1>5. CASE UNCHANGED vars
  BY <1>5 DEF vars
<1> QED BY <1>1, <1>2, <1>3, <1>4, <1>5 DEF Next

\* A memory store never keeps a row back, and forgets what was disabled.
LEMMA MemoryStep ==
    TypeOK /\ MemoryWritesAtOnce /\ [Next]_vars => MemoryWritesAtOnce'
<1> SUFFICES ASSUME TypeOK, MemoryWritesAtOnce, [Next]_vars, ~persistent
             PROVE  /\ \A a \in Admins : admin'[a].pc # "setting"
                    /\ phase' # "serving" => disabled' = {}
  BY StoreStays DEF MemoryWritesAtOnce
<1>1. (\A a \in Admins : admin[a].pc # "setting") /\ (phase # "serving" => disabled = {})
  BY DEF MemoryWritesAtOnce
<1>2. ASSUME NEW p \in Packs, Seed(p) PROVE UNCHANGED <<admin, phase, disabled>>
  BY <1>2 DEF Seed
<1>3. ASSUME NEW a \in Admins, NEW p \in Packs, NEW row,
             WrittenBy(a, p, row) \/ WrittenUnheard(a, p)
      PROVE  \A b \in Admins : admin'[b].pc # "setting"
  <2> SUFFICES ASSUME NEW b \in Admins PROVE admin'[b].pc # "setting"
    OBVIOUS
  <2>1. a \in DOMAIN Overtaking(p) /\ DOMAIN Overtaking(p) = Admins
    BY DEF Overtaking
  <2>2. CASE b = a
    <3>1. WrittenUnheard(a, p) => admin'[a] = Idle
      BY <2>1 DEF WrittenUnheard
    <3>2. WrittenBy(a, p, row) =>
            admin'[a] = [pc |-> "reading", pack |-> p, row |-> row, overtaken |-> FALSE]
      BY <2>1 DEF WrittenBy
    <3> QED BY <1>3, <2>2, <3>1, <3>2 DEF Idle
  <2>3. CASE b # a
    <3>1. admin'[b] = Overtaking(p)[b]
      BY <1>3, <2>1, <2>3 DEF WrittenBy, WrittenUnheard
    <3> QED BY <1>1, <3>1, OvertakingType
  <2> QED BY <2>2, <2>3
<1>4. ASSUME NEW a \in Admins, NEW p \in Packs, NEW content \in Contents,
             NEW enabled \in BOOLEAN, Put(a, p, content, enabled)
      PROVE  phase' = "serving" /\ \A b \in Admins : admin'[b].pc # "setting"
  BY <1>3, <1>4 DEF Put
<1>5. ASSUME NEW a \in Admins, NEW p \in Packs, NEW enabled \in BOOLEAN,
             SetEnabled(a, p, enabled)
      PROVE  phase' = "serving" /\ \A b \in Admins : admin'[b].pc # "setting"
  BY <1>3, <1>5 DEF SetEnabled
<1>6. CASE Stop
  BY <1>6 DEF Stop, Idle
<1>7. CASE Listen \/ Start
  BY <1>1, <1>7 DEF Listen, Start
<1>8. ASSUME NEW a \in Admins, ReadBack(a)
      PROVE  UNCHANGED <<phase, disabled>> /\ \A b \in Admins : admin'[b].pc # "setting"
  BY <1>1, <1>8 DEF TypeOK, ReadBack, Idle
<1>9. ASSUME NEW a \in Admins
      PROVE  /\ ~WriteSet(a) /\ ~WriteSetFails(a)
             /\ \A p \in Packs, enabled \in BOOLEAN : ~ReadToSet(a, p, enabled)
  BY <1>1 DEF WriteSet, WriteSetFails, ReadToSet
<1> QED
  BY <1>1, <1>2, <1>4, <1>5, <1>6, <1>7, <1>8, <1>9 DEF Next, vars

\* What a memory store says of a pack stays what it was last told.
LEMMA RememberStep ==
    TypeOK /\ MemoryWritesAtOnce /\ MemoryRemembers /\ [Next]_vars => MemoryRemembers'
<1> SUFFICES ASSUME TypeOK, MemoryWritesAtOnce, MemoryRemembers, [Next]_vars, ~persistent
             PROVE  /\ \A p \in Packs : Stored(p)' => packs'[p].content = lastPut'[p]
                    /\ \A p \in disabled' : Stored(p)' => ~packs'[p].enabled
  BY StoreStays DEF MemoryRemembers, ContentIsLastPut
<1> DEFINE Goal == /\ \A p \in Packs : Stored(p)' => packs'[p].content = lastPut'[p]
                   /\ \A p \in disabled' : Stored(p)' => ~packs'[p].enabled
<1> USE PackAssumption, NoPackAssumption
<1>1. /\ \A p \in Packs : Stored(p) => packs[p].content = lastPut[p]
      /\ \A p \in disabled : Stored(p) => ~packs[p].enabled
  BY DEF MemoryRemembers, ContentIsLastPut
<1>2. ASSUME NEW p \in Packs, Seed(p) PROVE Goal
  <2>1. disabled' = {} /\ packs' = [packs EXCEPT ![p] = Default]
        /\ lastPut' = [lastPut EXCEPT ![p] = Default.content]
    BY <1>2 DEF MemoryWritesAtOnce, Seed, Upsert
  <2> QED BY <1>1, <2>1 DEF TypeOK, Stored
<1>3. ASSUME NEW a \in Admins, NEW p \in Packs, NEW content \in Contents,
             NEW enabled \in BOOLEAN, Put(a, p, content, enabled)
      PROVE  Goal
  <2> DEFINE row == [content |-> content, enabled |-> enabled]
  <2>1. /\ packs' = [packs EXCEPT ![p] = row] /\ lastPut' = [lastPut EXCEPT ![p] = content]
        /\ disabled' = Marked(p, enabled)
    BY <1>3 DEF Put, Upsert
  <2>2. row.content = content /\ row.enabled = enabled
    OBVIOUS
  <2> HIDE DEF row
  <2>3. \A q \in Packs : Stored(q)' => packs'[q].content = lastPut'[q]
    BY <1>1, <2>1, <2>2 DEF TypeOK, Stored
  <2>4. \A q \in disabled' : Stored(q)' => ~packs'[q].enabled
    BY <1>1, <2>1, <2>2 DEF TypeOK, Stored, Marked
  <2> QED BY <2>3, <2>4
<1>4. ASSUME NEW a \in Admins, NEW p \in Packs, NEW enabled \in BOOLEAN,
             SetEnabled(a, p, enabled)
      PROVE  Goal
  <2> DEFINE row == [packs[p] EXCEPT !.enabled = enabled]
  <2>1. /\ packs' = [packs EXCEPT ![p] = row] /\ lastPut' = lastPut
        /\ disabled' = Marked(p, enabled)
    BY <1>4 DEF SetEnabled
  <2>2. row.content = packs[p].content /\ row.enabled = enabled /\ Stored(p)
    BY <1>4 DEF TypeOK, SetEnabled, Stored, Pack
  <2> HIDE DEF row
  <2>3. \A q \in Packs : Stored(q)' => packs'[q].content = lastPut'[q]
    BY <1>1, <2>1, <2>2 DEF TypeOK, Stored
  <2>4. \A q \in disabled' : Stored(q)' => ~packs'[q].enabled
    BY <1>1, <2>1, <2>2 DEF TypeOK, Stored, Marked
  <2> QED BY <2>3, <2>4
<1>5. CASE Stop
  BY <1>5 DEF Stop, Empty, Stored
<1>6. CASE Listen \/ Start
  BY <1>1, <1>6 DEF Listen, Start, Stored
<1>7. ASSUME NEW a \in Admins, ReadBack(a) PROVE Goal
  BY <1>1, <1>7 DEF ReadBack, Stored
<1>8. ASSUME NEW a \in Admins
      PROVE  /\ ~WriteSet(a) /\ ~WriteSetFails(a)
             /\ \A p \in Packs, enabled \in BOOLEAN : ~ReadToSet(a, p, enabled)
  BY DEF MemoryWritesAtOnce, WriteSet, WriteSetFails, ReadToSet
<1>9. CASE UNCHANGED vars
  BY <1>1, <1>9 DEF Stored, vars
<1> QED
  BY <1>2, <1>3, <1>4, <1>5, <1>6, <1>7, <1>8, <1>9 DEF Next

--------------------------------------------------------------------------------

\* The invariant holds when the server is first started.
LEMMA SafeInit == Init => Safe
<1> SUFFICES ASSUME Init PROVE Safe
  OBVIOUS
<1> USE PackAssumption, NoPackAssumption
<1>1. TypeOK
  BY DEF Init, TypeOK, Empty
<1>2. SeededSoFar
  BY DEF Init, SeededSoFar
<1>3. AnswerShowsWrite
  BY DEF Init, AnswerShowsWrite, Idle
<1>4. MemoryWritesAtOnce /\ MemoryRemembers
  BY DEF Init, MemoryWritesAtOnce, MemoryRemembers, ContentIsLastPut, Stored, Empty, Idle
<1> QED BY <1>1, <1>2, <1>3, <1>4 DEF Safe

\* The inductive invariant: types, seeding, answers and the memory store's promises
\* hold together, whichever store is configured.
THEOREM AlwaysSafe == Spec => []Safe
<1>1. Safe /\ [Next]_vars => Safe'
  BY TypeStep, SeededStep, AnswerStep, MemoryStep, RememberStep DEF Safe
<1> QED BY SafeInit, <1>1, PTL DEF Spec

\* Every variable keeps its type, and handlers do not outlive their server.
THEOREM TypeCorrect == Spec => []TypeOK
<1>1. Safe => TypeOK
  BY DEF Safe
<1> QED BY AlwaysSafe, <1>1, PTL

\* While the server serves, every baseline pack is in the store (server/main.go:27-56).
THEOREM BaselineAlwaysServed == Spec => []BaselineServed
<1>1. Safe => BaselineServed
  BY DEF Safe, SeededSoFar, BaselineServed
<1> QED BY AlwaysSafe, <1>1, PTL

\* What PUT and PATCH answer is what they wrote or a later write (handler.go:178-256).
THEOREM AnswerAlwaysShows == Spec => []AnswerShowsWrite
<1>1. Safe => AnswerShowsWrite
  BY DEF Safe
<1> QED BY AlwaysSafe, <1>1, PTL

\* The memory store keeps what administrators said (policypack/store.go:31-111).
THEOREM MemoryAlwaysKeeps == Spec => []MemoryKeepsPromises
<1>1. Safe => MemoryKeepsPromises
  BY DEF Safe, MemoryRemembers, MemoryKeepsPromises, DisabledStaysDisabled
<1> QED BY AlwaysSafe, <1>1, PTL

================================================================================
