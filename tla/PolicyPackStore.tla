---------------------------- MODULE PolicyPackStore ----------------------------
(****************************************************************************)
(* The policy pack stores under concurrent administrators, and the life of  *)
(* the server around them: it seeds the baseline packs before it listens,   *)
(* and it may stop or die at any point and be started again.                *)
(*                                                                          *)
(* Without DATABASE_URL the store is policypack.MemoryStore: SetEnabled      *)
(* works under the lock, and the packs go with the process.  With it, it is *)
(* postgres.PolicyPackStore: SetEnabled reads the row with one statement    *)
(* and writes the whole row back with another, and the table stays.         *)
(*                                                                          *)
(* The PUT and PATCH handlers answer with the pack, which they read back    *)
(* with a call of its own after they have written it.                       *)
(*                                                                          *)
(* List and ListEnabled change nothing and are not steps; nor is a call     *)
(* that fails before it writes, or names a pack that is not there.          *)
(****************************************************************************)
EXTENDS Integers

CONSTANTS
    Admins,        \* administrators using PUT and PATCH
    Packs,         \* tenant and id of a pack
    Baseline,      \* the packs seeded at start
    Contents,      \* what a pack may say: name, version, policies
    Template,      \* what the baseline says
    NoPack,        \* nothing is stored
    MaxStarts      \* bound: starts of the server

ASSUME PackAssumption ==
    /\ Baseline \subseteq Packs /\ Template \in Contents
    /\ MaxStarts \in Nat \ {0}

VARIABLES
    persistent, \* the store is PostgreSQL; never changes
    phase,      \* the server: "starting", "serving" or "down"
    unseeded,   \* baseline packs main has still to seed
    starts,     \* how often the server was started
    packs,      \* the stored packs
    admin,      \* per administrator: where its handler is: "setting", about to write the
                \* row of a SetEnabled; "reading", about to read back what it wrote
    lastPut,    \* history: the content last written by an Upsert of a caller or seed
    disabled    \* history: the last write an administrator made disabled the pack

vars == <<persistent, phase, unseeded, starts, packs, admin, lastPut, disabled>>

--------------------------------------------------------------------------------

Pack == [content : Contents, enabled : BOOLEAN]

Idle == [pc |-> "idle"]
Setting == [pc : {"setting"}, pack : Packs, row : Pack]
\* overtaken, a history: somebody has written the pack since.
Reading == [pc : {"reading"}, pack : Packs, row : Pack, overtaken : BOOLEAN]

Empty  == [p \in Packs |-> NoPack]
Stored(p) == packs[p] # NoPack

ASSUME NoPackAssumption == NoPack \notin Pack /\ NoPack \notin Contents

Init ==
    /\ persistent \in BOOLEAN
    /\ phase = "starting"
    /\ unseeded = Baseline
    /\ starts = 1
    /\ packs = Empty
    /\ admin = [a \in Admins |-> Idle]
    /\ lastPut = Empty
    /\ disabled = {}

--------------------------------------------------------------------------------

\* Upsert: the statement, or the assignment under the lock.
Upsert(p, pack) ==
    /\ packs' = [packs EXCEPT ![p] = pack]
    /\ lastPut' = [lastPut EXCEPT ![p] = pack.content]

\* DefaultPolicyPacks: a baseline pack is enabled.
Default == [content |-> Template, enabled |-> TRUE]

\* main, one round of the seeding loop; the list is taken in any order.
Seed(p) ==
    /\ phase = "starting" /\ p \in unseeded
    /\ Upsert(p, Default)
    /\ unseeded' = unseeded \ {p}
    /\ UNCHANGED <<persistent, phase, starts, admin, disabled>>

\* Mutant: the server listens while packs are still being seeded.
ListenEarly ==
    /\ phase = "starting"
    /\ phase' = "serving"
    /\ UNCHANGED <<persistent, unseeded, starts, packs, admin, lastPut, disabled>>

Listen ==
    /\ phase = "starting" /\ unseeded = {}
    /\ phase' = "serving"
    /\ UNCHANGED <<persistent, unseeded, starts, packs, admin, lastPut, disabled>>

\* Mutant: handlers outlive the server.
StopLeavingHandlers ==
    /\ phase # "down"
    /\ phase' = "down"
    /\ \/ persistent /\ UNCHANGED <<packs, lastPut, disabled>>
       \/ ~persistent /\ packs' = Empty /\ lastPut' = Empty /\ disabled' = {}
    /\ UNCHANGED <<persistent, unseeded, starts, admin>>

\* The server shuts down, exits on an error or is killed; its handlers are gone.
Stop ==
    /\ phase # "down"
    /\ phase' = "down"
    /\ admin' = [a \in Admins |-> Idle]
    /\ \/ persistent /\ UNCHANGED <<packs, lastPut, disabled>>
       \/ ~persistent /\ packs' = Empty /\ lastPut' = Empty /\ disabled' = {}
    /\ UNCHANGED <<persistent, unseeded, starts>>

Start ==
    /\ phase = "down" /\ starts < MaxStarts
    /\ phase' = "starting"
    /\ starts' = starts + 1
    /\ unseeded' = Baseline
    /\ UNCHANGED <<persistent, packs, admin, lastPut, disabled>>

Marked(p, enabled) == IF enabled THEN disabled \ {p} ELSE disabled \cup {p}

\* The administrators, now that somebody has written p.
Overtaking(p) ==
    [b \in Admins |-> IF admin[b].pc = "reading" /\ admin[b].pack = p
                      THEN [admin[b] EXCEPT !.overtaken = TRUE] ELSE admin[b]]

\* The handler of a has written row to p, and will read it back.
WrittenBy(a, p, row) ==
    admin' = [Overtaking(p) EXCEPT ![a] =
                 [pc |-> "reading", pack |-> p, row |-> row, overtaken |-> FALSE]]

\* The write was committed, but its answer was lost: the handler reports an error.
WrittenUnheard(a, p) == admin' = [Overtaking(p) EXCEPT ![a] = Idle]

\* PUT of a pack: the whole row is replaced, and the caller may be told otherwise.
Put(a, p, content, enabled) ==
    LET row == [content |-> content, enabled |-> enabled]
    IN  /\ phase = "serving" /\ admin[a] = Idle
        /\ Upsert(p, row)
        /\ disabled' = Marked(p, enabled)
        /\ WrittenBy(a, p, row) \/ (persistent /\ WrittenUnheard(a, p))
        /\ UNCHANGED <<persistent, phase, unseeded, starts>>

\* Mutant: the memory store, too, reads the pack and writes it back later.
ReadToSetUnlocked(a, p, enabled) ==
    /\ phase = "serving" /\ admin[a] = Idle /\ Stored(p)
    /\ admin' = [admin EXCEPT ![a] =
          [pc |-> "setting", pack |-> p, row |-> [packs[p] EXCEPT !.enabled = enabled]]]
    /\ UNCHANGED <<persistent, phase, unseeded, starts, packs, lastPut, disabled>>

\* SetEnabled of the memory store, under the lock.
SetEnabled(a, p, enabled) ==
    /\ ~persistent /\ phase = "serving" /\ admin[a] = Idle /\ Stored(p)
    /\ packs' = [packs EXCEPT ![p].enabled = enabled]
    /\ disabled' = Marked(p, enabled)
    /\ WrittenBy(a, p, packs'[p])
    /\ UNCHANGED <<persistent, phase, unseeded, starts, lastPut>>

\* SetEnabled of the PostgreSQL store: Get, the row in memory, and Upsert.
ReadToSet(a, p, enabled) ==
    /\ persistent /\ phase = "serving" /\ admin[a] = Idle /\ Stored(p)
    /\ admin' = [admin EXCEPT ![a] =
          [pc |-> "setting", pack |-> p, row |-> [packs[p] EXCEPT !.enabled = enabled]]]
    /\ UNCHANGED <<persistent, phase, unseeded, starts, packs, lastPut, disabled>>

\* Mutant: success is answered from the row that was read, before it is written.
WriteSetForgotten(a) ==
    /\ admin[a].pc = "setting"
    /\ disabled' = Marked(admin[a].pack, admin[a].row.enabled)
    /\ WrittenBy(a, admin[a].pack, admin[a].row)
    /\ UNCHANGED <<persistent, phase, unseeded, starts, packs, lastPut>>

WriteSet(a) ==
    /\ admin[a].pc = "setting"
    /\ packs' = [packs EXCEPT ![admin[a].pack] = admin[a].row]
    /\ disabled' = Marked(admin[a].pack, admin[a].row.enabled)
    /\ WrittenBy(a, admin[a].pack, admin[a].row)
    /\ UNCHANGED <<persistent, phase, unseeded, starts, lastPut>>

\* The second statement fails: nothing is written, or the row is and nobody hears of it.
WriteSetFails(a) ==
    /\ admin[a].pc = "setting"
    /\ \/ admin' = [admin EXCEPT ![a] = Idle] /\ UNCHANGED <<packs, disabled>>
       \/ /\ packs' = [packs EXCEPT ![admin[a].pack] = admin[a].row]
          /\ disabled' = Marked(admin[a].pack, admin[a].row.enabled)
          /\ WrittenUnheard(a, admin[a].pack)
    /\ UNCHANGED <<persistent, phase, unseeded, starts, lastPut>>

\* The handler reads the pack back and answers with what it finds; or the read fails,
\* and it answers an error after a write that was done.
ReadBack(a) ==
    /\ admin[a].pc = "reading"
    /\ admin' = [admin EXCEPT ![a] = Idle]
    /\ UNCHANGED <<persistent, phase, unseeded, starts, packs, lastPut, disabled>>

Next ==
    \/ \E p \in Packs : Seed(p)
    \/ Listen \/ Stop \/ Start
    \/ \E a \in Admins :
          \/ \E p \in Packs, enabled \in BOOLEAN :
                \/ \E content \in Contents : Put(a, p, content, enabled)
                \/ SetEnabled(a, p, enabled)
                \/ ReadToSet(a, p, enabled)
          \/ WriteSet(a)
          \/ WriteSetFails(a)
          \/ ReadBack(a)

Spec == Init /\ [][Next]_vars

--------------------------------------------------------------------------------

\* Every variable keeps its type, and a handler under way is one of the server that is
\* serving now.
TypeOK ==
    /\ persistent \in BOOLEAN /\ phase \in {"starting", "serving", "down"}
    /\ unseeded \subseteq Baseline /\ starts \in 1..MaxStarts
    /\ packs \in [Packs -> Pack \cup {NoPack}]
    /\ lastPut \in [Packs -> Contents \cup {NoPack}]
    /\ disabled \subseteq Packs
    /\ admin \in [Admins -> {Idle} \cup Setting \cup Reading]
    /\ \A a \in Admins : admin[a] # Idle => phase = "serving"

\* No event is ever evaluated without the baseline packs in the store, however often
\* the server died while seeding them (cmd/server/main.go:27-56).
BaselineServed == phase = "serving" => \A p \in Baseline : Stored(p)

\* What a PUT or PATCH handler is about to answer: the pack is there, and it is the one
\* the handler wrote unless somebody else has written it since; a row judged from an
\* earlier statement is never shown as the result (handler.go:178-187, 245-256).
AnswerShowsWrite ==
    \A a \in Admins : admin[a].pc = "reading" =>
        LET pack == packs[admin[a].pack]
        IN  pack # NoPack /\ (admin[a].overtaken \/ pack = admin[a].row)

\* A pack says what the last PUT or seeding made it say: enabling and disabling it change
\* nothing else (docs/API.md:178, 211).
ContentIsLastPut ==
    \A p \in Packs : Stored(p) => packs[p].content = lastPut[p]

\* A pack that an administrator disabled, and none has enabled since, is not loaded by
\* evaluations (docs/API.md:211).
DisabledStaysDisabled ==
    phase = "serving" => \A p \in disabled : Stored(p) => ~packs[p].enabled

\* The memory store, which changes a pack under one lock and does not outlive the
\* server, keeps both promises (policypack/store.go:31-53, 97-111).
MemoryKeepsPromises ==
    ~persistent => ContentIsLastPut /\ DisabledStaysDisabled

================================================================================
