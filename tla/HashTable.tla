------------------------------ MODULE HashTable ------------------------------
(***************************************************************************)
(* src/cpp/hash_table.h: HashTable<K, V>, a vector of Buckets, each a      *)
(* linked list of entries.  A key lives in bucket KeyHash(key) %           *)
(* Buckets.GetSize(); Insert, Remove, Get and Exists scan that bucket with *)
(* KeyCmp.  The table has no lock, so its owner calls it from one thread   *)
(* and every call is one step.                                             *)
(*                                                                         *)
(* The owner is modelled as a careful caller: it constructs the table,     *)
(* goes on only if err is E_OK, and calls Get only for a key its own       *)
(* Insert and Remove results say is present (`held`).  KeyCmp is taken to  *)
(* be equality of keys and KeyHash a fixed function into Nat.  A kernel    *)
(* oops (KBUG_ON, or the division of a % by zero) ends the owner's thread: *)
(* `bug` records it and no call follows.                                   *)
(***************************************************************************)
EXTENDS Naturals, Sequences

LOCAL SE == INSTANCE SequencesExt

CONSTANTS
    Keys,
    Values,
    NrBuckets,  \* the constructor's nrBuckets
    KeyHash,    \* the constructor's keyHash, as a function
    Absent,     \* no value (the abstract map's value of a missing key)
    Failures    \* which allocations may fail

FailureKinds == {"Reserve",   \* Buckets.Reserve(nrBuckets)
                 "PushBack",  \* Buckets.PushBack of a bucket list
                 "AddTail"}   \* LinkedList::AddTail of a new entry

ASSUME /\ NrBuckets \in Nat /\ KeyHash \in [Keys -> Nat]
       /\ Absent \notin Values /\ Failures \subseteq FailureKinds

VARIABLES
    buckets,  \* Buckets: one sequence of [key, value] entries per bucket
    err,      \* the owner's err after the constructor returned
    call,     \* the owner's last call: operation, key and value
    ret,      \* what it returned, Absent before the first call
    bug,      \* the oops that ended the owner's thread, or "None"
    held      \* the keys the owner's call results say the table holds

vars == <<buckets, err, call, ret, bug, held>>

Entry == [key : Keys, value : Values]

\* The number of buckets the constructor leaves: nrBuckets, none when
\* Reserve fails, or the i lists pushed before PushBack failed.
CtorSizes ==
    {NrBuckets}
    \cup (IF "Reserve" \in Failures THEN {0} ELSE {})
    \cup (IF "PushBack" \in Failures THEN 0..(NrBuckets - 1) ELSE {})

\* The constructor takes err by value: its E_NO_MEM assignments change a
\* copy, and the owner's err stays E_OK whatever happened.
CtorErr(n) == "Ok"

Init ==
    /\ \E n \in CtorSizes :
          /\ buckets = [b \in 1..n |-> <<>>]
          /\ err = CtorErr(n)
    /\ call = <<>>
    /\ ret = Absent
    /\ bug = "None"
    /\ held = {}

\* KeyHash(key) % Buckets.GetSize(), as a 1-based index into buckets.
BucketOf(k) == (KeyHash[k] % Len(buckets)) + 1

\* The position of key k in bucket list l, 0 if the scan finds none.
Find(l, k) == SE!SelectInSeq(l, LAMBDA e : e.key = k)

\* The owner may call the table: it was constructed without error and no
\* oops has ended the thread.
Usable == err = "Ok" /\ bug = "None"

\* A call on a table without buckets divides by Buckets.GetSize() = 0.
DivideByZero ==
    /\ Len(buckets) = 0
    /\ bug' = "DivideByZero"
    /\ UNCHANGED <<buckets, err, call, ret, held>>

\* The call c returns r.
Return(c, r) == call' = c /\ ret' = r

\* Mutant of Insert: the scan for an equal key is skipped.
InsertNoLookup(k, v) ==
    /\ Usable
    /\ \/ DivideByZero
       \/ /\ Len(buckets) > 0
          /\ Return(<<"Insert", k, v>>, TRUE)
          /\ held' = held \cup {k}
          /\ buckets' = [buckets EXCEPT ![BucketOf(k)] =
                            Append(@, [key |-> k, value |-> v])]
          /\ UNCHANGED <<err, bug>>

\* Insert: FALSE if the bucket holds the key; otherwise the entry is added
\* at the tail, and TRUE is returned even when AddTail fails.
Insert(k, v) ==
    /\ Usable
    /\ \/ DivideByZero
       \/ /\ Len(buckets) > 0
          /\ Find(buckets[BucketOf(k)], k) # 0
          /\ Return(<<"Insert", k, v>>, FALSE)
          /\ UNCHANGED <<buckets, err, bug, held>>
       \/ /\ Len(buckets) > 0
          /\ Find(buckets[BucketOf(k)], k) = 0
          /\ Return(<<"Insert", k, v>>, TRUE)
          /\ held' = held \cup {k}
          /\ \/ buckets' = [buckets EXCEPT ![BucketOf(k)] =
                               Append(@, [key |-> k, value |-> v])]
             \/ "AddTail" \in Failures /\ UNCHANGED buckets
          /\ UNCHANGED <<err, bug>>

\* Mutant of Remove: the entry is found but it.Erase() is skipped.
RemoveNoErase(k) ==
    /\ Usable
    /\ \/ DivideByZero
       \/ /\ Len(buckets) > 0
          /\ Return(<<"Remove", k>>, Find(buckets[BucketOf(k)], k) # 0)
          /\ held' = held \ {k}
          /\ UNCHANGED <<buckets, err, bug>>

\* Remove: erase the first entry with the key and return whether there
\* was one.
Remove(k) ==
    /\ Usable
    /\ \/ DivideByZero
       \/ /\ Len(buckets) > 0
          /\ LET l == buckets[BucketOf(k)]
                 i == Find(l, k)
             IN /\ Return(<<"Remove", k>>, i # 0)
                /\ buckets' = IF i = 0 THEN buckets
                              ELSE [buckets EXCEPT ![BucketOf(k)] = SE!RemoveAt(l, i)]
          /\ held' = held \ {k}
          /\ UNCHANGED <<err, bug>>

\* Exists: whether the key's bucket holds it.
Exists(k) ==
    /\ Usable
    /\ \/ DivideByZero
       \/ /\ Len(buckets) > 0
          /\ Return(<<"Exists", k>>, Find(buckets[BucketOf(k)], k) # 0)
          /\ UNCHANGED <<buckets, err, bug, held>>

\* Get, called by the owner only for a key it holds: KBUG_ON(!Exists(key))
\* (whose own % comes first), then the value of the key's entry.
Get(k) ==
    /\ Usable
    /\ k \in held
    /\ \/ DivideByZero
       \/ /\ Len(buckets) > 0
          /\ LET l == buckets[BucketOf(k)] IN
             \/ /\ Find(l, k) = 0
                /\ bug' = "KBUG_ON"
                /\ UNCHANGED <<buckets, err, call, ret, held>>
             \/ /\ Find(l, k) # 0
                /\ Return(<<"Get", k>>, l[Find(l, k)].value)
                /\ UNCHANGED <<buckets, err, bug, held>>

Next ==
    \E k \in Keys :
        \/ \E v \in Values : Insert(k, v)
        \/ Remove(k)
        \/ Exists(k)
        \/ Get(k)

Spec == Init /\ [][Next]_vars

-----------------------------------------------------------------------------
\* Every entry of every bucket.
Entries == UNION {SE!ToSet(buckets[b]) : b \in 1..Len(buckets)}

TypeOK ==
    /\ buckets \in Seq(Seq(Entry))
    /\ err = "Ok"
    /\ call \in {<<>>} \cup ({"Insert"} \X Keys \X Values)
                \cup ({"Remove", "Exists", "Get"} \X Keys)
    /\ ret \in BOOLEAN \cup Values \cup {Absent}
    /\ bug \in {"None", "KBUG_ON", "DivideByZero"}
    /\ held \subseteq Keys

\* Every entry sits in the bucket its key hashes to, and no key has two
\* entries: Insert's scan of one bucket is enough to refuse a duplicate
\* only because of this.
WellFormed ==
    \A b \in 1..Len(buckets) :
        \A i \in 1..Len(buckets[b]) :
            /\ BucketOf(buckets[b][i].key) = b
            /\ \A c \in 1..Len(buckets) : \A j \in 1..Len(buckets[c]) :
                  buckets[c][j].key = buckets[b][i].key => <<c, j>> = <<b, i>>

\* The owner, which checks err after construction and calls Get only for
\* a key its own Insert and Remove results say is present, never hits a
\* kernel oops in the table.
NoKernelBug == bug = "None"

\* The map the buckets represent.
Contents ==
    [k \in Keys |-> IF \E e \in Entries : e.key = k
                    THEN (CHOOSE e \in Entries : e.key = k).value
                    ELSE Absent]

\* The table is a map: every call's result and effect is one the abstract
\* KeyMap allows (an oops ends the calls and is a stuttering step).
Abs == INSTANCE KeyMap WITH map <- Contents

ImplementsKeyMap == Abs!Spec

=============================================================================
