-------------------------- MODULE ProcessesProofs --------------------------
(***************************************************************************)
(* The processes beside the editor.  The reference count of                *)
(* ExternalCommand (RefsMatch, NoUseAfterFree and FreedByTheLast) and what *)
(* becomes of the output (OutputKept), for any number of commands of any   *)
(* kind; and, for any number of starts of the program, of any files, and   *)
(* any kills (Ipc): one process at most runs and is reachable unless two   *)
(* starts overlapped, and files are not lost but in the situations Ipc     *)
(* names.                                                                  *)
(***************************************************************************)
EXTENDS ExternalCommand, Ipc, FiniteSetTheorems, TLAPS

-----------------------------------------------------------------------------
(* ExternalCommand                                                         *)

EpType == [refcount : Int, sources : SUBSET Sources, buffer_out : BOOLEAN,
           freed : BOOLEAN, misused : BOOLEAN]

\* Before the child there is nothing but the write of the input file.
Before(k, e, o, new) ==
    /\ e.sources \subseteq {"writing"}
    /\ ~e.freed /\ ~e.misused
    /\ new => e.sources = {}
    /\ new \/ "writing" \in e.sources => e.refcount = 0 /\ o = {}
    /\ "writing" \in e.sources => k.input = "file"
    /\ ~new /\ "writing" \notin e.sources => "spawn failed" \in o \/ "write failed" \in o

\* After it was started the count is that of the sources to come; it is zero when,
\* and only when, the structure is freed, and the idle callback never outlives
\* the watch of the child.
After(k, e, o, runs) ==
    /\ e.refcount = Cardinality(e.sources) + Lost(o)
    /\ e.freed <=> e.refcount = 0
    /\ ~e.misused
    /\ runs => "watching" \in e.sources
    /\ "idle" \in e.sources =>
          "watching" \in e.sources /\ o = {} /\ "writing" \notin e.sources
          /\ "reading" \notin e.sources
    /\ "watching" \in e.sources => "no output file" \notin o
    /\ "watching" \in e.sources /\ k.output # "pipe" => "reading" \notin e.sources
    /\ "writing" \in e.sources => "write failed" \notin o /\ k.input = "pipe"

Good(k, e, ch, o) ==
    /\ k \in Kind /\ e \in EpType /\ o \in SUBSET Oddities
    /\ ch \in {"new", "none", "running", "exited"}
    /\ ch \in {"new", "none"} => Before(k, e, o, ch = "new")
    /\ ch \in {"running", "exited"} => After(k, e, o, ch = "running")

IInv ==
    /\ kind \in [Cmds -> Kind]
    /\ ep \in [Cmds -> EpType]
    /\ child \in [Cmds -> {"new", "none", "running", "exited"}]
    /\ odd \in [Cmds -> SUBSET Oddities]
    /\ \A c \in Cmds : Good(kind[c], ep[c], child[c], odd[c])

-----------------------------------------------------------------------------
(* The operations on a Texternalp, field by field.                         *)

\* The number of sources, when one is added or taken away.
LEMMA CountSources ==
    ASSUME NEW S \in SUBSET Sources
    PROVE  /\ Cardinality(S) \in Nat
           /\ Cardinality(S) = 0 <=> S = {}
           /\ \A s \in S : Cardinality(S \ {s}) = Cardinality(S) - 1
           /\ \A s \in Sources \ S : Cardinality(S \union {s}) = Cardinality(S) + 1
<1>1. IsFiniteSet(Sources)
  <2>1. IsFiniteSet({})
    BY FS_EmptySet
  <2>2. IsFiniteSet({} \union {"idle"})
    BY <2>1, FS_AddElement
  <2>3. IsFiniteSet({} \union {"idle"} \union {"writing"})
    BY <2>2, FS_AddElement
  <2>4. IsFiniteSet({} \union {"idle"} \union {"writing"} \union {"reading"})
    BY <2>3, FS_AddElement
  <2>5. IsFiniteSet({} \union {"idle"} \union {"writing"} \union {"reading"} \union {"watching"})
    BY <2>4, FS_AddElement
  <2>6. Sources = {} \union {"idle"} \union {"writing"} \union {"reading"} \union {"watching"}
    BY DEF Sources
  <2> QED BY <2>5, <2>6
<1>2. IsFiniteSet(S)
  BY <1>1, FS_Subset
<1> QED BY <1>2, FS_CardinalityType, FS_EmptySet, FS_AddElement, FS_RemoveElement

LEMMA LostType ==
    ASSUME NEW o \in SUBSET Oddities
    PROVE  /\ Lost(o) \in Nat
           /\ Lost(o) = 0 => "write failed" \notin o /\ "no output file" \notin o
           /\ "write failed" \notin o /\ "no output file" \notin o => Lost(o) = 0
           /\ Lost(o \union {"child first"}) = Lost(o)
           /\ "write failed" \notin o => Lost(o \union {"write failed"}) = Lost(o) + 1
           /\ "no output file" \notin o => Lost(o \union {"no output file"}) = Lost(o) + 1
<1> DEFINE G == {"write failed", "no output file"}
           L == o \intersect G
<1>1. IsFiniteSet(G)
  <2>1. IsFiniteSet({} \union {"write failed"})
    BY FS_EmptySet, FS_AddElement
  <2>2. IsFiniteSet({} \union {"write failed"} \union {"no output file"})
    BY <2>1, FS_AddElement
  <2>3. G = {} \union {"write failed"} \union {"no output file"}
    OBVIOUS
  <2> QED BY <2>2, <2>3
<1>2. IsFiniteSet(L)
  BY <1>1, FS_Subset
<1>3. Lost(o) = Cardinality(L) /\ Cardinality(L) \in Nat
  BY <1>2, FS_CardinalityType DEF Lost
<1>4. Cardinality(L) = 0 <=> L = {}
  BY <1>2, FS_EmptySet
<1>5. (o \union {"child first"}) \intersect G = L
  OBVIOUS
<1>6. ASSUME NEW x \in G, x \notin o
      PROVE  Cardinality((o \union {x}) \intersect G) = Cardinality(L) + 1
  <2>1. (o \union {x}) \intersect G = L \union {x} /\ x \notin L
    BY <1>6
  <2> HIDE DEF L
  <2> QED BY <1>2, <2>1, FS_AddElement
<1>7. L = {} <=> "write failed" \notin o /\ "no output file" \notin o
  OBVIOUS
<1> QED BY <1>3, <1>4, <1>5, <1>6, <1>7 DEF Lost

LEMMA UnrefFields ==
    ASSUME NEW e \in EpType
    PROVE  /\ externalp_unref(e) \in EpType
           /\ externalp_unref(e).refcount = e.refcount - 1
           /\ externalp_unref(e).freed <=> e.freed \/ e.refcount <= 1
           /\ externalp_unref(e).misused <=> e.misused \/ e.freed
           /\ externalp_unref(e).sources = e.sources
<1> DEFINE f == e.freed \/ e.refcount - 1 <= 0
           m == e.misused \/ e.freed
           r == [refcount |-> e.refcount - 1, sources |-> e.sources,
                 buffer_out |-> e.buffer_out, freed |-> f, misused |-> m]
<1>1. f \in BOOLEAN /\ m \in BOOLEAN /\ e.refcount - 1 \in Int
  BY DEF EpType
<1>2. f <=> e.freed \/ e.refcount <= 1
  BY DEF EpType
<1>3. externalp_unref(e) = r
  BY DEF externalp_unref
<1> HIDE DEF f
<1>4. m <=> e.misused \/ e.freed
  OBVIOUS
<1> HIDE DEF m
<1>5. r \in EpType
  BY <1>1 DEF EpType
<1>6. r.refcount = e.refcount - 1 /\ r.freed = f /\ r.misused = m /\ r.sources = e.sources
  OBVIOUS
<1> QED BY <1>2, <1>3, <1>4, <1>5, <1>6

LEMMA RefFields ==
    ASSUME NEW e \in EpType
    PROVE  /\ Ref(e) \in EpType
           /\ Ref(e).refcount = e.refcount + 1
           /\ Ref(e).freed = e.freed /\ Ref(e).misused = e.misused
           /\ Ref(e).sources = e.sources
BY DEF Ref, EpType

LEMMA AddFields ==
    ASSUME NEW e \in EpType, NEW s \in Sources
    PROVE  /\ Add(e, s) \in EpType
           /\ Add(e, s).refcount = e.refcount
           /\ Add(e, s).freed = e.freed /\ Add(e, s).misused = e.misused
           /\ Add(e, s).sources = e.sources \union {s}
BY DEF Add, EpType

LEMMA DropFields ==
    ASSUME NEW e \in EpType, NEW s \in Sources
    PROVE  /\ Drop(e, s) \in EpType
           /\ Drop(e, s).refcount = e.refcount
           /\ Drop(e, s).freed = e.freed /\ Drop(e, s).misused = e.misused
           /\ Drop(e, s).sources = e.sources \ {s}
BY DEF Drop, EpType

LEMMA BufferOutFields ==
    ASSUME NEW e \in EpType
    PROVE  /\ BufferOut(e) \in EpType
           /\ BufferOut(e).refcount = e.refcount
           /\ BufferOut(e).freed = e.freed /\ BufferOut(e).misused = e.misused
           /\ BufferOut(e).sources = e.sources
BY DEF BufferOut, EpType

LEMMA TouchedFields ==
    ASSUME NEW e \in EpType
    PROVE  /\ Touched(e) \in EpType
           /\ Touched(e).refcount = e.refcount
           /\ Touched(e).freed = e.freed
           /\ Touched(e).misused <=> e.misused \/ e.freed
           /\ Touched(e).sources = e.sources
BY DEF Touched, EpType

-----------------------------------------------------------------------------

LEMMA InitInv == Init => IInv
<1> SUFFICES ASSUME Init PROVE IInv
  OBVIOUS
<1>1. NoKind \in Kind /\ Ep0 \in EpType
  BY DEF NoKind, Kind, Ep0, EpType
<1>2. Ep0.refcount = 0 /\ Ep0.sources = {} /\ ~Ep0.freed /\ ~Ep0.misused
  BY DEF Ep0
<1>3. Good(NoKind, Ep0, "new", {})
  BY <1>1, <1>2 DEF Good, Before
<1> QED BY <1>1, <1>3 DEF Init, IInv

\* A step of one command leaves the others as they are.
LEMMA OneCommand ==
    ASSUME IInv, NEW c \in Cmds, NEW k, NEW e, NEW ch, NEW o, Good(k, e, ch, o),
           kind' = [kind EXCEPT ![c] = k], ep' = [ep EXCEPT ![c] = e],
           child' = [child EXCEPT ![c] = ch], odd' = [odd EXCEPT ![c] = o]
    PROVE  IInv'
<1>1. k \in Kind /\ e \in EpType /\ o \in SUBSET Oddities
      /\ ch \in {"new", "none", "running", "exited"}
  BY DEF Good
<1>2. /\ kind' \in [Cmds -> Kind] /\ ep' \in [Cmds -> EpType]
      /\ child' \in [Cmds -> {"new", "none", "running", "exited"}]
      /\ odd' \in [Cmds -> SUBSET Oddities]
  BY <1>1 DEF IInv
<1>3. ASSUME NEW d \in Cmds PROVE Good(kind'[d], ep'[d], child'[d], odd'[d])
  <2>1. CASE d = c
    BY <2>1 DEF IInv
  <2>2. CASE d # c
    BY <2>2 DEF IInv
  <2> QED BY <2>1, <2>2
<1> QED BY <1>2, <1>3 DEF IInv

\* start_command_backend on a structure that has no reference yet.
LEMMA StartBackendGood ==
    ASSUME IInv, NEW c \in Cmds, NEW k \in Kind, NEW e \in EpType,
           e.refcount = 0, e.sources = {}, ~e.freed, ~e.misused, odd[c] = {},
           kind' = [kind EXCEPT ![c] = k], StartBackend(c, e)
    PROVE  IInv'
<1> DEFINE two == Ref(Ref(e))
<1>1. /\ two \in EpType /\ two.refcount = 2 /\ two.sources = {}
      /\ ~two.freed /\ ~two.misused
  <2>1. Ref(e) \in EpType /\ Ref(e).refcount = 1 /\ Ref(e).sources = {}
        /\ ~Ref(e).freed /\ ~Ref(e).misused
    BY RefFields
  <2> QED BY <2>1, RefFields
<1> HIDE DEF two
<1>2. CASE /\ ep' = [ep EXCEPT ![c] = Add(Add(two, "watching"), "idle")]
           /\ child' = [child EXCEPT ![c] = "running"]
           /\ UNCHANGED odd
  <2> DEFINE w == Add(two, "watching")
             i == Add(w, "idle")
  <2>1. "watching" \in Sources /\ "idle" \in Sources
    BY DEF Sources
  <2>2. w \in EpType /\ w.refcount = 2 /\ w.sources = {"watching"} /\ ~w.freed /\ ~w.misused
    BY <1>1, <2>1, AddFields
  <2> HIDE DEF w
  <2>3. /\ i \in EpType /\ i.refcount = 2 /\ i.sources = {"watching", "idle"}
        /\ ~i.freed /\ ~i.misused
    BY <2>2, <2>1, AddFields
  <2> HIDE DEF i
  <2>4. Cardinality({"watching", "idle"}) = 2 /\ Lost({}) = 0
    <3>1. Cardinality({"watching"}) = 1 /\ IsFiniteSet({"watching"})
      BY FS_Singleton
    <3>2. "idle" \notin {"watching"}
      OBVIOUS
    <3>3. Cardinality({"watching"} \union {"idle"}) = 2
      BY <3>1, <3>2, FS_AddElement
    <3>4. {"watching"} \union {"idle"} = {"watching", "idle"}
      OBVIOUS
    <3> QED BY <3>3, <3>4, LostType
  <2>7. Good(k, i, "running", {})
    BY <2>3, <2>4 DEF Good, After
  <2>5. odd' = [odd EXCEPT ![c] = {}]
    BY <1>2 DEF IInv
  <2>6. ep' = [ep EXCEPT ![c] = i]
    BY <1>2 DEF w, i
  <2> QED BY <1>2, <2>5, <2>6, <2>7, OneCommand
<1>3. CASE /\ ep' = [ep EXCEPT ![c] = externalp_unref(two)]
           /\ child' = [child EXCEPT ![c] = "none"]
           /\ odd' = [odd EXCEPT ![c] = @ \union {"spawn failed"}]
  <2> DEFINE u == externalp_unref(two)
  <2>1. u \in EpType /\ u.sources = {} /\ ~u.freed /\ ~u.misused
    BY <1>1, UnrefFields
  <2> HIDE DEF u
  <2>2. Good(k, u, "none", {"spawn failed"})
    BY <2>1 DEF Good, Before, Oddities
  <2>3. odd' = [odd EXCEPT ![c] = {"spawn failed"}]
    BY <1>3
  <2>4. ep' = [ep EXCEPT ![c] = u]
    BY <1>3 DEF u
  <2> QED BY <1>3, <2>2, <2>3, <2>4, OneCommand
<1> QED BY <1>2, <1>3 DEF StartBackend, two

\* A source other than the watch of the child ends and gives its reference back.
LEMMA GiveBack ==
    ASSUME NEW k, NEW e \in EpType, NEW o \in SUBSET Oddities, NEW runs \in BOOLEAN,
           NEW s \in e.sources, s # "watching", After(k, e, o, runs)
    PROVE  /\ externalp_unref(Drop(e, s)) \in EpType
           /\ externalp_unref(Drop(e, s)).sources = e.sources \ {s}
           /\ After(k, externalp_unref(Drop(e, s)), o, runs)
<1> DEFINE d == Drop(e, s)
           u == externalp_unref(d)
           S == e.sources
<1>1. S \in SUBSET Sources /\ e.refcount \in Int /\ s \in Sources
  BY DEF EpType
<1>2. /\ d \in EpType /\ d.refcount = e.refcount /\ d.sources = S \ {s}
      /\ d.freed = e.freed /\ d.misused = e.misused
  BY <1>1, DropFields
<1> HIDE DEF d
<1>3. /\ u \in EpType /\ u.refcount = e.refcount - 1 /\ u.sources = S \ {s}
      /\ u.freed <=> e.freed \/ e.refcount <= 1
      /\ u.misused <=> e.misused \/ e.freed
  BY <1>2, UnrefFields
<1> HIDE DEF u
<1>4. /\ Cardinality(S) \in Nat /\ Cardinality(S \ {s}) = Cardinality(S) - 1
      /\ S \ {s} \in SUBSET Sources
  BY <1>1, CountSources
<1>5. Cardinality(S \ {s}) \in Nat
  BY <1>4, CountSources
<1>6. Lost(o) \in Nat
  BY LostType
<1>7. e.refcount = Cardinality(S) + Lost(o) /\ e.refcount >= 1 /\ ~e.freed /\ ~e.misused
  <2>1. e.refcount = Cardinality(S) + Lost(o)
    BY DEF After
  <2>2. ~e.misused /\ (e.freed <=> e.refcount = 0)
    BY DEF After
  <2>3. e.refcount >= 1
    BY <1>1, <1>4, <1>5, <1>6, <2>1
  <2> QED BY <2>1, <2>2, <2>3
<1>8. u.refcount = Cardinality(u.sources) + Lost(o) /\ ~u.misused /\ (u.freed <=> u.refcount = 0)
  BY <1>1, <1>3, <1>4, <1>5, <1>6, <1>7
<1>9. After(k, u, o, runs)
  BY <1>3, <1>8 DEF After
<1> QED BY <1>3, <1>9 DEF d, u

\* What is known of a command whose child was started, or has still to be.
LEMMA Facts ==
    ASSUME IInv, NEW c \in Cmds
    PROVE  /\ kind[c] \in Kind /\ ep[c] \in EpType /\ odd[c] \in SUBSET Oddities
           /\ Good(kind[c], ep[c], child[c], odd[c])
           /\ kind = [kind EXCEPT ![c] = kind[c]]
           /\ ep = [ep EXCEPT ![c] = ep[c]]
           /\ child = [child EXCEPT ![c] = child[c]]
           /\ odd = [odd EXCEPT ![c] = odd[c]]
BY DEF IInv, Good

LEMMA StartCommandInv ==
    ASSUME IInv, NEW c \in Cmds, NEW k \in Kinds[c], StartCommand(c, k)
    PROVE  IInv'
<1>1. k \in Kind
  BY KindsAssumption DEF Accepted
<1>2. /\ ep[c] \in EpType /\ ep[c].refcount = 0 /\ ep[c].sources = {}
      /\ ~ep[c].freed /\ ~ep[c].misused /\ odd[c] = {} /\ odd = [odd EXCEPT ![c] = {}]
      /\ ep = [ep EXCEPT ![c] = ep[c]]
  BY Facts DEF StartCommand, Good, Before
<1>3. CASE StartBackend(c, ep[c])
  BY <1>1, <1>2, <1>3, StartBackendGood DEF StartCommand
<1>4. CASE /\ k.input = "file"
           /\ ep' = [ep EXCEPT ![c] = Add(BufferOut(@), "writing")]
           /\ child' = [child EXCEPT ![c] = "none"]
           /\ UNCHANGED odd
  <2> DEFINE b == BufferOut(ep[c])
             w == Add(b, "writing")
  <2>1. b \in EpType /\ b.refcount = 0 /\ b.sources = {} /\ ~b.freed /\ ~b.misused
    BY <1>2, BufferOutFields
  <2>2. "writing" \in Sources
    BY DEF Sources
  <2> HIDE DEF b
  <2>3. w \in EpType /\ w.refcount = 0 /\ w.sources = {"writing"} /\ ~w.freed /\ ~w.misused
    BY <2>1, <2>2, AddFields
  <2> HIDE DEF w
  <2>4. Good(k, w, "none", {})
    BY <1>1, <1>4, <2>3 DEF Good, Before
  <2>5. ep' = [ep EXCEPT ![c] = w] /\ odd' = [odd EXCEPT ![c] = {}]
    BY <1>2, <1>4 DEF w, b
  <2> QED BY <1>4, <2>4, <2>5, OneCommand DEF StartCommand
<1>5. CASE /\ child' = [child EXCEPT ![c] = "none"]
           /\ odd' = [odd EXCEPT ![c] = @ \union {"write failed"}]
           /\ UNCHANGED ep
  <2>0. kind' = [kind EXCEPT ![c] = k]
    BY DEF StartCommand  <2>1. Good(k, ep[c], "none", {"write failed"})
    BY <1>1, <1>2 DEF Good, Before, Oddities

  <2>2. odd' = [odd EXCEPT ![c] = {"write failed"}]
    BY <1>2, <1>5
  <2>3. ep' = [ep EXCEPT ![c] = ep[c]]
    BY <1>2, <1>5
  <2>4. child' = [child EXCEPT ![c] = "none"]
    BY <1>5
  <2> QED BY <2>0, <2>1, <2>2, <2>3, <2>4, OneCommand
<1> QED BY <1>3, <1>4, <1>5 DEF StartCommand

LEMMA WriteDoneInv ==
    ASSUME IInv, NEW c \in Cmds, WriteDone(c)
    PROVE  IInv'
<1> DEFINE d == Drop(ep[c], "writing")
<1>1. /\ "writing" \in ep[c].sources /\ "writing" \in Sources
      /\ ep[c] \in EpType /\ kind[c] \in Kind
  BY Facts DEF WriteDone, Has, Sources
<1>2. /\ d \in EpType /\ d.refcount = ep[c].refcount /\ d.sources = ep[c].sources \ {"writing"}
      /\ d.freed = ep[c].freed /\ d.misused = ep[c].misused
  BY <1>1, DropFields
<1>3. kind' = [kind EXCEPT ![c] = kind[c]]
  BY Facts DEF WriteDone
<1> HIDE DEF d
<1>4. CASE kind[c].input = "file" /\ child[c] \in {"new", "none"} /\ StartBackend(c, d)
  <2>1. /\ d.refcount = 0 /\ d.sources = {} /\ ~d.freed /\ ~d.misused /\ odd[c] = {}
    BY <1>1, <1>2, <1>4, Facts DEF Good, Before
  <2> QED BY <1>1, <1>2, <1>3, <1>4, <2>1, StartBackendGood
<1>5. CASE /\ kind[c].input = "pipe" /\ child[c] = "running"
           /\ ep' = [ep EXCEPT ![c] = externalp_unref(d)]
           /\ UNCHANGED <<child, odd>>
  <2> DEFINE u == externalp_unref(d)
  <2>1. After(kind[c], ep[c], odd[c], TRUE) /\ odd[c] \in SUBSET Oddities
    BY <1>5, Facts DEF Good
  <2>2. u \in EpType /\ After(kind[c], u, odd[c], TRUE)
    BY <1>1, <2>1, GiveBack DEF d
  <2> HIDE DEF u
  <2>4. Good(kind[c], u, "running", odd[c])
    BY <1>1, <2>1, <2>2 DEF Good
  <2>5. /\ ep' = [ep EXCEPT ![c] = u] /\ child' = [child EXCEPT ![c] = "running"]
        /\ odd' = [odd EXCEPT ![c] = odd[c]]
    BY <1>5, Facts DEF u
  <2> QED BY <1>3, <2>4, <2>5, OneCommand
<1>6. kind[c].input = "file" => child[c] \in {"new", "none"}
  BY <1>1, Facts DEF Good, After
<1> QED BY <1>4, <1>5, <1>6 DEF WriteDone, d

\* The watch goes, and its reference stays.
LEMMA WriteFailsInv ==
    ASSUME IInv, NEW c \in Cmds, WriteFails(c)
    PROVE  IInv'
<1> DEFINE d == Drop(ep[c], "writing")
           S == ep[c].sources
           o == odd[c] \union {"write failed"}
<1>1. /\ "writing" \in S /\ "writing" \in Sources
      /\ ep[c] \in EpType /\ kind[c] \in Kind /\ odd[c] \in SUBSET Oddities
  BY Facts DEF WriteFails, Has, Sources
<1>2. /\ d \in EpType /\ d.refcount = ep[c].refcount /\ d.sources = S \ {"writing"}
      /\ d.freed = ep[c].freed /\ d.misused = ep[c].misused
  BY <1>1, DropFields
<1> HIDE DEF d
<1>3. o \in SUBSET Oddities
  BY <1>1 DEF Oddities
<1>4. ASSUME child[c] \in {"new", "none"} PROVE Good(kind[c], d, child[c], o)
  <2>1. Before(kind[c], ep[c], odd[c], child[c] = "new") /\ child[c] = "none"
    BY <1>1, <1>4, Facts DEF Good, Before
  <2>2. Before(kind[c], d, o, FALSE)
    BY <1>2, <2>1 DEF Before
  <2> QED BY <1>1, <1>2, <1>3, <2>1, <2>2 DEF Good
<1>5. ASSUME child[c] \in {"running", "exited"} PROVE Good(kind[c], d, child[c], o)
  <2> DEFINE runs == child[c] = "running"
  <2>1. After(kind[c], ep[c], odd[c], runs)
    BY <1>5, Facts DEF Good
  <2> HIDE DEF runs
  <2>2. "write failed" \notin odd[c] /\ "idle" \notin S
    BY <1>1, <2>1 DEF After
  <2>3. Cardinality(d.sources) = Cardinality(S) - 1 /\ Cardinality(S) \in Nat
    BY <1>1, <1>2, CountSources DEF EpType
  <2>4. Lost(o) = Lost(odd[c]) + 1 /\ Lost(odd[c]) \in Nat
    BY <1>1, <2>2, LostType
  <2>5. d.refcount = Cardinality(S) + Lost(odd[c])
    BY <1>2, <2>1 DEF After
  <2>6. "no output file" \in o <=> "no output file" \in odd[c]
    OBVIOUS
  <2> HIDE DEF o
  <2>7. d.refcount = Cardinality(d.sources) + Lost(o)
    BY <2>3, <2>4, <2>5
  <2>8. After(kind[c], d, o, runs)
    BY <1>2, <2>1, <2>2, <2>6, <2>7 DEF After
  <2> QED BY <1>1, <1>2, <1>3, <1>5, <2>8 DEF Good, runs
<1>6. Good(kind[c], d, child[c], o)
  BY <1>4, <1>5, Facts DEF Good
<1>7. /\ ep' = [ep EXCEPT ![c] = d] /\ odd' = [odd EXCEPT ![c] = o]
      /\ kind' = [kind EXCEPT ![c] = kind[c]] /\ child' = [child EXCEPT ![c] = child[c]]
  BY Facts DEF WriteFails, d
<1> HIDE DEF o
<1> QED BY <1>6, <1>7, OneCommand

LEMMA ChildExitsInv ==
    ASSUME IInv, NEW c \in Cmds, ChildExits(c)
    PROVE  IInv'
<1>1. Good(kind[c], ep[c], "exited", odd[c])
  BY Facts DEF ChildExits, Good, After
<1>2. /\ ep' = [ep EXCEPT ![c] = ep[c]] /\ odd' = [odd EXCEPT ![c] = odd[c]]
      /\ kind' = [kind EXCEPT ![c] = kind[c]] /\ child' = [child EXCEPT ![c] = "exited"]
  BY Facts DEF ChildExits
<1> QED BY <1>1, <1>2, OneCommand

\* A call of a watch that reads: it may end, and may have met something unreadable.
ReadStep(c) ==
    /\ Has(c, "reading")
    /\ \/ ep' = ep
       \/ ep' = [ep EXCEPT ![c] = externalp_unref(Drop(@, "reading"))]
    /\ \/ odd' = odd
       \/ odd' = [odd EXCEPT ![c] = @ \union {"read error"}]
    /\ UNCHANGED <<kind, child>>

LEMMA ReadStepKeeps ==
    ASSUME IInv, NEW c \in Cmds, ReadStep(c)
    PROVE  IInv'
<1> DEFINE u == externalp_unref(Drop(ep[c], "reading"))
           runs == child[c] = "running"
           x == odd[c] \union {"read error"}
<1>1. /\ "reading" \in ep[c].sources /\ ep[c] \in EpType /\ kind[c] \in Kind
      /\ odd[c] \in SUBSET Oddities /\ x \in SUBSET Oddities
  BY Facts DEF Has, ReadStep, Oddities
<1>2. child[c] \in {"running", "exited"} /\ After(kind[c], ep[c], odd[c], runs)
  BY <1>1, Facts DEF Good, Before
<1>3. Lost(x) = Lost(odd[c])
  <2>1. x \intersect {"write failed", "no output file"}
        = odd[c] \intersect {"write failed", "no output file"}
    OBVIOUS
  <2> QED BY <2>1 DEF Lost
<1> HIDE DEF runs
<1>4. runs \in BOOLEAN
  BY DEF runs
<1>5. After(kind[c], ep[c], x, runs)
  BY <1>1, <1>2, <1>3 DEF After
<1> HIDE DEF x
<1>6. u \in EpType /\ After(kind[c], u, odd[c], runs) /\ After(kind[c], u, x, runs)
  BY <1>1, <1>2, <1>4, <1>5, GiveBack
<1> HIDE DEF u
<1>7. \A e \in {ep[c], u}, o \in {odd[c], x} : Good(kind[c], e, child[c], o)
  BY <1>1, <1>2, <1>5, <1>6 DEF Good, runs
<1>8. PICK e \in {ep[c], u}, o \in {odd[c], x} :
          /\ ep' = [ep EXCEPT ![c] = e] /\ odd' = [odd EXCEPT ![c] = o]
  <2>1. \E e \in {ep[c], u} : ep' = [ep EXCEPT ![c] = e]
    BY Facts DEF ReadStep, u
  <2>2. \E o \in {odd[c], x} : odd' = [odd EXCEPT ![c] = o]
    BY Facts DEF ReadStep, x
  <2> QED BY <2>1, <2>2
<1>9. kind' = [kind EXCEPT ![c] = kind[c]] /\ child' = [child EXCEPT ![c] = child[c]]
  BY Facts DEF ReadStep
<1> QED BY <1>7, <1>8, <1>9, OneCommand

LEMMA Unchanged ==
    ASSUME IInv, UNCHANGED <<kind, ep, child, odd>>
    PROVE  IInv'
<1>1. kind' = kind /\ ep' = ep /\ child' = child /\ odd' = odd
  OBVIOUS
<1>2. /\ kind' \in [Cmds -> Kind] /\ ep' \in [Cmds -> EpType]
      /\ child' \in [Cmds -> {"new", "none", "running", "exited"}]
      /\ odd' \in [Cmds -> SUBSET Oddities]
  BY <1>1 DEF IInv
<1>3. ASSUME NEW c \in Cmds PROVE Good(kind'[c], ep'[c], child'[c], odd'[c])
  BY <1>1 DEF IInv
<1> QED BY <1>2, <1>3 DEF IInv

LEMMA OutputboxIoWatchReads ==
    ASSUME NEW c \in Cmds, OutputboxIoWatch(c)
    PROVE  ReadStep(c)
BY DEF OutputboxIoWatch, ReadStep, ReadTo

LEMMA FullDataIoWatchReads ==
    ASSUME NEW c \in Cmds, FullDataIoWatch(c)
    PROVE  ReadStep(c)
BY DEF FullDataIoWatch, ReadStep, ReadTo

\* With n references more than there are sources to come.
Spare(e, o, n) ==
    /\ e \in EpType /\ e.refcount = Cardinality(e.sources) + Lost(o) + n
    /\ ~e.freed /\ ~e.misused

LEMMA RefSpare ==
    ASSUME NEW e, NEW o \in SUBSET Oddities, NEW n \in Nat, Spare(e, o, n)
    PROVE  Spare(Ref(e), o, n + 1) /\ Ref(e).sources = e.sources
<1>1. e \in EpType /\ e.sources \in SUBSET Sources
  BY DEF Spare, EpType
<1>2. Cardinality(e.sources) \in Nat /\ Lost(o) \in Nat
  BY <1>1, CountSources, LostType
<1>3. e.refcount = Cardinality(e.sources) + Lost(o) + n /\ ~e.freed /\ ~e.misused
  BY DEF Spare
<1>4. /\ Ref(e) \in EpType /\ Ref(e).refcount = e.refcount + 1
      /\ Ref(e).sources = e.sources /\ Ref(e).freed = e.freed /\ Ref(e).misused = e.misused
  BY <1>1, RefFields
<1> QED BY <1>2, <1>3, <1>4 DEF Spare

LEMMA AddSpare ==
    ASSUME NEW e, NEW o \in SUBSET Oddities, NEW n \in Nat, Spare(e, o, n + 1),
           NEW s \in Sources, s \notin e.sources
    PROVE  Spare(Add(e, s), o, n) /\ Add(e, s).sources = e.sources \union {s}
<1>1. e \in EpType /\ e.sources \in SUBSET Sources
  BY DEF Spare, EpType
<1>2. /\ Cardinality(e.sources) \in Nat /\ Lost(o) \in Nat
      /\ Cardinality(e.sources \union {s}) = Cardinality(e.sources) + 1
  BY <1>1, CountSources, LostType
<1>3. e.refcount = Cardinality(e.sources) + Lost(o) + (n + 1) /\ ~e.freed /\ ~e.misused
  BY DEF Spare
<1>4. /\ Add(e, s) \in EpType /\ Add(e, s).refcount = e.refcount
      /\ Add(e, s).sources = e.sources \union {s}
      /\ Add(e, s).freed = e.freed /\ Add(e, s).misused = e.misused
  BY <1>1, AddFields
<1> QED BY <1>2, <1>3, <1>4 DEF Spare

LEMMA DropSpare ==
    ASSUME NEW e, NEW o \in SUBSET Oddities, NEW n \in Nat, Spare(e, o, n),
           NEW s \in e.sources
    PROVE  Spare(Drop(e, s), o, n + 1) /\ Drop(e, s).sources = e.sources \ {s}
<1>1. e \in EpType /\ e.sources \in SUBSET Sources /\ s \in Sources
  BY DEF Spare, EpType
<1>2. /\ Cardinality(e.sources) \in Nat /\ Lost(o) \in Nat
      /\ Cardinality(e.sources \ {s}) = Cardinality(e.sources) - 1
      /\ Cardinality(e.sources \ {s}) \in Nat
  BY <1>1, CountSources, LostType
<1>3. e.refcount = Cardinality(e.sources) + Lost(o) + n /\ ~e.freed /\ ~e.misused
  BY DEF Spare
<1> DEFINE d == Drop(e, s)
<1>4. /\ d \in EpType /\ d.refcount = e.refcount /\ d.sources = e.sources \ {s}
      /\ d.freed = e.freed /\ d.misused = e.misused
  BY <1>1, DropFields
<1> HIDE DEF d
<1>5. d.refcount = Cardinality(d.sources) + Lost(o) + (n + 1)
  <2>1. Cardinality(d.sources) = Cardinality(e.sources) - 1
    BY <1>2, <1>4
  <2>2. d.refcount = Cardinality(e.sources) + Lost(o) + n
    BY <1>3, <1>4
  <2>3. Cardinality(e.sources) \in Nat /\ Lost(o) \in Nat
    BY <1>2
  <2>4. (Cardinality(e.sources) - 1) + Lost(o) + (n + 1) = Cardinality(e.sources) + Lost(o) + n
    BY <2>3
  <2> QED BY <2>1, <2>2, <2>4
<1>6. Spare(d, o, n + 1)
  BY <1>3, <1>4, <1>5 DEF Spare
<1> QED BY <1>4, <1>6 DEF d

\* A reference that is not the last one.
LEMMA UnrefSpare ==
    ASSUME NEW e, NEW o \in SUBSET Oddities, NEW n \in Nat, Spare(e, o, n + 1),
           n > 0 \/ e.sources # {}
    PROVE  Spare(externalp_unref(e), o, n) /\ externalp_unref(e).sources = e.sources
<1>1. e \in EpType /\ e.sources \in SUBSET Sources
  BY DEF Spare, EpType
<1>2. /\ Cardinality(e.sources) \in Nat /\ Lost(o) \in Nat
      /\ Cardinality(e.sources) = 0 <=> e.sources = {}
  BY <1>1, CountSources, LostType
<1>3. e.refcount = Cardinality(e.sources) + Lost(o) + (n + 1) /\ ~e.freed /\ ~e.misused
  BY DEF Spare
<1>4. /\ externalp_unref(e) \in EpType /\ externalp_unref(e).refcount = e.refcount - 1
      /\ externalp_unref(e).sources = e.sources
      /\ externalp_unref(e).freed <=> e.freed \/ e.refcount <= 1
      /\ externalp_unref(e).misused <=> e.misused \/ e.freed
  BY <1>1, UnrefFields
<1>5. ~(e.refcount <= 1)
  BY <1>2, <1>3
<1> QED BY <1>2, <1>3, <1>4, <1>5 DEF Spare

\* A reference that may be the last one.
LEMMA UnrefLast ==
    ASSUME NEW e, NEW o \in SUBSET Oddities, Spare(e, o, 1)
    PROVE  LET u == externalp_unref(e) IN
           /\ u \in EpType /\ u.sources = e.sources
           /\ u.refcount = Cardinality(u.sources) + Lost(o)
           /\ u.freed <=> u.refcount = 0
           /\ ~u.misused
<1>1. e \in EpType /\ e.sources \in SUBSET Sources
  BY DEF Spare, EpType
<1>2. /\ Cardinality(e.sources) \in Nat /\ Lost(o) \in Nat
  BY <1>1, CountSources, LostType
<1>3. e.refcount = Cardinality(e.sources) + Lost(o) + 1 /\ ~e.freed /\ ~e.misused
  BY DEF Spare
<1> DEFINE u == externalp_unref(e)
<1>4. /\ u \in EpType /\ u.refcount = e.refcount - 1
      /\ u.sources = e.sources
      /\ u.freed <=> e.freed \/ e.refcount <= 1
      /\ u.misused <=> e.misused \/ e.freed
  BY <1>1, UnrefFields
<1> HIDE DEF u
<1>5. u.refcount = Cardinality(u.sources) + Lost(o)
  BY <1>2, <1>3, <1>4
<1>6. (u.freed <=> u.refcount = 0) /\ ~u.misused
  BY <1>2, <1>3, <1>4
<1> QED BY <1>4, <1>5, <1>6 DEF u

LEMMA StartCommandIdleInv ==
    ASSUME IInv, NEW c \in Cmds, StartCommandIdle(c)
    PROVE  IInv'
<1> DEFINE e == ep[c]
           o == odd[c]
           k == kind[c]
           in == IF k.input = "pipe" THEN Add(BufferOut(Ref(e)), "writing") ELSE e
           out == IF k.output = "pipe" THEN Add(Ref(in), "reading") ELSE in
           last == externalp_unref(out)
           d == Drop(last, "idle")
           t == Touched(d)
<1>1. /\ e \in EpType /\ "idle" \in e.sources /\ k \in Kind
      /\ o \in SUBSET Oddities
      /\ {"idle", "writing", "reading", "watching"} = Sources
  BY Facts DEF StartCommandIdle, Has, Sources
<1>2. child[c] \in {"running", "exited"} /\ After(k, e, o, child[c] = "running")
  BY <1>1, Facts DEF Good, Before
<1>3. /\ "watching" \in e.sources /\ "writing" \notin e.sources /\ "reading" \notin e.sources
      /\ o = {} /\ ~e.misused
  BY <1>1, <1>2 DEF After
<1>4. Spare(e, o, 0)
  <2>1. e.refcount = Cardinality(e.sources) + Lost(o) /\ (e.freed <=> e.refcount = 0)
    BY <1>2 DEF After
  <2>2. Cardinality(e.sources) \in Nat \ {0} /\ Lost(o) \in Nat
    BY <1>1, CountSources, LostType DEF EpType
  <2> QED BY <1>1, <1>3, <2>1, <2>2 DEF Spare
<1>5. ep' = [ep EXCEPT ![c] = t] /\ UNCHANGED <<kind, child, odd>>
  BY DEF StartCommandIdle
<1> HIDE DEF e, o, k
<1>6. /\ Spare(in, o, 0) /\ in.sources \subseteq e.sources \union {"writing"}
      /\ e.sources \subseteq in.sources
      /\ "writing" \in in.sources => k.input = "pipe"
  <2>1. CASE k.input = "pipe"
    <3> DEFINE r == Ref(e)
               b == BufferOut(r)
    <3>1. Spare(r, o, 1) /\ r.sources = e.sources
      BY <1>1, <1>4, RefSpare
    <3> HIDE DEF r
    <3>2. Spare(b, o, 1) /\ b.sources = e.sources
      BY <3>1, BufferOutFields DEF Spare
    <3> HIDE DEF b
    <3>3. Spare(Add(b, "writing"), o, 0) /\ Add(b, "writing").sources = e.sources \union {"writing"}
      BY <1>1, <1>3, <3>2, AddSpare
    <3> QED BY <2>1, <3>3 DEF r, b
  <2>2. CASE k.input # "pipe"
    BY <1>3, <1>4, <2>2
  <2> QED BY <2>1, <2>2
<1> HIDE DEF in
<1>7. /\ Spare(out, o, 0) /\ out.sources \subseteq in.sources \union {"reading"}
      /\ in.sources \subseteq out.sources
      /\ "reading" \in out.sources => k.output = "pipe"
  <2>1. CASE k.output = "pipe"
    <3> DEFINE r == Ref(in)
    <3>1. Spare(r, o, 1) /\ r.sources = in.sources
      BY <1>1, <1>6, RefSpare
    <3> HIDE DEF r
    <3>2. "reading" \in Sources /\ "reading" \notin r.sources /\ Spare(r, o, 0 + 1)
      BY <1>1, <1>3, <1>6, <3>1
    <3>3. Spare(Add(r, "reading"), o, 0) /\ Add(r, "reading").sources = in.sources \union {"reading"}
      BY <1>1, <3>1, <3>2, AddSpare
    <3> QED BY <2>1, <3>3 DEF r
  <2>2. CASE k.output # "pipe"
    BY <1>3, <1>6, <2>2
  <2> QED BY <2>1, <2>2
<1> HIDE DEF out
<1>8. /\ out.refcount = Cardinality(out.sources) + Lost(o) /\ out.refcount \in Int
      /\ out.sources \in SUBSET Sources /\ "idle" \in out.sources /\ "watching" \in out.sources
      /\ out \in EpType /\ ~out.freed /\ ~out.misused
  <2>1. out \in EpType /\ ~out.freed /\ ~out.misused
    BY <1>7 DEF Spare
  <2>2. out.sources \in SUBSET Sources /\ out.refcount \in Int
    BY <2>1 DEF EpType
  <2>3. "idle" \in out.sources /\ "watching" \in out.sources
    BY <1>1, <1>3, <1>6, <1>7
  <2>4. Cardinality(out.sources) \in Nat /\ Lost(o) \in Nat
    BY <1>1, <2>2, CountSources, LostType
  <2>5. out.refcount = Cardinality(out.sources) + Lost(o) + 0
    BY <1>7 DEF Spare
  <2> QED BY <2>1, <2>2, <2>3, <2>4, <2>5
<1>9. /\ Cardinality(out.sources) = Cardinality(out.sources \ {"idle"}) + 1
      /\ Cardinality(out.sources \ {"idle"}) \in Nat \ {0} /\ Lost(o) \in Nat
  <2>1. out.sources \ {"idle"} \in SUBSET Sources /\ out.sources \ {"idle"} # {}
    BY <1>8
  <2>2. Cardinality(out.sources \ {"idle"}) \in Nat \ {0}
    BY <2>1, CountSources
  <2>3. /\ Cardinality(out.sources \ {"idle"}) = Cardinality(out.sources) - 1
        /\ Cardinality(out.sources) \in Nat
    BY <1>8, CountSources
  <2>4. Lost(o) \in Nat
    BY <1>1, LostType
  <2> QED BY <2>2, <2>3, <2>4
<1>10. /\ last \in EpType /\ last.refcount = out.refcount - 1 /\ last.sources = out.sources
       /\ ~last.freed /\ ~last.misused
  <2>1. /\ last \in EpType /\ last.refcount = out.refcount - 1 /\ last.sources = out.sources
        /\ last.freed <=> out.freed \/ out.refcount <= 1
        /\ last.misused <=> out.misused \/ out.freed
    BY <1>8, UnrefFields
  <2>2. ~(out.refcount <= 1)
    BY <1>8, <1>9
  <2> QED BY <1>8, <2>1, <2>2
<1> HIDE DEF last
<1>11. /\ d \in EpType /\ d.refcount = out.refcount - 1 /\ d.sources = out.sources \ {"idle"}
       /\ ~d.freed /\ ~d.misused
  BY <1>1, <1>10, DropFields
<1> HIDE DEF d
<1>12. /\ t \in EpType /\ t.refcount = out.refcount - 1 /\ t.sources = out.sources \ {"idle"}
       /\ ~t.freed /\ ~t.misused
  BY <1>11, TouchedFields
<1> HIDE DEF t
<1>13. t.refcount = Cardinality(t.sources) + Lost(o) /\ t.refcount # 0
  BY <1>8, <1>9, <1>12
<1>14. "idle" \notin t.sources /\ "watching" \in t.sources
  BY <1>8, <1>12
<1>15. /\ "writing" \in t.sources => k.input = "pipe"
       /\ "reading" \in t.sources => k.output = "pipe"
  BY <1>6, <1>7, <1>12
<1>16. After(k, t, o, child[c] = "running")
  BY <1>3, <1>12, <1>13, <1>14, <1>15 DEF After
<1>17. Good(k, t, child[c], o)
  BY <1>1, <1>2, <1>12, <1>16 DEF Good
<1>18. /\ odd' = [odd EXCEPT ![c] = o] /\ kind' = [kind EXCEPT ![c] = k]
       /\ child' = [child EXCEPT ![c] = child[c]]
  BY <1>5, Facts DEF o, k
<1> QED BY <1>5, <1>17, <1>18, OneCommand

LEMMA ChildWatchInv ==
    ASSUME IInv, NEW c \in Cmds, ChildWatch(c)
    PROVE  IInv'
<1> DEFINE k == kind[c]
           o == odd[c]
           gone == Drop(ep[c], "watching")
           e == IF Has(c, "idle") THEN externalp_unref(Drop(gone, "idle")) ELSE gone
           early == IF Has(c, "idle") THEN {"child first"} ELSE {}
           plain == externalp_unref(e)
           file == externalp_unref(Add(Ref(e), "reading"))
           none == externalp_unref(Ref(e))
<1>1. /\ ep[c] \in EpType /\ "watching" \in ep[c].sources /\ k \in Kind
      /\ o \in SUBSET Oddities /\ child[c] = "exited"
      /\ {"idle", "writing", "reading", "watching"} = Sources
  BY Facts DEF ChildWatch, Has, Sources
<1>2. After(k, ep[c], o, FALSE)
  BY <1>1, Facts DEF Good
<1>3. /\ ~ep[c].misused /\ "no output file" \notin o
      /\ k.output # "pipe" => "reading" \notin ep[c].sources
      /\ "writing" \in ep[c].sources => "write failed" \notin o /\ k.input = "pipe"
  BY <1>1, <1>2 DEF After
<1>4. Spare(ep[c], o, 0)
  <2>1. ep[c].refcount = Cardinality(ep[c].sources) + Lost(o) /\ (ep[c].freed <=> ep[c].refcount = 0)
    BY <1>2 DEF After
  <2>2. Cardinality(ep[c].sources) \in Nat \ {0} /\ Lost(o) \in Nat
    BY <1>1, CountSources, LostType DEF EpType
  <2>3. ~ep[c].freed /\ ep[c].refcount = Cardinality(ep[c].sources) + Lost(o) + 0
    BY <2>1, <2>2
  <2> QED BY <1>1, <1>3, <2>3 DEF Spare
<1>5. /\ \/ ep' = [ep EXCEPT ![c] = plain] /\ odd' = [odd EXCEPT ![c] = o \union early]
         \/ /\ k.output \in {"file", "inplace"}
            /\ ep' = [ep EXCEPT ![c] = file] /\ odd' = [odd EXCEPT ![c] = o \union early]
         \/ /\ ep' = [ep EXCEPT ![c] = none]
            /\ odd' = [odd EXCEPT ![c] = o \union early \union {"no output file"}]
      /\ kind' = [kind EXCEPT ![c] = k] /\ child' = [child EXCEPT ![c] = "exited"]
  <2>1. kind' = [kind EXCEPT ![c] = k] /\ child' = [child EXCEPT ![c] = "exited"]
    BY <1>1, Facts DEF ChildWatch
  <2> QED BY <2>1 DEF ChildWatch
<1>6. early \subseteq {"child first"}
  OBVIOUS
<1> HIDE DEF k, o, early
<1>7. Spare(gone, o, 1) /\ gone.sources = ep[c].sources \ {"watching"}
  <2>1. Spare(gone, o, 0 + 1) /\ gone.sources = ep[c].sources \ {"watching"}
    BY <1>1, <1>4, DropSpare
  <2> QED BY <2>1
<1> HIDE DEF gone
<1>8. Spare(e, o, 1) /\ e.sources = ep[c].sources \ {"watching", "idle"}
  <2>1. CASE Has(c, "idle")
    <3> DEFINE d == Drop(gone, "idle")
    <3>1. "idle" \in gone.sources /\ 1 + 1 = 2
      BY <1>7, <2>1 DEF Has
    <3>2. Spare(d, o, 1 + 1) /\ d.sources = gone.sources \ {"idle"}
      BY <1>1, <1>7, <3>1, DropSpare
    <3> HIDE DEF d
    <3>3. Spare(externalp_unref(d), o, 1) /\ externalp_unref(d).sources = d.sources
      BY <1>1, <3>2, UnrefSpare
    <3>4. e = externalp_unref(d)
      BY <2>1 DEF d
    <3> HIDE DEF e
    <3> QED BY <1>7, <3>2, <3>3, <3>4
  <2>2. CASE ~Has(c, "idle")
    <3>1. "idle" \notin ep[c].sources
      BY <2>2 DEF Has
    <3> QED BY <1>7, <2>2, <3>1
  <2> QED BY <2>1, <2>2
<1> HIDE DEF e
<1>9. Spare(Ref(e), o, 2) /\ Ref(e).sources = e.sources
  <2>1. Spare(Ref(e), o, 1 + 1) /\ Ref(e).sources = e.sources
    BY <1>1, <1>8, RefSpare
  <2> QED BY <2>1
\* What holds after the child is gone.
<1>10. ASSUME NEW u \in EpType, NEW x \in SUBSET Oddities,
              u.refcount = Cardinality(u.sources) + Lost(x), ~u.misused,
              u.freed <=> u.refcount = 0,
              "idle" \notin u.sources, "watching" \notin u.sources,
              "writing" \in u.sources => "writing" \in ep[c].sources,
              "write failed" \in x => "write failed" \in o
       PROVE  Good(k, u, "exited", x)
  <2>1. After(k, u, x, FALSE)
    BY <1>3, <1>10 DEF After
  <2> QED BY <1>1, <1>10, <2>1 DEF Good
<1>11. /\ o \union early \in SUBSET Oddities /\ Lost(o \union early) = Lost(o)
       /\ "write failed" \in o \union early => "write failed" \in o
       /\ "no output file" \notin o \union early
  <2>1. early = {} \/ early = {"child first"}
    BY DEF early
  <2>2. CASE early = {}
    BY <1>1, <1>3, <2>2
  <2>3. CASE early = {"child first"}
    BY <1>1, <1>3, <2>3, LostType DEF Oddities
  <2> QED BY <2>1, <2>2, <2>3
<1>12. CASE ep' = [ep EXCEPT ![c] = plain] /\ odd' = [odd EXCEPT ![c] = o \union early]
  <2>1. /\ plain \in EpType /\ plain.sources = e.sources /\ ~plain.misused
        /\ plain.refcount = Cardinality(plain.sources) + Lost(o)
        /\ plain.freed <=> plain.refcount = 0
    BY <1>1, <1>8, UnrefLast
  <2> HIDE DEF plain
  <2>2. Good(k, plain, "exited", o \union early)
    BY <1>8, <1>10, <1>11, <2>1
  <2> QED BY <1>5, <1>12, <2>2, OneCommand
<1>13. CASE /\ k.output \in {"file", "inplace"}
            /\ ep' = [ep EXCEPT ![c] = file] /\ odd' = [odd EXCEPT ![c] = o \union early]
  <2> DEFINE a == Add(Ref(e), "reading")
  <2>0. Spare(Ref(e), o, 1 + 1)
    BY <1>9
  <2>1. "reading" \in Sources /\ "reading" \notin Ref(e).sources
    BY <1>1, <1>3, <1>8, <1>9, <1>13
  <2>2. Spare(a, o, 1) /\ a.sources = Ref(e).sources \union {"reading"}
    BY <1>1, <2>0, <2>1, AddSpare
  <2> HIDE DEF a
  <2>3. /\ externalp_unref(a) \in EpType /\ externalp_unref(a).sources = a.sources
        /\ ~externalp_unref(a).misused
        /\ externalp_unref(a).refcount = Cardinality(externalp_unref(a).sources) + Lost(o)
        /\ externalp_unref(a).freed <=> externalp_unref(a).refcount = 0
    BY <1>1, <2>2, UnrefLast
  <2>4. file = externalp_unref(a)
    BY DEF a
  <2> HIDE DEF file
  <2>5. Good(k, file, "exited", o \union early)
    BY <1>8, <1>9, <1>10, <1>11, <2>2, <2>3, <2>4
  <2> QED BY <1>5, <1>13, <2>5, OneCommand
<1>14. CASE /\ ep' = [ep EXCEPT ![c] = none]
            /\ odd' = [odd EXCEPT ![c] = o \union early \union {"no output file"}]
  <2>1. Spare(Ref(e), o, 1 + 1)
    BY <1>9
  <2>2. Spare(none, o, 1) /\ none.sources = e.sources
    <3>1. Spare(externalp_unref(Ref(e)), o, 1)
          /\ externalp_unref(Ref(e)).sources = Ref(e).sources
      BY <1>1, <2>1, UnrefSpare
    <3> QED BY <1>9, <3>1
  <2> HIDE DEF none
  <2> DEFINE x == o \union early \union {"no output file"}
  <2>3. /\ x \in SUBSET Oddities /\ Lost(x) = Lost(o) + 1
        /\ "write failed" \in x => "write failed" \in o
    BY <1>11, LostType DEF Oddities
  <2> HIDE DEF x
  <2>4. /\ none \in EpType /\ ~none.misused /\ ~none.freed
        /\ none.refcount = Cardinality(none.sources) + Lost(o) + 1
    BY <2>2 DEF Spare
  <2>5. Cardinality(none.sources) \in Nat /\ Lost(o) \in Nat
    BY <1>1, <2>4, CountSources, LostType DEF EpType
  <2>6. none.refcount = Cardinality(none.sources) + Lost(x) /\ none.refcount # 0
    <3>1. none.refcount = Cardinality(none.sources) + (Lost(o) + 1)
      BY <2>4, <2>5
    <3>2. none.refcount # 0
      BY <2>5, <3>1
    <3>3. Lost(o) + 1 = Lost(x)
      BY <2>3
    <3> QED BY <3>1, <3>2, <3>3
  <2>7. Good(k, none, "exited", x)
    BY <1>8, <1>10, <2>2, <2>3, <2>4, <2>6
  <2>8. odd' = [odd EXCEPT ![c] = x]
    BY <1>14 DEF x
  <2> QED BY <1>5, <1>14, <2>7, <2>8, OneCommand
<1> QED BY <1>5, <1>12, <1>13, <1>14

LEMMA NextInv == IInv /\ [Next]_vars => IInv'
<1> SUFFICES ASSUME IInv, [Next]_vars PROVE IInv'
  OBVIOUS
<1>1. ASSUME NEW c \in Cmds, NEW k \in Kinds[c], StartCommand(c, k) PROVE IInv'
  BY <1>1, StartCommandInv
<1>2. ASSUME NEW c \in Cmds, WriteDone(c) PROVE IInv'
  BY <1>2, WriteDoneInv
<1>3. ASSUME NEW c \in Cmds, WriteFails(c) PROVE IInv'
  BY <1>3, WriteFailsInv
<1>4. ASSUME NEW c \in Cmds, Callback(c) PROVE IInv'
  BY <1>4, StartCommandIdleInv, ChildWatchInv, OutputboxIoWatchReads,
     FullDataIoWatchReads, ReadStepKeeps
     DEF Callback
<1>5. ASSUME NEW c \in Cmds, ChildWrites(c) PROVE IInv'
  BY <1>5, Unchanged DEF ChildWrites
<1>6. ASSUME NEW c \in Cmds, ChildExits(c) PROVE IInv'
  BY <1>6, ChildExitsInv
<1>7. CASE OutputboxCleanup
  BY <1>7, Unchanged DEF OutputboxCleanup
<1>8. CASE OutputboxAddLine
  BY <1>8, Unchanged DEF OutputboxAddLine
<1>9. CASE UNCHANGED vars
  BY <1>9, Unchanged DEF vars
<1> QED BY <1>1, <1>2, <1>3, <1>4, <1>5, <1>6, <1>7, <1>8, <1>9 DEF Next

LEMMA Invariant == Spec => []IInv
BY InitInv, NextInv, PTL DEF Spec

-----------------------------------------------------------------------------

\* The reference count of a command that was spawned is the number of the sources
\* that will give one back, and of the references given up (externalp_unref).
THEOREM SpecRefsMatch == Spec => []RefsMatch
<1>1. IInv => RefsMatch
  BY DEF IInv, Good, After, RefsMatch
<1> QED BY <1>1, Invariant, PTL

\* What is freed has no source left.
LEMMA FreedHasNone ==
    ASSUME IInv, NEW c \in Cmds
    PROVE  ~ep[c].misused /\ (ep[c].freed => ep[c].sources = {})
<1>1. CASE child[c] \in {"new", "none"}
  BY <1>1, Facts DEF Good, Before
<1>2. CASE child[c] \in {"running", "exited"}
  <2>1. After(kind[c], ep[c], odd[c], child[c] = "running")
    BY <1>2, Facts DEF Good
  <2>2. ~ep[c].misused /\ (ep[c].freed <=> ep[c].refcount = 0)
        /\ ep[c].refcount = Cardinality(ep[c].sources) + Lost(odd[c])
    BY <2>1 DEF After
  <2>3. Cardinality(ep[c].sources) \in Nat /\ Lost(odd[c]) \in Nat
        /\ (Cardinality(ep[c].sources) = 0 <=> ep[c].sources = {})
    BY Facts, CountSources, LostType DEF EpType
  <2> QED BY <2>2, <2>3
<1> QED BY <1>1, <1>2, Facts DEF Good

\* No callback of a command comes after its structure was freed.
THEOREM SpecNoUseAfterFree == Spec => []NoUseAfterFree
<1>1. IInv => NoUseAfterFree
  BY FreedHasNone DEF NoUseAfterFree, Has
<1> QED BY <1>1, Invariant, PTL

\* When no source of a command is left, its structure was freed, or a reference
\* was given up on the way.
THEOREM SpecFreedByTheLast == Spec => []FreedByTheLast
<1>1. ASSUME IInv, NEW c \in Cmds, child[c] # "new", ep[c].sources = {}
      PROVE  ep[c].freed \/ odd[c] \intersect GivenUp # {}
  <2>1. CASE child[c] = "none"
    <3>1. Before(kind[c], ep[c], odd[c], FALSE) /\ odd[c] \in SUBSET Oddities
      BY <1>1, <2>1, Facts DEF Good
    <3>2. "spawn failed" \in odd[c] \/ "write failed" \in odd[c]
      BY <1>1, <3>1 DEF Before
    <3>3. "spawn failed" \in GivenUp /\ "write failed" \in GivenUp
      BY DEF GivenUp
    <3> QED BY <3>2, <3>3
  <2>2. CASE child[c] \in {"running", "exited"}
    <3>1. After(kind[c], ep[c], odd[c], child[c] = "running")
      BY <1>1, <2>2, Facts DEF Good
    <3>2. (ep[c].freed <=> ep[c].refcount = 0)
          /\ ep[c].refcount = Cardinality(ep[c].sources) + Lost(odd[c])
      BY <3>1 DEF After
    <3>3. Cardinality(ep[c].sources) = 0
      BY <1>1, FS_EmptySet
    <3>4. "write failed" \notin odd[c] /\ "no output file" \notin odd[c] => Lost(odd[c]) = 0
      BY <1>1, Facts, LostType
    <3>5. Lost(odd[c]) \in Nat
      BY <1>1, Facts, LostType
    <3>6. CASE Lost(odd[c]) = 0
      <4>1. ep[c].refcount = 0
        BY <3>2, <3>3, <3>6
      <4> QED BY <3>2, <4>1
    <3>7. CASE Lost(odd[c]) # 0
      <4>1. "write failed" \in GivenUp /\ "no output file" \in GivenUp
        BY DEF GivenUp
      <4> QED BY <3>4, <3>7, <4>1
    <3> QED BY <3>6, <3>7
  <2> QED BY <1>1, <2>1, <2>2, Facts DEF Good
<1>2. IInv => FreedByTheLast
  BY <1>1 DEF FreedByTheLast
<1> QED BY <1>2, Invariant, PTL

\* Externalp_unref frees the structure of a command once, after its last callback, in
\* every order of the callbacks.
THEOREM SpecLifetime == Spec => []Lifetime
<1>1. RefsMatch /\ NoUseAfterFree /\ FreedByTheLast => Lifetime
  BY DEF Lifetime
<1> QED BY <1>1, SpecRefsMatch, SpecNoUseAfterFree, SpecFreedByTheLast, PTL

-----------------------------------------------------------------------------
(* What becomes of the output.                                             *)

\* The output of a command whose child was started is still to be read, was read to its end,
\* or one of the reasons not to read it is given.
Handled(c) ==
    \/ Has(c, "idle")
    \/ "child first" \in odd[c] /\ "pipe" \in {kind[c].input, kind[c].output}
    \/ kind[c].reader = "outputbox" /\ closed
    \/ "read error" \in odd[c]
    \/ Has(c, "reading")
    \/ /\ kind[c].output \in {"file", "inplace"} /\ Has(c, "watching")
       /\ kind[c].input = "pipe" => ep[c].buffer_out
    \/ (child[c] = "exited" \/ kind[c].output = "none") /\ delivered[c] = produced[c]

\* A command that writes to the box finds one with a def as long as none was closed.
Boxed(c) ==
    kind[c].reader = "outputbox" /\ child[c] # "new" /\ ep[c].sources # {} =>
        outputbox \in Cmds \/ closed

Kept(c) ==
    /\ kind[c] \in Accepted
    /\ ep[c].refcount >= 0
    /\ delivered[c] <= produced[c]
    /\ child[c] \in {"new", "none"} \/ kind[c].output = "none" => produced[c] = 0
    /\ child[c] \in {"running", "exited"} => Handled(c)
    /\ Boxed(c)

OutInv ==
    /\ produced \in [Cmds -> 0 .. MaxOut] /\ delivered \in [Cmds -> 0 .. MaxOut]
    /\ outputbox \in {"none", "bare"} \union Cmds
    /\ closed \in BOOLEAN /\ crashed \in BOOLEAN
    /\ CrashNeedsClose
    /\ \A c \in Cmds : Kept(c)

LEMMA InitOutInv == Init => OutInv
<1>. SUFFICES ASSUME Init PROVE OutInv
  OBVIOUS
<1>1. /\ produced \in [Cmds -> 0 .. MaxOut] /\ delivered \in [Cmds -> 0 .. MaxOut]
  BY MaxOutAssumption DEF Init
<1>2. ASSUME NEW c \in Cmds PROVE Kept(c)
  <2>1. kind[c] = NoKind /\ ep[c] = Ep0 /\ child[c] = "new" /\ produced[c] = 0 /\ delivered[c] = 0
    BY DEF Init
  <2>2. NoKind \in Accepted
    BY DEF NoKind, Accepted, Kind
  <2>3. ep[c].refcount = 0
    BY <2>1 DEF Ep0
  <2>. QED BY <2>1, <2>2, <2>3 DEF Kept, Boxed
<1>. QED BY <1>1, <1>2 DEF Init, OutInv, CrashNeedsClose

\* The operations on a Texternalp leave its buffer_out, but for BufferOut.
LEMMA Buffers ==
    ASSUME NEW e \in EpType
    PROVE  /\ externalp_unref(e).buffer_out = e.buffer_out
           /\ Ref(e).buffer_out = e.buffer_out
           /\ Touched(e).buffer_out = e.buffer_out
           /\ BufferOut(e).buffer_out
           /\ \A s : /\ Add(e, s).buffer_out = e.buffer_out
                     /\ Drop(e, s).buffer_out = e.buffer_out
BY DEF externalp_unref, Ref, Touched, BufferOut, Add, Drop, EpType

\* A step of one command, as far as the others are concerned.
LEMMA KeptOthers ==
    ASSUME OutInv, NEW c \in Cmds,
           \A d \in Cmds : d # c =>
               /\ kind'[d] = kind[d] /\ ep'[d] = ep[d] /\ child'[d] = child[d] /\ odd'[d] = odd[d]
               /\ produced'[d] = produced[d] /\ delivered'[d] = delivered[d],
           outputbox' \in {outputbox} \union Cmds, closed' = closed,
           Kept(c)'
    PROVE  \A d \in Cmds : Kept(d)'
<1>. SUFFICES ASSUME NEW d \in Cmds, d # c PROVE Kept(d)'
  OBVIOUS
<1>1. Kept(d) /\ (outputbox \in Cmds => outputbox' \in Cmds)
  BY DEF OutInv
<1>. QED BY <1>1 DEF Kept, Boxed, Handled, Has

\* What the invariant of the references says of a command that has a source left.
Started ==
    \A c \in Cmds :
        /\ child[c] = "new" => ep[c].sources = {} /\ ep[c].refcount = 0
        /\ child[c] = "none" => ep[c].sources \subseteq {"writing"}
        /\ Has(c, "writing") /\ child[c] = "none" => kind[c].input = "file" /\ ep[c].refcount = 0
        /\ child[c] \in {"running", "exited"} => ep[c].refcount >= 0
        /\ Has(c, "idle") => Has(c, "watching") /\ ~Has(c, "writing") /\ ~Has(c, "reading")
        /\ Has(c, "writing") /\ child[c] # "none" => kind[c].input = "pipe"
        /\ child[c] \in {"new", "none", "running", "exited"}
        /\ ep[c] \in EpType /\ odd[c] \in SUBSET Oddities

LEMMA InvStarted == IInv => Started
<1>. SUFFICES ASSUME IInv, NEW c \in Cmds
              PROVE  Started!(c)
  BY DEF Started
<1>1. CASE child[c] \in {"new", "none"}
  BY <1>1, Facts DEF Good, Before, Has
<1>2. CASE child[c] \in {"running", "exited"}
  <2>1. After(kind[c], ep[c], odd[c], child[c] = "running")
    BY <1>2, Facts DEF Good
  <2>2. Cardinality(ep[c].sources) \in Nat /\ Lost(odd[c]) \in Nat
    BY Facts, CountSources, LostType DEF EpType
  <2>3. ep[c].refcount = Cardinality(ep[c].sources) + Lost(odd[c])
    BY <2>1 DEF After
  <2>4. ep[c].refcount >= 0
    BY <2>2, <2>3
  <2>. QED BY <1>2, <2>1, <2>4, Facts DEF After, Has
<1>. QED BY <1>1, <1>2, Facts DEF Good

LEMMA StartedNext == IInv' => Started'
BY InvStarted, PTL

\* The count never becomes negative.
LEMMA CountKept ==
    ASSUME IInv', NEW c \in Cmds, child'[c] = "none" => ep'[c].refcount >= 0
    PROVE  (ep[c].refcount >= 0)'
<1>1. /\ (child'[c] = "new" => ep'[c].refcount = 0)
      /\ (child'[c] \in {"running", "exited"} => ep'[c].refcount >= 0)
      /\ child'[c] \in {"new", "none", "running", "exited"}
  BY StartedNext DEF Started
<1>. QED BY <1>1

\* Functions of the commands, so that a step of one can be told from the others.
LEMMA OutTypes ==
    ASSUME IInv, OutInv
    PROVE  /\ kind \in [Cmds -> Kind] /\ ep \in [Cmds -> EpType]
           /\ child \in [Cmds -> {"new", "none", "running", "exited"}]
           /\ odd \in [Cmds -> SUBSET Oddities]
           /\ produced \in [Cmds -> 0 .. MaxOut] /\ delivered \in [Cmds -> 0 .. MaxOut]
           /\ \A c \in Cmds : produced[c] \in Nat /\ delivered[c] \in Nat /\ ep[c].refcount \in Int
BY MaxOutAssumption DEF IInv, OutInv, EpType

\* start_command_backend leaves the idle callback, or a command without a child.
LEMMA StartBackendSources ==
    ASSUME IInv, NEW c \in Cmds, NEW e \in EpType, e.refcount = 0, StartBackend(c, e)
    PROVE  /\ \A d \in Cmds : d # c => ep'[d] = ep[d] /\ child'[d] = child[d] /\ odd'[d] = odd[d]
           /\ \/ child'[c] = "running" /\ "idle" \in ep'[c].sources
              \/ child'[c] = "none" /\ ep'[c].refcount = 1 /\ ep'[c].sources = e.sources
<1>. DEFINE two == Ref(Ref(e))
<1>1. two \in EpType /\ two.refcount = 2 /\ two.sources = e.sources
  <2>1. Ref(e) \in EpType /\ Ref(e).refcount = 1 /\ Ref(e).sources = e.sources
    BY RefFields
  <2>. QED BY <2>1, RefFields
<1>. HIDE DEF two
<1>2. "watching" \in Sources /\ "idle" \in Sources
  BY DEF Sources
<1>3. "idle" \in Add(Add(two, "watching"), "idle").sources
  <2>1. Add(two, "watching") \in EpType
    BY <1>1, <1>2, AddFields
  <2>. QED BY <1>2, <2>1, AddFields
<1>4. externalp_unref(two).refcount = 1 /\ externalp_unref(two).sources = e.sources
  BY <1>1, UnrefFields
<1>. QED BY <1>3, <1>4 DEF StartBackend, IInv, two

LEMMA StartCommandOut ==
    ASSUME IInv, IInv', OutInv, NEW c \in Cmds, NEW k \in Kinds[c], StartCommand(c, k)
    PROVE  OutInv'
<1>1. k \in Accepted
  BY KindsAssumption
<1>2. child[c] = "new" /\ ep[c].sources = {} /\ ep[c].refcount = 0 /\ ep[c] \in EpType
  BY InvStarted DEF Started, StartCommand
<1>3. /\ kind'[c] = k /\ produced' = produced /\ delivered' = delivered
      /\ \A d \in Cmds : d # c => kind'[d] = kind[d]
      /\ outputbox' = (IF k.reader = "outputbox" THEN c ELSE outputbox)
      /\ closed' = closed /\ crashed' = crashed
  BY OutTypes DEF StartCommand
<1>4. /\ \A d \in Cmds : d # c => ep'[d] = ep[d] /\ child'[d] = child[d] /\ odd'[d] = odd[d]
      /\ \/ child'[c] = "running" /\ "idle" \in ep'[c].sources
         \/ child'[c] = "none" /\ ep'[c].refcount >= 0
  <2>1. CASE StartBackend(c, ep[c])
    BY <1>2, <2>1, StartBackendSources
  <2>2. CASE /\ ep' = [ep EXCEPT ![c] = Add(BufferOut(@), "writing")]
             /\ child' = [child EXCEPT ![c] = "none"] /\ UNCHANGED odd
    <3>1. "writing" \in Sources
      BY DEF Sources
    <3>2. Add(BufferOut(ep[c]), "writing").refcount = 0
      BY <1>2, <3>1, BufferOutFields, AddFields
    <3>. QED BY <2>2, <3>2, OutTypes
  <2>3. CASE /\ child' = [child EXCEPT ![c] = "none"]
             /\ odd' = [odd EXCEPT ![c] = @ \union {"write failed"}] /\ UNCHANGED ep
    <3>1. child'[c] = "none" /\ ep' = ep
      BY <2>3, OutTypes
    <3>2. \A d \in Cmds : d # c => child'[d] = child[d] /\ odd'[d] = odd[d]
      BY <2>3, OutTypes
    <3>3. ep'[c].refcount >= 0
      BY <1>2, <3>1
    <3>. QED BY <3>1, <3>2, <3>3
  <2>. QED BY <2>1, <2>2, <2>3 DEF StartCommand
<1>5. produced[c] = 0 /\ delivered[c] = 0
  BY <1>2, OutTypes DEF OutInv, Kept
<1>6. Kept(c)'
  <2>1. (ep[c].refcount >= 0)'
    BY <1>4, CountKept
  <2>2. Boxed(c)'
    BY <1>3 DEF Boxed
  <2>3. child'[c] \in {"running", "exited"} => Handled(c)'
    BY <1>4 DEF Handled, Has
  <2>4. produced'[c] = 0 /\ delivered'[c] = 0 /\ kind'[c] \in Accepted
    BY <1>1, <1>3, <1>5
  <2>. QED BY <2>1, <2>2, <2>3, <2>4 DEF Kept
<1>7. \A d \in Cmds : Kept(d)'
  BY <1>3, <1>4, <1>6, KeptOthers
<1>. QED BY <1>3, <1>7 DEF OutInv, CrashNeedsClose

LEMMA WriteDoneOut ==
    ASSUME IInv, IInv', OutInv, NEW c \in Cmds, WriteDone(c)
    PROVE  OutInv'
<1>. DEFINE e == Drop(ep[c], "writing")
<1>1. /\ UNCHANGED <<kind, produced, delivered, outputbox, closed, crashed>>
      /\ Has(c, "writing") /\ "writing" \in Sources /\ ep[c] \in EpType
  BY InvStarted DEF WriteDone, Started, Sources
<1>2. /\ e \in EpType /\ e.sources = ep[c].sources \ {"writing"} /\ e.refcount = ep[c].refcount
      /\ e.buffer_out = ep[c].buffer_out
  BY <1>1, DropFields, Buffers
<1>. HIDE DEF e
<1>3. CASE kind[c].input = "file" /\ StartBackend(c, e)
  <2>1. child[c] = "none" /\ ep[c].refcount = 0
    BY <1>1, <1>3, InvStarted DEF Started, Has
  <2>2. /\ \A d \in Cmds : d # c => ep'[d] = ep[d] /\ child'[d] = child[d] /\ odd'[d] = odd[d]
        /\ \/ child'[c] = "running" /\ "idle" \in ep'[c].sources
           \/ child'[c] = "none" /\ ep'[c].refcount >= 0
    BY <1>2, <1>3, <2>1, StartBackendSources
  <2>3. (ep[c].refcount >= 0)'
    BY <2>2, CountKept
  <2>4. Kept(c) /\ ep[c].sources # {}
    BY <1>1 DEF OutInv, Has
  <2>5. Kept(c)'
    BY <1>1, <2>1, <2>2, <2>3, <2>4 DEF Kept, Handled, Has, Boxed
  <2>. QED BY <1>1, <2>2, <2>5, KeptOthers DEF OutInv, CrashNeedsClose
<1>4. CASE /\ kind[c].input = "pipe" /\ child[c] = "running"
           /\ ep' = [ep EXCEPT ![c] = externalp_unref(e)] /\ UNCHANGED <<child, odd>>
  <2>1. /\ ep'[c].sources = ep[c].sources \ {"writing"} /\ ep'[c].buffer_out = ep[c].buffer_out
        /\ \A d \in Cmds : d # c => ep'[d] = ep[d]
    BY <1>2, <1>4, UnrefFields, Buffers, OutTypes
  <2>2. (ep[c].refcount >= 0)'
    BY <1>4, CountKept
  <2>3. Kept(c) /\ ep[c].sources # {}
    BY <1>1 DEF OutInv, Has
  <2>4. Kept(c)'
    BY <1>1, <1>4, <2>1, <2>2, <2>3 DEF Kept, Handled, Has, Boxed
  <2>. QED BY <1>1, <1>4, <2>1, <2>4, KeptOthers DEF OutInv, CrashNeedsClose
<1>. QED BY <1>3, <1>4 DEF WriteDone, e

LEMMA WriteFailsOut ==
    ASSUME IInv, IInv', OutInv, NEW c \in Cmds, WriteFails(c)
    PROVE  OutInv'
<1>1. /\ UNCHANGED <<kind, child, produced, delivered, outputbox, closed, crashed>>
      /\ Has(c, "writing") /\ "writing" \in Sources /\ ep[c] \in EpType
  BY InvStarted DEF WriteFails, Started, Sources
<1>2. /\ ep'[c] = Drop(ep[c], "writing") /\ odd[c] \subseteq odd'[c]
      /\ \A d \in Cmds : d # c => ep'[d] = ep[d] /\ odd'[d] = odd[d]
  BY OutTypes DEF WriteFails
<1>3. /\ ep'[c].sources = ep[c].sources \ {"writing"} /\ ep'[c].refcount = ep[c].refcount
      /\ ep'[c].buffer_out = ep[c].buffer_out
  BY <1>1, <1>2, DropFields, Buffers
<1>4. Kept(c) /\ ep[c].sources # {}
  BY <1>1 DEF OutInv, Has
<1>5. Kept(c)'
  BY <1>1, <1>2, <1>3, <1>4 DEF Kept, Handled, Has, Boxed
<1>. QED BY <1>1, <1>2, <1>5, KeptOthers DEF OutInv, CrashNeedsClose

LEMMA StartCommandIdleOut ==
    ASSUME IInv, IInv', OutInv, NEW c \in Cmds, StartCommandIdle(c)
    PROVE  OutInv'
<1>. DEFINE e == ep[c]
            in == IF kind[c].input = "pipe" THEN Add(BufferOut(Ref(e)), "writing") ELSE e
            out == IF kind[c].output = "pipe" THEN Add(Ref(in), "reading") ELSE in
            t == Touched(Drop(externalp_unref(out), "idle"))
<1>1. /\ UNCHANGED <<kind, child, odd, produced, delivered, outputbox, closed, crashed>>
      /\ ep' = [ep EXCEPT ![c] = t]
      /\ "idle" \in e.sources /\ "watching" \in e.sources /\ e \in EpType
      /\ child[c] # "none"
  BY InvStarted DEF StartCommandIdle, Started, Has
<1>s. "idle" \in Sources /\ "writing" \in Sources /\ "reading" \in Sources
  BY DEF Sources
<1>. HIDE DEF e
<1>2. /\ in \in EpType /\ e.sources \subseteq in.sources
      /\ kind[c].input = "pipe" => in.buffer_out
  <2>1. CASE kind[c].input = "pipe"
    <3>1. Ref(e) \in EpType /\ Ref(e).sources = e.sources
      BY <1>1, RefFields
    <3>2. BufferOut(Ref(e)) \in EpType /\ BufferOut(Ref(e)).sources = e.sources /\ BufferOut(Ref(e)).buffer_out
      BY <3>1, BufferOutFields, Buffers
    <3>. QED BY <1>s, <2>1, <3>2, AddFields, Buffers
  <2>2. CASE kind[c].input # "pipe"
    BY <1>1, <2>2
  <2>. QED BY <2>1, <2>2
<1>. HIDE DEF in
<1>3. /\ out \in EpType /\ in.sources \subseteq out.sources
      /\ out.buffer_out = in.buffer_out
      /\ kind[c].output = "pipe" => "reading" \in out.sources
  <2>1. CASE kind[c].output = "pipe"
    <3>1. Ref(in) \in EpType /\ Ref(in).sources = in.sources /\ Ref(in).buffer_out = in.buffer_out
      BY <1>2, RefFields, Buffers
    <3>. QED BY <1>s, <2>1, <3>1, AddFields, Buffers
  <2>2. CASE kind[c].output # "pipe"
    BY <1>2, <2>2
  <2>. QED BY <2>1, <2>2
<1>. HIDE DEF out
<1>4. t.sources = out.sources \ {"idle"} /\ t.buffer_out = out.buffer_out
  <2>1. externalp_unref(out) \in EpType /\ externalp_unref(out).sources = out.sources
        /\ externalp_unref(out).buffer_out = out.buffer_out
    BY <1>3, UnrefFields, Buffers
  <2>. DEFINE u == externalp_unref(out)
             d == Drop(u, "idle")
  <2>u. u \in EpType /\ u.sources = out.sources /\ u.buffer_out = out.buffer_out
    BY <2>1
  <2>. HIDE DEF u
  <2>d. d \in EpType /\ d.sources = u.sources \ {"idle"}
    BY <1>s, <2>u, DropFields
  <2>b. d.buffer_out = u.buffer_out
    BY <2>u, Buffers
  <2>2. d \in EpType /\ d.sources = out.sources \ {"idle"} /\ d.buffer_out = out.buffer_out
    BY <2>u, <2>d, <2>b
  <2>3. t = Touched(d)
    BY DEF u, t
  <2>. HIDE DEF d
  <2>. QED BY <2>2, <2>3, TouchedFields, Buffers
<1>5. ep'[c] = t /\ \A d \in Cmds : d # c => ep'[d] = ep[d]
  BY <1>1, OutTypes
<1>. HIDE DEF t
<1>6. Kept(c) /\ ep[c].sources # {} /\ child[c] \in {"running", "exited"}
  BY <1>1, InvStarted DEF OutInv, e, Started
<1>7. Handled(c)'
  <2>1. CASE kind[c].output = "pipe"
    BY <1>3, <1>4, <1>5, <2>1 DEF Handled, Has
  <2>2. CASE kind[c].output \in {"file", "inplace"}
    BY <1>1, <1>2, <1>3, <1>4, <1>5, <2>2 DEF Handled, Has
  <2>3. CASE kind[c].output = "none"
    <3>1. produced[c] = 0 /\ delivered[c] = 0
      BY <1>6, <2>3, OutTypes DEF Kept
    <3>. QED BY <1>1, <2>3, <3>1 DEF Handled
  <2>. QED BY <1>6, <2>1, <2>2, <2>3 DEF Kept, Accepted, Kind
<1>8. (ep[c].refcount >= 0)'
  BY <1>1, CountKept
<1>9. Kept(c)'
  BY <1>1, <1>6, <1>7, <1>8 DEF Kept, Boxed
<1>. QED BY <1>1, <1>5, <1>9, KeptOthers DEF OutInv, CrashNeedsClose

LEMMA ChildWatchOut ==
    ASSUME IInv, IInv', OutInv, NEW c \in Cmds, ChildWatch(c)
    PROVE  OutInv'
<1>. DEFINE gone == Drop(ep[c], "watching")
            e == IF Has(c, "idle") THEN externalp_unref(Drop(gone, "idle")) ELSE gone
            early == IF Has(c, "idle") THEN {"child first"} ELSE {}
            unstarted == kind[c].input = "pipe" /\ ~e.buffer_out
            file == kind[c].output \in {"file", "inplace"} /\ ~unstarted
<1>1. /\ UNCHANGED <<kind, child, produced, delivered, outputbox, closed>>
      /\ Has(c, "watching") /\ child[c] = "exited" /\ ep[c] \in EpType
      /\ crashed' = (kind[c].reader = "outputbox" /\ FillCrashes)
      /\ "watching" \in Sources /\ "idle" \in Sources /\ "reading" \in Sources
  BY InvStarted DEF ChildWatch, Started, Sources
<1>2. /\ gone \in EpType /\ gone.sources = ep[c].sources \ {"watching"}
      /\ gone.buffer_out = ep[c].buffer_out
  BY <1>1, DropFields, Buffers
<1>. HIDE DEF gone
<1>3. /\ e \in EpType /\ e.buffer_out = ep[c].buffer_out
      /\ e.sources = ep[c].sources \ {"watching", "idle"}
  <2>1. CASE Has(c, "idle")
    <3>1. LET d == Drop(gone, "idle") IN
          d \in EpType /\ d.sources = gone.sources \ {"idle"} /\ d.buffer_out = gone.buffer_out
      BY <1>1, <1>2, DropFields, Buffers
    <3>. QED BY <1>2, <2>1, <3>1, UnrefFields, Buffers
  <2>2. CASE ~Has(c, "idle")
    BY <1>2, <2>2 DEF Has
  <2>. QED BY <2>1, <2>2
<1>4. \/ ~file /\ ep' = [ep EXCEPT ![c] = externalp_unref(e)]
         /\ odd' = [odd EXCEPT ![c] = @ \union early]
      \/ file /\ ep' = [ep EXCEPT ![c] = externalp_unref(Add(Ref(e), "reading"))]
         /\ odd' = [odd EXCEPT ![c] = @ \union early]
      \/ file /\ produced[c] = 0 /\ ep' = [ep EXCEPT ![c] = externalp_unref(Ref(e))]
         /\ odd' = [odd EXCEPT ![c] = @ \union early \union {"no output file"}]
  BY DEF ChildWatch, gone
<1>. HIDE DEF e
<1>5. /\ externalp_unref(e).sources = e.sources
      /\ "reading" \in externalp_unref(Add(Ref(e), "reading")).sources
  <2>1. Ref(e) \in EpType
    BY <1>3, RefFields
  <2>2. Add(Ref(e), "reading") \in EpType /\ "reading" \in Add(Ref(e), "reading").sources
    BY <1>1, <2>1, AddFields
  <2>. QED BY <1>3, <2>2, UnrefFields
<1>6. /\ \A d \in Cmds : d # c => ep'[d] = ep[d] /\ odd'[d] = odd[d]
      /\ odd[c] \subseteq odd'[c] /\ (Has(c, "idle") => "child first" \in odd'[c])
      /\ \/ ~file /\ ep'[c].sources = ep[c].sources \ {"watching", "idle"}
         \/ "reading" \in ep'[c].sources
         \/ produced[c] = 0
  <2>1. ep \in [Cmds -> EpType] /\ odd \in [Cmds -> SUBSET Oddities]
    BY OutTypes
  <2>. HIDE DEF file
  <2>. QED BY <1>3, <1>4, <1>5, <2>1
<1>7. Kept(c) /\ ep[c].sources # {} /\ Handled(c)
  BY <1>1 DEF OutInv, Kept, Has
<1>8. Handled(c)'
  <2>1. CASE "reading" \in ep'[c].sources
    BY <2>1 DEF Handled, Has
  <2>2. CASE produced[c] = 0
    <3>1. delivered[c] = 0
      BY <1>7, <2>2, OutTypes DEF Kept
    <3>. QED BY <1>1, <2>2, <3>1 DEF Handled
  <2>3. CASE ~file /\ ep'[c].sources = ep[c].sources \ {"watching", "idle"}
    <3>1. CASE Has(c, "idle")
      <4>1. "child first" \in odd'[c]
        BY <1>6, <3>1
      <4>2. kind[c].output \in {"none", "pipe"} \/ kind[c].input = "pipe"
        BY <1>7, <2>3 DEF Kept, Accepted, Kind
      <4>3. CASE kind[c].output = "none"
        <5>1. produced[c] = 0
          BY <1>7, <4>3 DEF Kept
        <5>. QED BY <2>2, <5>1
      <4>. QED BY <1>1, <4>1, <4>2, <4>3 DEF Handled
    <3>2. CASE ~Has(c, "idle")
      <4>1. kind[c].output \in {"file", "inplace"} => ~(kind[c].input = "pipe" => ep[c].buffer_out)
        BY <1>3, <2>3
      <4>. QED BY <1>1, <1>6, <1>7, <2>3, <3>2, <4>1 DEF Handled, Has
    <3>. QED BY <3>1, <3>2
  <2>. QED BY <1>6, <2>1, <2>2, <2>3
<1>9. (ep[c].refcount >= 0)'
  BY <1>1, CountKept
<1>10. Kept(c)'
  BY <1>1, <1>7, <1>8, <1>9 DEF Kept, Boxed
<1>11. CrashNeedsClose' /\ crashed' \in BOOLEAN
  BY <1>1, <1>7, CmdsAssumption DEF Kept, Boxed, FillCrashes, CrashNeedsClose
<1>. QED BY <1>1, <1>6, <1>10, <1>11, KeptOthers DEF OutInv

\* What a watch may have read lies between what it had and what there is.
LEMMA BetweenBounds ==
    ASSUME NEW m \in Nat, NEW a \in 0 .. m, NEW b \in 0 .. m, NEW n \in a .. b
    PROVE  n \in 0 .. m /\ n <= b
OBVIOUS

\* A call of a watch that reads, as far as the output is concerned.
LEMMA ReadStepOut ==
    ASSUME IInv, IInv', OutInv, NEW c \in Cmds, ReadStep(c),
           UNCHANGED <<produced, outputbox, closed>>, child[c] \in {"running", "exited"},
           NEW n \in delivered[c] .. produced[c], delivered' = [delivered EXCEPT ![c] = n],
           \/ ep' = ep
           \/ n = produced[c] /\ child[c] = "exited"
           \/ kind[c].reader = "outputbox" /\ closed
           \/ "read error" \in odd'[c],
           crashed' \in BOOLEAN, CrashNeedsClose'
    PROVE  OutInv'
<1>0. n \in 0 .. MaxOut /\ n <= produced[c]
  <2>1. delivered[c] \in 0 .. MaxOut /\ produced[c] \in 0 .. MaxOut
    BY OutTypes
  <2>. QED BY <2>1, MaxOutAssumption, BetweenBounds, Zenon
<1>1. /\ \A d \in Cmds : /\ kind'[d] = kind[d] /\ child'[d] = child[d] /\ produced'[d] = produced[d]
                         /\ d # c => ep'[d] = ep[d] /\ odd'[d] = odd[d] /\ delivered'[d] = delivered[d]
      /\ delivered' \in [Cmds -> 0 .. MaxOut] /\ delivered'[c] = n
      /\ odd[c] \subseteq odd'[c]
  <2>1. n \in 0 .. MaxOut
    BY <1>0
  <2>2. kind' = kind /\ child' = child /\ produced' = produced
    BY DEF ReadStep
  <2>3. /\ delivered' \in [Cmds -> 0 .. MaxOut] /\ delivered'[c] = n
        /\ \A d \in Cmds : d # c => delivered'[d] = delivered[d]
    BY <2>1, OutTypes
  <2>4. \A d \in Cmds : d # c => ep'[d] = ep[d] /\ odd'[d] = odd[d]
    BY OutTypes DEF ReadStep
  <2>5. odd[c] \subseteq odd'[c]
    BY OutTypes DEF ReadStep
  <2>. QED BY <2>2, <2>3, <2>4, <2>5
<1>2. Kept(c) /\ ep[c].sources # {} /\ n <= produced[c]
  <2>1. Kept(c)
    BY DEF OutInv
  <2>2. ep[c].sources # {}
    BY DEF ReadStep, Has
  <2>3. n <= produced[c]
    BY <1>0
  <2>. QED BY <2>1, <2>2, <2>3
<1>3. (ep[c].refcount >= 0)'
  BY <1>1, CountKept
<1>4. Boxed(c)'
  BY <1>1, <1>2 DEF Kept, Boxed
<1>5. Handled(c)'
  BY <1>1, <1>2 DEF Kept, Handled, Has, ReadStep
<1>6. Kept(c)'
  BY <1>1, <1>2, <1>3, <1>4, <1>5 DEF Kept
<1>7. \A d \in Cmds : Kept(d)'
  <2>1. outputbox' \in {outputbox} \union Cmds /\ closed' = closed
    OBVIOUS
  <2>. QED BY <1>1, <1>6, <2>1, KeptOthers
<1>8. produced' \in [Cmds -> 0 .. MaxOut]
  BY OutTypes
<1>. QED BY <1>1, <1>7, <1>8 DEF OutInv

LEMMA OutputboxIoWatchOut ==
    ASSUME IInv, IInv', OutInv, NEW c \in Cmds, OutputboxIoWatch(c)
    PROVE  OutInv'
<1>1. /\ ReadStep(c) /\ UNCHANGED <<produced, outputbox, closed>>
      /\ kind[c].reader = "outputbox" /\ child[c] \in {"running", "exited"}
  BY OutputboxIoWatchReads, InvStarted DEF OutputboxIoWatch, Started, Has
<1>2. /\ outputbox \in Cmds \/ closed
      /\ delivered[c] \in Nat /\ produced[c] \in Nat /\ delivered[c] <= produced[c]
      /\ crashed \in BOOLEAN /\ CrashNeedsClose
  BY <1>1, OutTypes DEF OutInv, Kept, Boxed, ReadStep, Has
<1>3. CASE outputbox = "none"
  <2>1. closed /\ delivered' = delivered /\ crashed' = crashed
    BY <1>2, <1>3, CmdsAssumption DEF OutputboxIoWatch
  <2>2. delivered[c] \in delivered[c] .. produced[c]
    BY <1>2
  <2>3. delivered' = [delivered EXCEPT ![c] = delivered[c]]
    BY <2>1, OutTypes
  <2>4. CrashNeedsClose' /\ crashed' \in BOOLEAN
    BY <1>1, <1>2, <2>1 DEF CrashNeedsClose
  <2>. QED BY <1>1, <2>1, <2>2, <2>3, <2>4, ReadStepOut
<1>4. CASE outputbox # "none"
  <2>1. PICK n \in Readable(c) :
            /\ ReadTo(c, n)
            /\ delivered' = [delivered EXCEPT ![c] = n]
            /\ crashed' = (n > delivered[c] /\ FillCrashes)
            /\ AtEnd(c) \/ ep' = ep
    BY <1>4 DEF OutputboxIoWatch, ReadEnds
  <2>2. n \in delivered[c] .. produced[c]
    BY <2>1 DEF Readable
  <2>3. ep' = ep \/ (n = produced[c] /\ child[c] = "exited") \/ "read error" \in odd'[c]
    BY <2>1, OutTypes DEF ReadTo, AtEnd
  <2>4. crashed' \in BOOLEAN
    BY <2>1
  <2>5. CrashNeedsClose'
    BY <1>1, <1>2, <2>1, CmdsAssumption DEF FillCrashes, CrashNeedsClose
  <2>. QED BY <1>1, <2>1, <2>2, <2>3, <2>4, <2>5, ReadStepOut
<1>. QED BY <1>3, <1>4

LEMMA FullDataIoWatchOut ==
    ASSUME IInv, IInv', OutInv, NEW c \in Cmds, FullDataIoWatch(c)
    PROVE  OutInv'
<1>1. /\ ReadStep(c) /\ UNCHANGED <<produced, outputbox, closed>>
      /\ child[c] \in {"running", "exited"} /\ crashed' = crashed
  BY FullDataIoWatchReads, InvStarted DEF FullDataIoWatch, Started, Has
<1>2. PICK n \in Readable(c) : /\ ReadTo(c, n) /\ delivered' = [delivered EXCEPT ![c] = n]
                               /\ AtEnd(c) \/ n < produced[c]
  BY DEF FullDataIoWatch
<1>3. /\ n \in delivered[c] .. produced[c]
      /\ (n = produced[c] /\ child[c] = "exited") \/ "read error" \in odd'[c]
  <2>1. n \in delivered[c] .. produced[c] /\ delivered[c] \in Nat /\ produced[c] \in Nat
    BY <1>2, OutTypes DEF Readable
  <2>2. n = produced[c] => child[c] = "exited"
    BY <1>2, <2>1 DEF AtEnd
  <2>3. n # produced[c] => "read error" \in odd'[c]
    BY <1>2, OutTypes DEF ReadTo
  <2>. QED BY <2>1, <2>2, <2>3
<1>4. CrashNeedsClose' /\ crashed' \in BOOLEAN
  BY <1>1 DEF OutInv, CrashNeedsClose
<1>. QED BY <1>1, <1>2, <1>3, <1>4, ReadStepOut

LEMMA NextOutInv == IInv /\ IInv' /\ OutInv /\ [Next]_vars => OutInv'
<1>. SUFFICES ASSUME IInv, IInv', OutInv, [Next]_vars PROVE OutInv'
  OBVIOUS
<1>1. ASSUME NEW c \in Cmds, ChildWrites(c) PROVE OutInv'
  <2>1. /\ UNCHANGED <<kind, ep, child, delivered, odd, outputbox, closed, crashed>>
        /\ child[c] = "running" /\ kind[c].output # "none"
        /\ produced' \in [Cmds -> 0 .. MaxOut] /\ produced'[c] = produced[c] + 1
        /\ \A d \in Cmds : d # c => produced'[d] = produced[d]
    BY <1>1, OutTypes, MaxOutAssumption DEF ChildWrites
  <2>2. Kept(c)
    BY DEF OutInv
  <2>3. Handled(c)'
    BY <2>1, <2>2 DEF Kept, Handled, Has
  <2>4. (delivered[c] <= produced[c])'
    BY <2>1, <2>2, OutTypes DEF Kept
  <2>5. Kept(c)'
    BY <2>1, <2>2, <2>3, <2>4 DEF Kept, Boxed
  <2>. QED BY <2>1, <2>5, KeptOthers DEF OutInv, CrashNeedsClose
<1>2. ASSUME NEW c \in Cmds, ChildExits(c) PROVE OutInv'
  <2>1. /\ UNCHANGED <<kind, ep, produced, delivered, odd, outputbox, closed, crashed>>
        /\ child[c] = "running" /\ child'[c] = "exited"
        /\ \A d \in Cmds : d # c => child'[d] = child[d]
    BY <1>2, OutTypes DEF ChildExits
  <2>2. Kept(c)'
    BY <2>1 DEF OutInv, Kept, Handled, Boxed, Has
  <2>. QED BY <2>1, <2>2, KeptOthers DEF OutInv, CrashNeedsClose
<1>3. CASE OutputboxCleanup
  <2>1. /\ UNCHANGED <<kind, ep, child, produced, delivered, odd, crashed>>
        /\ outputbox' = "none" /\ closed' = (closed \/ \E c \in Cmds : BoxUser(c))
    BY <1>3 DEF OutputboxCleanup
  <2>2. \A c \in Cmds : Boxed(c)'
    BY <2>1, FreedHasNone DEF Boxed, BoxUser
  <2>3. \A c \in Cmds : Kept(c)'
    BY <2>1, <2>2 DEF OutInv, Kept, Handled, Has
  <2>. QED BY <2>1, <2>3 DEF OutInv, CrashNeedsClose
<1>4. CASE OutputboxAddLine
  <2>1. /\ UNCHANGED <<kind, ep, child, produced, delivered, odd, closed, crashed>>
        /\ outputbox = "none" /\ outputbox' = "bare"
    BY <1>4 DEF OutputboxAddLine
  <2>2. \A c \in Cmds : Kept(c)'
    BY <2>1, CmdsAssumption DEF OutInv, Kept, Handled, Has, Boxed
  <2>. QED BY <2>1, <2>2 DEF OutInv, CrashNeedsClose
<1>5. CASE UNCHANGED vars
  BY <1>5 DEF vars, OutInv, CrashNeedsClose, Kept, Handled, Has, Boxed
<1>. QED BY <1>1, <1>2, <1>3, <1>4, <1>5, StartCommandOut, WriteDoneOut, WriteFailsOut,
            StartCommandIdleOut, ChildWatchOut, OutputboxIoWatchOut, FullDataIoWatchOut
         DEF Next, Callback

\* Once the last reference is gone, the output has arrived or one of the reasons is given,
\* and only a box that was closed under a command ends the program (outputbox_io_watch_lcb,
\* full_data_io_watch_lcb, child_watch_lcb, outputbox_cleanup).
THEOREM SpecOutputKept == Spec => []OutputKept
<1>1. IInv /\ OutInv => OutputKept
  <2>. SUFFICES ASSUME IInv, OutInv PROVE TypeOK /\ OutputArrives
    BY DEF OutputKept, OutInv
  <2>1. TypeOK
    <3>1. ASSUME NEW c \in Cmds PROVE ep[c] \in Ep
      <4>1. ep[c] \in EpType /\ ep[c].refcount \in Nat
        BY OutTypes DEF OutInv, Kept
      <4>. QED BY <4>1 DEF EpType, Ep
    <3>2. ep \in [Cmds -> Ep]
      BY <3>1, OutTypes
    <3>. QED BY <3>2, OutTypes DEF TypeOK, OutInv
  <2>2. ASSUME NEW c \in Cmds, ep[c].freed
        PROVE  \/ delivered[c] = produced[c]
               \/ "child first" \in odd[c] /\ "pipe" \in {kind[c].input, kind[c].output}
               \/ kind[c].reader = "outputbox" /\ closed
               \/ "read error" \in odd[c]
    <3>1. child[c] \in {"running", "exited"}
      BY <2>2, Facts DEF Good, Before
    <3>2. ep[c].sources = {}
      BY <2>2, FreedHasNone
    <3>. QED BY <3>1, <3>2 DEF OutInv, Kept, Handled, Has
  <2>. QED BY <2>1, <2>2 DEF OutputArrives
<1>2. Spec => []OutInv
  <2>1. IInv /\ IInv' /\ OutInv /\ [Next]_vars => OutInv'
    BY NextOutInv
  <2>. QED BY <2>1, InitOutInv, Invariant, PTL DEF Spec
<1>. QED BY <1>1, <1>2, Invariant, PTL

-----------------------------------------------------------------------------
(* Ipc                                                                     *)

Busy == Starting \union Ending

\* A socket listens from listen() to the end of the main loop, or of the process.
Linked == \A p \in listening : stage[p] \in Looping \union {"shutdown"}

\* Who has a connection sends, or has exited; who it connected to was listening then.  What
\* became of that process since was met.
Connected(c, s) ==
    /\ stage[c] \in {"send", "gone"}
    /\ stage[s] \in Looping \union Ending \union {"gone"}
    /\ stage[s] = "startup" => "no window" \in met
    /\ stage[s] \in Looping \/ "no main loop" \in met \/ "killed server" \in met
Connections ==
    /\ \A c \in Procs : stage[c] = "send" => server[c] # NoProc
    /\ \A c, s \in Procs : server[c] = s => Connected(c, s)

\* A process that runs has opened its files; one that exited has sent them all.
Progress ==
    \A c \in Procs :
        /\ stage[c] \in {"running"} \union Ending => taken[c] = want[c]
        /\ stage[c] = "gone" /\ kills = 0 =>
               IF server[c] # NoProc THEN sent[c] = want[c] ELSE taken[c] = want[c]

\* A line is dropped for want of a window only.
DroppedWithoutWindow == dropped # {} => "no window" \in met

\* As long as no starts overlapped: who runs serves; who found nobody to connect to is alone
\* with the path, and so is who ends.
Alone ==
    /\ \A p \in Procs : stage[p] \in Looping => Serves(p)
    /\ \A p \in Procs : stage[p] \in {"unlink", "bind", "listen"} \union Ending =>
           \A q \in Procs : ~Serves(q)
    /\ \A p \in Procs : stage[p] = "bind" => path = NoProc
    /\ \A p \in Procs : stage[p] = "listen" => path = p
Exclusive == "overlap" \notin met => ~Overlap /\ Alone

IpcInv ==
    /\ IpcTypeOK /\ Linked /\ Connections /\ Progress /\ DroppedWithoutWindow /\ Exclusive

LEMMA InitIpcInv == IpcInit => IpcInv
BY ProcsAssumption, WantsAssumption
   DEF IpcInit, IpcInv, IpcTypeOK, Linked, Connections, Progress, DroppedWithoutWindow,
       Exclusive, Alone, Overlap, Serves, Connected, Stages, Starting, Ending, Looping

\* What a step meets stays met.
LEMMA Meets ==
    ASSUME NEW S, Meeting(S)
    PROVE  /\ met \subseteq met' /\ S \subseteq met' /\ met' \subseteq met \union S \union {"overlap"}
           /\ "overlap" \notin met' => "overlap" \notin met /\ ~Overlap'
BY DEF Meeting

LEMMA LaunchInv ==
    ASSUME IpcInv, NEW p \in Procs, Launch(p)
    PROVE  IpcInv'
<1>0. want \in [Procs -> Nat]
  BY WantsAssumption DEF IpcInv, IpcTypeOK
<1>m. /\ met \subseteq met' /\ met' \subseteq met \union {"overlap"}
      /\ "overlap" \notin met' => "overlap" \notin met /\ ~Overlap'
  BY Meets DEF Launch
<1>t. /\ stage \in [Procs -> Stages] /\ server \in [Procs -> Procs \union {NoProc}]
      /\ listening \subseteq master /\ master \subseteq Procs
  BY DEF IpcInv, IpcTypeOK
<1>1. IpcTypeOK'
  BY <1>m, <1>t, ProcsAssumption
     DEF IpcInv, Launch, IpcTypeOK, Stages, Situations, Goes, KeepMessages, Starting,
         Ending, Looping
<1>2. Linked'
  BY <1>m, <1>t, ProcsAssumption
     DEF IpcInv, Launch, IpcTypeOK, Linked, Goes, KeepMessages, Starting, Ending,
         Looping
<1>3. Connections'
  <2>1. \A q \in Procs : (stage[q] = "send" => server[q] # NoProc)'
    BY <1>t, ProcsAssumption DEF IpcInv, Connections, Launch, Goes
  <2>2. ASSUME NEW q \in Procs, NEW s \in Procs, server'[q] = s
        PROVE  Connected(q, s)'
    BY <2>2, <1>m, <1>t, ProcsAssumption
       DEF IpcInv, Connections, Connected, Linked, Launch, Goes, Starting, Ending,
           Looping
  <2>. QED BY <2>1, <2>2 DEF Connections
<1>4. Progress'
  BY <1>m, <1>t, ProcsAssumption
     DEF IpcInv, Launch, IpcTypeOK, Connections, Progress, Goes, KeepMessages, Starting,
         Ending, Looping
<1>5. DroppedWithoutWindow'
  BY <1>m, <1>t, ProcsAssumption
     DEF IpcInv, Launch, IpcTypeOK, Connections, DroppedWithoutWindow, Connected, Goes,
         KeepMessages, Starting, Ending, Looping
<1>6. Exclusive'
  <2>. SUFFICES ASSUME "overlap" \notin met'
                PROVE  Alone'
    BY <1>m DEF IpcInv, Exclusive
  <2>1. "overlap" \notin met /\ ~Overlap /\ ~Overlap' /\ Alone
    BY <1>m DEF IpcInv, Exclusive
  <2>. QED BY <2>1, <1>t, ProcsAssumption
     DEF IpcInv, Linked, Alone, Overlap, Serves, Launch, Goes, Starting, Ending, Looping
<1>. QED BY <1>1, <1>2, <1>3, <1>4, <1>5, <1>6 DEF IpcInv

LEMMA SocketIsValidInv ==
    ASSUME IpcInv, NEW p \in Procs, SocketIsValid(p)
    PROVE  IpcInv'
<1>0. want \in [Procs -> Nat]
  BY WantsAssumption DEF IpcInv, IpcTypeOK
<1>m. /\ met \subseteq met' /\ met' \subseteq met \union {"overlap"}
      /\ "overlap" \notin met' => "overlap" \notin met /\ ~Overlap'
  BY Meets DEF SocketIsValid
<1>t. /\ stage \in [Procs -> Stages] /\ server \in [Procs -> Procs \union {NoProc}]
      /\ listening \subseteq master /\ master \subseteq Procs
  BY DEF IpcInv, IpcTypeOK
<1>1. IpcTypeOK'
  BY <1>m, <1>t, ProcsAssumption
     DEF IpcInv, SocketIsValid, IpcTypeOK, Stages, Situations, Goes, KeepMessages,
         Starting, Ending, Looping
<1>2. Linked'
  BY <1>m, <1>t, ProcsAssumption
     DEF IpcInv, SocketIsValid, IpcTypeOK, Linked, Goes, KeepMessages, Starting, Ending,
         Looping
<1>3. Connections'
  <2>1. \A q \in Procs : (stage[q] = "send" => server[q] # NoProc)'
    BY <1>t, ProcsAssumption DEF IpcInv, Connections, SocketIsValid, Goes
  <2>2. ASSUME NEW q \in Procs, NEW s \in Procs, server'[q] = s
        PROVE  Connected(q, s)'
    BY <2>2, <1>m, <1>t, ProcsAssumption
       DEF IpcInv, Connections, Connected, Linked, SocketIsValid, Goes, Starting,
           Ending, Looping
  <2>. QED BY <2>1, <2>2 DEF Connections
<1>4. Progress'
  BY <1>m, <1>t, ProcsAssumption
     DEF IpcInv, SocketIsValid, IpcTypeOK, Connections, Progress, Goes, KeepMessages,
         Starting, Ending, Looping
<1>5. DroppedWithoutWindow'
  BY <1>m, <1>t, ProcsAssumption
     DEF IpcInv, SocketIsValid, IpcTypeOK, Connections, DroppedWithoutWindow, Connected,
         Goes, KeepMessages, Starting, Ending, Looping
<1>6. Exclusive'
  <2>. SUFFICES ASSUME "overlap" \notin met'
                PROVE  Alone'
    BY <1>m DEF IpcInv, Exclusive
  <2>1. "overlap" \notin met /\ ~Overlap /\ ~Overlap' /\ Alone
    BY <1>m DEF IpcInv, Exclusive
  <2>. QED BY <2>1, <1>t, ProcsAssumption
     DEF IpcInv, Linked, Alone, Overlap, Serves, SocketIsValid, Goes, Starting, Ending,
         Looping
<1>. QED BY <1>1, <1>2, <1>3, <1>4, <1>5, <1>6 DEF IpcInv

LEMMA BecomeClientInv ==
    ASSUME IpcInv, NEW p \in Procs, BecomeClient(p)
    PROVE  IpcInv'
<1>0. want \in [Procs -> Nat]
  BY WantsAssumption DEF IpcInv, IpcTypeOK
<1>. DEFINE S == IF path \notin listening THEN {}
               ELSE (IF stage[path] = "startup" THEN {"no window"} ELSE {}) \union
                    (IF stage[path] \in Ending THEN {"no main loop"} ELSE {})
<1>m. /\ met \subseteq met' /\ S \subseteq met' /\ met' \subseteq met \union S \union {"overlap"}
      /\ "overlap" \notin met' => "overlap" \notin met /\ ~Overlap'
  <2>. Meeting(S)
    BY DEF BecomeClient
  <2>. HIDE DEF S
  <2>. QED BY Meets
<1>t. /\ stage \in [Procs -> Stages] /\ server \in [Procs -> Procs \union {NoProc}]
      /\ listening \subseteq master /\ master \subseteq Procs
  BY DEF IpcInv, IpcTypeOK
<1>1. IpcTypeOK'
  BY <1>m, <1>t, ProcsAssumption
     DEF IpcInv, BecomeClient, IpcTypeOK, Stages, Situations, Goes, KeepMessages,
         Starting, Ending, Looping
<1>2. Linked'
  BY <1>m, <1>t, ProcsAssumption
     DEF IpcInv, BecomeClient, IpcTypeOK, Linked, Goes, KeepMessages, Starting, Ending,
         Looping
<1>3. Connections'
  <2>1. \A q \in Procs : (stage[q] = "send" => server[q] # NoProc)'
    BY <1>t, ProcsAssumption DEF IpcInv, Connections, BecomeClient, Goes
  <2>2. ASSUME NEW q \in Procs, NEW s \in Procs, server'[q] = s
        PROVE  Connected(q, s)'
    BY <2>2, <1>m, <1>t, ProcsAssumption
       DEF IpcInv, Connections, Connected, Linked, BecomeClient, Goes, Starting, Ending,
           Looping
  <2>. QED BY <2>1, <2>2 DEF Connections
<1>4. Progress'
  BY <1>m, <1>t, ProcsAssumption
     DEF IpcInv, BecomeClient, IpcTypeOK, Connections, Progress, Goes, KeepMessages,
         Starting, Ending, Looping
<1>5. DroppedWithoutWindow'
  BY <1>m, <1>t, ProcsAssumption
     DEF IpcInv, BecomeClient, IpcTypeOK, Connections, DroppedWithoutWindow, Connected,
         Goes, KeepMessages, Starting, Ending, Looping
<1>6. Exclusive'
  <2>. SUFFICES ASSUME "overlap" \notin met'
                PROVE  Alone'
    BY <1>m DEF IpcInv, Exclusive
  <2>1. "overlap" \notin met /\ ~Overlap /\ ~Overlap' /\ Alone
    BY <1>m DEF IpcInv, Exclusive
  <2>2. CASE path \in listening
    <3>1. stage' = [stage EXCEPT ![p] = "send"] /\ UNCHANGED <<path, listening>>
      BY <2>2 DEF BecomeClient, Goes
    <3>2. \A q \in Procs : Serves(q)' <=> Serves(q)
      BY <1>t, <3>1 DEF BecomeClient, Goes, Serves, Looping
    <3>. QED BY <1>t, <2>1, <3>1, <3>2 DEF Alone, Ending, Looping
  <2>3. CASE path \notin listening
    <3>1. stage' = [stage EXCEPT ![p] = "unlink"] /\ UNCHANGED <<path, listening>>
      BY <2>3 DEF BecomeClient, Goes
    <3>2. \A q \in Procs : ~Serves(q) /\ ~Serves(q)'
      BY <2>3, <3>1 DEF Serves
    <3>. QED BY <1>t, <2>1, <3>1, <3>2 DEF BecomeClient, Goes, Alone, Ending, Looping
  <2>. QED BY <2>2, <2>3
<1>. QED BY <1>1, <1>2, <1>3, <1>4, <1>5, <1>6 DEF IpcInv

LEMMA IpcUnlinkInv ==
    ASSUME IpcInv, NEW p \in Procs, IpcUnlink(p)
    PROVE  IpcInv'
<1>0. want \in [Procs -> Nat]
  BY WantsAssumption DEF IpcInv, IpcTypeOK
<1>m. /\ met \subseteq met' /\ met' \subseteq met \union {"overlap"}
      /\ "overlap" \notin met' => "overlap" \notin met /\ ~Overlap'
  BY Meets DEF IpcUnlink
<1>t. /\ stage \in [Procs -> Stages] /\ server \in [Procs -> Procs \union {NoProc}]
      /\ listening \subseteq master /\ master \subseteq Procs
  BY DEF IpcInv, IpcTypeOK
<1>1. IpcTypeOK'
  BY <1>m, <1>t, ProcsAssumption
     DEF IpcInv, IpcUnlink, IpcTypeOK, Stages, Situations, Goes, KeepMessages, Starting,
         Ending, Looping
<1>2. Linked'
  BY <1>m, <1>t, ProcsAssumption
     DEF IpcInv, IpcUnlink, IpcTypeOK, Linked, Goes, KeepMessages, Starting, Ending,
         Looping
<1>3. Connections'
  <2>1. \A q \in Procs : (stage[q] = "send" => server[q] # NoProc)'
    BY <1>t, ProcsAssumption DEF IpcInv, Connections, IpcUnlink, Goes
  <2>2. ASSUME NEW q \in Procs, NEW s \in Procs, server'[q] = s
        PROVE  Connected(q, s)'
    BY <2>2, <1>m, <1>t, ProcsAssumption
       DEF IpcInv, Connections, Connected, Linked, IpcUnlink, Goes, Starting, Ending,
           Looping
  <2>. QED BY <2>1, <2>2 DEF Connections
<1>4. Progress'
  BY <1>m, <1>t, ProcsAssumption
     DEF IpcInv, IpcUnlink, IpcTypeOK, Connections, Progress, Goes, KeepMessages,
         Starting, Ending, Looping
<1>5. DroppedWithoutWindow'
  BY <1>m, <1>t, ProcsAssumption
     DEF IpcInv, IpcUnlink, IpcTypeOK, Connections, DroppedWithoutWindow, Connected,
         Goes, KeepMessages, Starting, Ending, Looping
<1>6. Exclusive'
  <2>. SUFFICES ASSUME "overlap" \notin met'
                PROVE  Alone'
    BY <1>m DEF IpcInv, Exclusive
  <2>1. "overlap" \notin met /\ ~Overlap /\ ~Overlap' /\ Alone
    BY <1>m DEF IpcInv, Exclusive
  <2>. QED BY <2>1, <1>t, ProcsAssumption
     DEF IpcInv, Linked, Alone, Overlap, Serves, IpcUnlink, Goes, Starting, Ending,
         Looping
<1>. QED BY <1>1, <1>2, <1>3, <1>4, <1>5, <1>6 DEF IpcInv

LEMMA BecomeServerInv ==
    ASSUME IpcInv, NEW p \in Procs, BecomeServer(p)
    PROVE  IpcInv'
<1>0. want \in [Procs -> Nat]
  BY WantsAssumption DEF IpcInv, IpcTypeOK
<1>m. /\ met \subseteq met' /\ met' \subseteq met \union {"overlap"}
      /\ "overlap" \notin met' => "overlap" \notin met /\ ~Overlap'
  BY Meets DEF BecomeServer
<1>t. /\ stage \in [Procs -> Stages] /\ server \in [Procs -> Procs \union {NoProc}]
      /\ listening \subseteq master /\ master \subseteq Procs
  BY DEF IpcInv, IpcTypeOK
<1>1. IpcTypeOK'
  BY <1>m, <1>t, ProcsAssumption
     DEF IpcInv, BecomeServer, IpcTypeOK, Stages, Situations, Goes, KeepMessages,
         Starting, Ending, Looping
<1>2. Linked'
  BY <1>m, <1>t, ProcsAssumption
     DEF IpcInv, BecomeServer, IpcTypeOK, Linked, Goes, KeepMessages, Starting, Ending,
         Looping
<1>3. Connections'
  <2>1. \A q \in Procs : (stage[q] = "send" => server[q] # NoProc)'
    BY <1>t, ProcsAssumption DEF IpcInv, Connections, BecomeServer, Goes
  <2>2. ASSUME NEW q \in Procs, NEW s \in Procs, server'[q] = s
        PROVE  Connected(q, s)'
    BY <2>2, <1>m, <1>t, ProcsAssumption
       DEF IpcInv, Connections, Connected, Linked, BecomeServer, Goes, Starting, Ending,
           Looping
  <2>. QED BY <2>1, <2>2 DEF Connections
<1>4. Progress'
  BY <1>m, <1>t, ProcsAssumption
     DEF IpcInv, BecomeServer, IpcTypeOK, Connections, Progress, Goes, KeepMessages,
         Starting, Ending, Looping
<1>5. DroppedWithoutWindow'
  BY <1>m, <1>t, ProcsAssumption
     DEF IpcInv, BecomeServer, IpcTypeOK, Connections, DroppedWithoutWindow, Connected,
         Goes, KeepMessages, Starting, Ending, Looping
<1>6. Exclusive'
  <2>. SUFFICES ASSUME "overlap" \notin met'
                PROVE  Alone'
    BY <1>m DEF IpcInv, Exclusive
  <2>1. "overlap" \notin met /\ ~Overlap /\ ~Overlap' /\ Alone
    BY <1>m DEF IpcInv, Exclusive
  <2>. QED BY <2>1, <1>t, ProcsAssumption
     DEF IpcInv, Linked, Alone, Overlap, Serves, BecomeServer, Goes, Starting, Ending,
         Looping
<1>. QED BY <1>1, <1>2, <1>3, <1>4, <1>5, <1>6 DEF IpcInv

LEMMA ListenInv ==
    ASSUME IpcInv, NEW p \in Procs, Listen(p)
    PROVE  IpcInv'
<1>0. want \in [Procs -> Nat]
  BY WantsAssumption DEF IpcInv, IpcTypeOK
<1>m. /\ met \subseteq met' /\ met' \subseteq met \union {"overlap"}
      /\ "overlap" \notin met' => "overlap" \notin met /\ ~Overlap'
  BY Meets DEF Listen
<1>t. /\ stage \in [Procs -> Stages] /\ server \in [Procs -> Procs \union {NoProc}]
      /\ listening \subseteq master /\ master \subseteq Procs
  BY DEF IpcInv, IpcTypeOK
<1>1. IpcTypeOK'
  BY <1>m, <1>t, ProcsAssumption
     DEF IpcInv, Listen, IpcTypeOK, Stages, Situations, Goes, KeepMessages, Starting,
         Ending, Looping
<1>2. Linked'
  BY <1>m, <1>t, ProcsAssumption
     DEF IpcInv, Listen, IpcTypeOK, Linked, Goes, KeepMessages, Starting, Ending,
         Looping
<1>3. Connections'
  <2>1. \A q \in Procs : (stage[q] = "send" => server[q] # NoProc)'
    BY <1>t, ProcsAssumption DEF IpcInv, Connections, Listen, Goes
  <2>2. ASSUME NEW q \in Procs, NEW s \in Procs, server'[q] = s
        PROVE  Connected(q, s)'
    BY <2>2, <1>m, <1>t, ProcsAssumption
       DEF IpcInv, Connections, Connected, Linked, Listen, Goes, Starting, Ending,
           Looping
  <2>. QED BY <2>1, <2>2 DEF Connections
<1>4. Progress'
  BY <1>m, <1>t, ProcsAssumption
     DEF IpcInv, Listen, IpcTypeOK, Connections, Progress, Goes, KeepMessages, Starting,
         Ending, Looping
<1>5. DroppedWithoutWindow'
  BY <1>m, <1>t, ProcsAssumption
     DEF IpcInv, Listen, IpcTypeOK, Connections, DroppedWithoutWindow, Connected, Goes,
         KeepMessages, Starting, Ending, Looping
<1>6. Exclusive'
  <2>. SUFFICES ASSUME "overlap" \notin met'
                PROVE  Alone'
    BY <1>m DEF IpcInv, Exclusive
  <2>1. "overlap" \notin met /\ ~Overlap /\ ~Overlap' /\ Alone
    BY <1>m DEF IpcInv, Exclusive
  <2>. QED BY <2>1, <1>t, ProcsAssumption
     DEF IpcInv, Linked, Alone, Overlap, Serves, Listen, Goes, Starting, Ending, Looping
<1>. QED BY <1>1, <1>2, <1>3, <1>4, <1>5, <1>6 DEF IpcInv

LEMMA SendMessageInv ==
    ASSUME IpcInv, NEW p \in Procs, SendMessage(p)
    PROVE  IpcInv'
<1>0. want \in [Procs -> Nat]
  BY WantsAssumption DEF IpcInv, IpcTypeOK
<1>m. /\ met \subseteq met' /\ met' \subseteq met \union {"overlap"}
      /\ "overlap" \notin met' => "overlap" \notin met /\ (Overlap' <=> Overlap)
  BY DEF SendMessage, Overlap, Serves
<1>t. /\ stage \in [Procs -> Stages] /\ server \in [Procs -> Procs \union {NoProc}]
      /\ listening \subseteq master /\ master \subseteq Procs
  BY DEF IpcInv, IpcTypeOK
<1>1. IpcTypeOK'
  <2>1. sent \in [Procs -> Nat] /\ \A q \in Procs : sent[q] <= want[q]
    BY DEF IpcInv, IpcTypeOK
  <2>2. sent' \in [Procs -> Nat] /\ \A q \in Procs : sent'[q] <= want[q]
    BY <1>0, <2>1 DEF SendMessage
  <2>. QED BY <1>0, <1>m, <1>t, <2>2 DEF IpcInv, IpcTypeOK, Stages, SendMessage, Looping
<1>2. Linked'
  BY <1>m, <1>t, ProcsAssumption
     DEF IpcInv, SendMessage, IpcTypeOK, Linked, Starting, Ending, Looping
<1>3. Connections'
  <2>1. \A q \in Procs : (stage[q] = "send" => server[q] # NoProc)'
    BY <1>t, ProcsAssumption DEF IpcInv, Connections, SendMessage
  <2>2. ASSUME NEW q \in Procs, NEW s \in Procs, server'[q] = s
        PROVE  Connected(q, s)'
    BY <2>2, <1>m, <1>t, ProcsAssumption
       DEF IpcInv, Connections, Connected, Linked, SendMessage, Starting, Ending,
           Looping
  <2>. QED BY <2>1, <2>2 DEF Connections
<1>4. Progress'
  BY <1>m, <1>t, ProcsAssumption
     DEF IpcInv, SendMessage, IpcTypeOK, Connections, Progress, Starting, Ending,
         Looping
<1>5. DroppedWithoutWindow'
  BY <1>m, <1>t, ProcsAssumption
     DEF IpcInv, SendMessage, IpcTypeOK, Connections, DroppedWithoutWindow, Connected,
         Starting, Ending, Looping
<1>6. Exclusive'
  <2>. SUFFICES ASSUME "overlap" \notin met'
                PROVE  Alone'
    BY <1>m DEF IpcInv, Exclusive
  <2>1. "overlap" \notin met /\ ~Overlap /\ ~Overlap' /\ Alone
    BY <1>m DEF IpcInv, Exclusive
  <2>. QED BY <2>1, <1>t, ProcsAssumption
     DEF IpcInv, Linked, Alone, Overlap, Serves, SendMessage, Starting, Ending, Looping
<1>. QED BY <1>1, <1>2, <1>3, <1>4, <1>5, <1>6 DEF IpcInv

LEMMA AllSentInv ==
    ASSUME IpcInv, NEW p \in Procs, AllSent(p)
    PROVE  IpcInv'
<1>0. want \in [Procs -> Nat]
  BY WantsAssumption DEF IpcInv, IpcTypeOK
<1>m. /\ met \subseteq met' /\ met' \subseteq met \union {"overlap"}
      /\ "overlap" \notin met' => "overlap" \notin met /\ ~Overlap'
  BY Meets DEF AllSent
<1>t. /\ stage \in [Procs -> Stages] /\ server \in [Procs -> Procs \union {NoProc}]
      /\ listening \subseteq master /\ master \subseteq Procs
  BY DEF IpcInv, IpcTypeOK
<1>1. IpcTypeOK'
  BY <1>m, <1>t, ProcsAssumption
     DEF IpcInv, AllSent, IpcTypeOK, Stages, Situations, Goes, KeepMessages, Starting,
         Ending, Looping
<1>2. Linked'
  BY <1>m, <1>t, ProcsAssumption
     DEF IpcInv, AllSent, IpcTypeOK, Linked, Goes, KeepMessages, Starting, Ending,
         Looping
<1>3. Connections'
  <2>1. \A q \in Procs : (stage[q] = "send" => server[q] # NoProc)'
    BY <1>t, ProcsAssumption DEF IpcInv, Connections, AllSent, Goes
  <2>2. ASSUME NEW q \in Procs, NEW s \in Procs, server'[q] = s
        PROVE  Connected(q, s)'
    BY <2>2, <1>m, <1>t, ProcsAssumption
       DEF IpcInv, Connections, Connected, Linked, AllSent, Goes, Starting, Ending,
           Looping
  <2>. QED BY <2>1, <2>2 DEF Connections
<1>4. Progress'
  BY <1>m, <1>t, ProcsAssumption
     DEF IpcInv, AllSent, IpcTypeOK, Connections, Progress, Goes, KeepMessages,
         Starting, Ending, Looping
<1>5. DroppedWithoutWindow'
  BY <1>m, <1>t, ProcsAssumption
     DEF IpcInv, AllSent, IpcTypeOK, Connections, DroppedWithoutWindow, Connected, Goes,
         KeepMessages, Starting, Ending, Looping
<1>6. Exclusive'
  <2>. SUFFICES ASSUME "overlap" \notin met'
                PROVE  Alone'
    BY <1>m DEF IpcInv, Exclusive
  <2>1. "overlap" \notin met /\ ~Overlap /\ ~Overlap' /\ Alone
    BY <1>m DEF IpcInv, Exclusive
  <2>. QED BY <2>1, <1>t, ProcsAssumption
     DEF IpcInv, Linked, Alone, Overlap, Serves, AllSent, Goes, Starting, Ending,
         Looping
<1>. QED BY <1>1, <1>2, <1>3, <1>4, <1>5, <1>6 DEF IpcInv

LEMMA HandleMessageInv ==
    ASSUME IpcInv, NEW p \in Procs, NEW c \in Procs, HandleMessage(p, c)
    PROVE  IpcInv'
<1>0. want \in [Procs -> Nat]
  BY WantsAssumption DEF IpcInv, IpcTypeOK
<1>m. /\ met \subseteq met' /\ met' \subseteq met \union {"overlap"}
      /\ "overlap" \notin met' => "overlap" \notin met /\ (Overlap' <=> Overlap)
  BY DEF HandleMessage, Overlap, Serves
<1>t. /\ stage \in [Procs -> Stages] /\ server \in [Procs -> Procs \union {NoProc}]
      /\ listening \subseteq master /\ master \subseteq Procs
  BY DEF IpcInv, IpcTypeOK
<1>1. IpcTypeOK'
  <2>1. /\ taken \in [Procs -> Nat] /\ sent \in [Procs -> Nat]
        /\ \A q \in Procs : taken[q] <= want[q] /\ sent[q] <= want[q]
    BY DEF IpcInv, IpcTypeOK
  <2>2. taken' \in [Procs -> Nat] /\ \A q \in Procs : taken'[q] <= want[q]
    BY <1>0, <2>1 DEF HandleMessage
  <2>3. reading' \in [Procs -> Procs \union {NoProc}]
    BY DEF IpcInv, IpcTypeOK, HandleMessage
  <2>. QED BY <1>m, <1>t, <2>1, <2>2, <2>3 DEF IpcInv, IpcTypeOK, HandleMessage
<1>2. Linked'
  BY <1>m, <1>t, ProcsAssumption
     DEF IpcInv, HandleMessage, IpcTypeOK, Linked, MayRead, Starting, Ending, Looping
<1>3. Connections'
  <2>1. \A q \in Procs : (stage[q] = "send" => server[q] # NoProc)'
    BY <1>t, ProcsAssumption DEF IpcInv, Connections, HandleMessage
  <2>2. ASSUME NEW q \in Procs, NEW s \in Procs, server'[q] = s
        PROVE  Connected(q, s)'
    BY <2>2, <1>m, <1>t, ProcsAssumption
       DEF IpcInv, Connections, Connected, Linked, HandleMessage, Starting, Ending,
           Looping
  <2>. QED BY <2>1, <2>2 DEF Connections
<1>4. Progress'
  BY <1>m, <1>t, ProcsAssumption
     DEF IpcInv, HandleMessage, IpcTypeOK, Connections, Progress, MayRead, Starting,
         Ending, Looping
<1>5. DroppedWithoutWindow'
  BY <1>m, <1>t, ProcsAssumption
     DEF IpcInv, HandleMessage, IpcTypeOK, Connections, DroppedWithoutWindow, Connected,
         MayRead, Starting, Ending, Looping
<1>6. Exclusive'
  <2>. SUFFICES ASSUME "overlap" \notin met'
                PROVE  Alone'
    BY <1>m DEF IpcInv, Exclusive
  <2>1. "overlap" \notin met /\ ~Overlap /\ ~Overlap' /\ Alone
    BY <1>m DEF IpcInv, Exclusive
  <2>. QED BY <2>1, <1>t, ProcsAssumption
     DEF IpcInv, Linked, Alone, Overlap, Serves, HandleMessage, Starting, Ending,
         Looping
<1>. QED BY <1>1, <1>2, <1>3, <1>4, <1>5, <1>6 DEF IpcInv

LEMMA SocketEofInv ==
    ASSUME IpcInv, NEW p \in Procs, NEW c \in Procs, SocketEof(p, c)
    PROVE  IpcInv'
<1>0. want \in [Procs -> Nat]
  BY WantsAssumption DEF IpcInv, IpcTypeOK
<1>m. /\ met \subseteq met' /\ met' \subseteq met \union {"overlap"}
      /\ "overlap" \notin met' => "overlap" \notin met /\ (Overlap' <=> Overlap)
  BY DEF SocketEof, Overlap, Serves
<1>t. /\ stage \in [Procs -> Stages] /\ server \in [Procs -> Procs \union {NoProc}]
      /\ listening \subseteq master /\ master \subseteq Procs
  BY DEF IpcInv, IpcTypeOK
<1>1. IpcTypeOK'
  BY <1>m, <1>t, ProcsAssumption
     DEF IpcInv, SocketEof, IpcTypeOK, Stages, Situations, MayRead, Starting, Ending,
         Looping
<1>2. Linked'
  BY <1>m, <1>t, ProcsAssumption
     DEF IpcInv, SocketEof, IpcTypeOK, Linked, MayRead, Starting, Ending, Looping
<1>3. Connections'
  <2>1. \A q \in Procs : (stage[q] = "send" => server[q] # NoProc)'
    BY <1>t, ProcsAssumption DEF IpcInv, Connections, SocketEof, MayRead
  <2>2. ASSUME NEW q \in Procs, NEW s \in Procs, server'[q] = s
        PROVE  Connected(q, s)'
    BY <2>2, <1>m, <1>t, ProcsAssumption
       DEF IpcInv, Connections, Connected, Linked, SocketEof, MayRead, Starting, Ending,
           Looping
  <2>. QED BY <2>1, <2>2 DEF Connections
<1>4. Progress'
  BY <1>m, <1>t, ProcsAssumption
     DEF IpcInv, SocketEof, IpcTypeOK, Connections, Progress, MayRead, Starting, Ending,
         Looping
<1>5. DroppedWithoutWindow'
  BY <1>m, <1>t, ProcsAssumption
     DEF IpcInv, SocketEof, IpcTypeOK, Connections, DroppedWithoutWindow, Connected,
         MayRead, Starting, Ending, Looping
<1>6. Exclusive'
  <2>. SUFFICES ASSUME "overlap" \notin met'
                PROVE  Alone'
    BY <1>m DEF IpcInv, Exclusive
  <2>1. "overlap" \notin met /\ ~Overlap /\ ~Overlap' /\ Alone
    BY <1>m DEF IpcInv, Exclusive
  <2>. QED BY <2>1, <1>t, ProcsAssumption
     DEF IpcInv, Linked, Alone, Overlap, Serves, SocketEof, Starting, Ending, Looping
<1>. QED BY <1>1, <1>2, <1>3, <1>4, <1>5, <1>6 DEF IpcInv

LEMMA CreateMainInv ==
    ASSUME IpcInv, NEW p \in Procs, CreateMain(p)
    PROVE  IpcInv'
<1>0. want \in [Procs -> Nat]
  BY WantsAssumption DEF IpcInv, IpcTypeOK
<1>m. /\ met \subseteq met' /\ met' \subseteq met \union {"overlap"}
      /\ "overlap" \notin met' => "overlap" \notin met /\ ~Overlap'
  BY Meets DEF CreateMain
<1>t. /\ stage \in [Procs -> Stages] /\ server \in [Procs -> Procs \union {NoProc}]
      /\ listening \subseteq master /\ master \subseteq Procs
  BY DEF IpcInv, IpcTypeOK
<1>1. IpcTypeOK'
  BY <1>m, <1>t, ProcsAssumption
     DEF IpcInv, CreateMain, IpcTypeOK, Stages, Situations, Goes, KeepMessages, Free,
         Starting, Ending, Looping
<1>2. Linked'
  BY <1>m, <1>t, ProcsAssumption
     DEF IpcInv, CreateMain, IpcTypeOK, Linked, Goes, KeepMessages, Free, Starting,
         Ending, Looping
<1>3. Connections'
  <2>1. \A q \in Procs : (stage[q] = "send" => server[q] # NoProc)'
    BY <1>t, ProcsAssumption DEF IpcInv, Connections, CreateMain, Goes
  <2>2. ASSUME NEW q \in Procs, NEW s \in Procs, server'[q] = s
        PROVE  Connected(q, s)'
    BY <2>2, <1>m, <1>t, ProcsAssumption
       DEF IpcInv, Connections, Connected, Linked, CreateMain, Goes, Starting, Ending,
           Looping
  <2>. QED BY <2>1, <2>2 DEF Connections
<1>4. Progress'
  BY <1>m, <1>t, ProcsAssumption
     DEF IpcInv, CreateMain, IpcTypeOK, Connections, Progress, Goes, KeepMessages, Free,
         Starting, Ending, Looping
<1>5. DroppedWithoutWindow'
  BY <1>m, <1>t, ProcsAssumption
     DEF IpcInv, CreateMain, IpcTypeOK, Connections, DroppedWithoutWindow, Connected,
         Goes, KeepMessages, Free, Starting, Ending, Looping
<1>6. Exclusive'
  <2>. SUFFICES ASSUME "overlap" \notin met'
                PROVE  Alone'
    BY <1>m DEF IpcInv, Exclusive
  <2>1. "overlap" \notin met /\ ~Overlap /\ ~Overlap' /\ Alone
    BY <1>m DEF IpcInv, Exclusive
  <2>. QED BY <2>1, <1>t, ProcsAssumption
     DEF IpcInv, Linked, Alone, Overlap, Serves, CreateMain, Goes, Starting, Ending,
         Looping
<1>. QED BY <1>1, <1>2, <1>3, <1>4, <1>5, <1>6 DEF IpcInv

LEMMA OpenFilenamesInv ==
    ASSUME IpcInv, NEW p \in Procs, OpenFilenames(p)
    PROVE  IpcInv'
<1>0. want \in [Procs -> Nat]
  BY WantsAssumption DEF IpcInv, IpcTypeOK
<1>m. /\ met \subseteq met' /\ met' \subseteq met \union {"overlap"}
      /\ "overlap" \notin met' => "overlap" \notin met /\ ~Overlap'
  BY Meets DEF OpenFilenames
<1>t. /\ stage \in [Procs -> Stages] /\ server \in [Procs -> Procs \union {NoProc}]
      /\ listening \subseteq master /\ master \subseteq Procs
  BY DEF IpcInv, IpcTypeOK
<1>1. IpcTypeOK'
  <2>1. /\ taken \in [Procs -> Nat] /\ sent \in [Procs -> Nat]
        /\ \A q \in Procs : taken[q] <= want[q] /\ sent[q] <= want[q]
    BY DEF IpcInv, IpcTypeOK
  <2>2. taken' \in [Procs -> Nat] /\ \A q \in Procs : taken'[q] <= want[q]
    BY <1>0, <2>1 DEF OpenFilenames
  <2>3. stage' \in [Procs -> Stages] /\ met' \subseteq Situations
    BY <1>m, <1>t DEF IpcInv, IpcTypeOK, OpenFilenames, Goes, Stages, Looping, Situations
  <2>. QED BY <1>t, <2>1, <2>2, <2>3 DEF IpcInv, IpcTypeOK, OpenFilenames
<1>2. Linked'
  BY <1>m, <1>t, ProcsAssumption
     DEF IpcInv, OpenFilenames, IpcTypeOK, Linked, Goes, Free, Starting, Ending, Looping
<1>3. Connections'
  <2>1. \A q \in Procs : (stage[q] = "send" => server[q] # NoProc)'
    BY <1>t, ProcsAssumption DEF IpcInv, Connections, OpenFilenames, Goes
  <2>2. ASSUME NEW q \in Procs, NEW s \in Procs, server'[q] = s
        PROVE  Connected(q, s)'
    BY <2>2, <1>m, <1>t, ProcsAssumption
       DEF IpcInv, Connections, Connected, Linked, OpenFilenames, Goes, Starting,
           Ending, Looping
  <2>. QED BY <2>1, <2>2 DEF Connections
<1>4. Progress'
  BY <1>m, <1>t, ProcsAssumption
     DEF IpcInv, OpenFilenames, IpcTypeOK, Connections, Progress, Goes, Free, Starting,
         Ending, Looping
<1>5. DroppedWithoutWindow'
  BY <1>m, <1>t, ProcsAssumption
     DEF IpcInv, OpenFilenames, IpcTypeOK, Connections, DroppedWithoutWindow, Connected,
         Goes, Free, Starting, Ending, Looping
<1>6. Exclusive'
  <2>. SUFFICES ASSUME "overlap" \notin met'
                PROVE  Alone'
    BY <1>m DEF IpcInv, Exclusive
  <2>1. "overlap" \notin met /\ ~Overlap /\ ~Overlap' /\ Alone
    BY <1>m DEF IpcInv, Exclusive
  <2>. QED BY <2>1, <1>t, ProcsAssumption
     DEF IpcInv, Linked, Alone, Overlap, Serves, OpenFilenames, Goes, Starting, Ending,
         Looping
<1>. QED BY <1>1, <1>2, <1>3, <1>4, <1>5, <1>6 DEF IpcInv

LEMMA MainQuitInv ==
    ASSUME IpcInv, NEW p \in Procs, MainQuit(p)
    PROVE  IpcInv'
<1>0. want \in [Procs -> Nat]
  BY WantsAssumption DEF IpcInv, IpcTypeOK
<1>. DEFINE S == IF Clients(p) # {} THEN {"no main loop"} ELSE {}
<1>m. /\ met \subseteq met' /\ S \subseteq met' /\ met' \subseteq met \union S \union {"overlap"}
      /\ "overlap" \notin met' => "overlap" \notin met /\ ~Overlap'
  <2>. Meeting(S)
    BY DEF MainQuit
  <2>. HIDE DEF S
  <2>. QED BY Meets
<1>t. /\ stage \in [Procs -> Stages] /\ server \in [Procs -> Procs \union {NoProc}]
      /\ listening \subseteq master /\ master \subseteq Procs
  BY DEF IpcInv, IpcTypeOK
<1>1. IpcTypeOK'
  BY <1>m, <1>t, ProcsAssumption
     DEF IpcInv, MainQuit, IpcTypeOK, Stages, Situations, Goes, KeepMessages, Starting,
         Ending, Looping
<1>2. Linked'
  BY <1>m, <1>t, ProcsAssumption
     DEF IpcInv, MainQuit, IpcTypeOK, Linked, Goes, KeepMessages, Starting, Ending,
         Looping
<1>3. Connections'
  <2>1. \A q \in Procs : (stage[q] = "send" => server[q] # NoProc)'
    BY <1>t, ProcsAssumption DEF IpcInv, Connections, MainQuit, Goes
  <2>2. ASSUME NEW q \in Procs, NEW s \in Procs, server'[q] = s
        PROVE  Connected(q, s)'
    BY <2>2, <1>m, <1>t, ProcsAssumption
       DEF IpcInv, Connections, Connected, Linked, MainQuit, Goes, Starting, Ending,
           Looping, Clients
  <2>. QED BY <2>1, <2>2 DEF Connections
<1>4. Progress'
  <2>1. stage[p] = "running" /\ server[p] = NoProc
    BY <1>t, ProcsAssumption DEF MainQuit, Goes, IpcInv, Connections, Connected
  <2>. QED BY <1>t, <2>1 DEF IpcInv, Progress, MainQuit, Goes, KeepMessages, Ending
<1>5. DroppedWithoutWindow'
  BY <1>m, <1>t, ProcsAssumption
     DEF IpcInv, MainQuit, IpcTypeOK, Connections, DroppedWithoutWindow, Connected,
         Goes, KeepMessages, Starting, Ending, Looping
<1>6. Exclusive'
  <2>. SUFFICES ASSUME "overlap" \notin met'
                PROVE  Alone'
    BY <1>m DEF IpcInv, Exclusive
  <2>1. "overlap" \notin met /\ ~Overlap /\ ~Overlap' /\ Alone
    BY <1>m DEF IpcInv, Exclusive
  <2>2. Serves(p)
    BY <2>1 DEF Alone, MainQuit, Goes, Looping
  <2>3. /\ stage' = [stage EXCEPT ![p] = "shutdown"] /\ UNCHANGED <<path, listening>>
        /\ path = p /\ stage[p] = "running"
    BY <1>t, <2>2 DEF MainQuit, Goes, Serves
  <2>4. \A q \in Procs : q # p =>
            stage[q] \notin Looping \union {"unlink", "bind", "listen"} \union Ending
    BY <2>1, <2>2, <2>3 DEF Alone, Serves
  <2>5. \A q \in Procs : ~Serves(q)'
    BY <1>t, <2>3 DEF Serves, Looping
  <2>. QED BY <1>t, <2>3, <2>4, <2>5 DEF Alone, Ending, Looping
<1>. QED BY <1>1, <1>2, <1>3, <1>4, <1>5, <1>6 DEF IpcInv

LEMMA CleanupShutdownInv ==
    ASSUME IpcInv, NEW p \in Procs, CleanupShutdown(p)
    PROVE  IpcInv'
<1>0. want \in [Procs -> Nat]
  BY WantsAssumption DEF IpcInv, IpcTypeOK
<1>m. /\ met \subseteq met' /\ met' \subseteq met \union {"overlap"}
      /\ "overlap" \notin met' => "overlap" \notin met /\ ~Overlap'
  BY Meets DEF CleanupShutdown
<1>t. /\ stage \in [Procs -> Stages] /\ server \in [Procs -> Procs \union {NoProc}]
      /\ listening \subseteq master /\ master \subseteq Procs
  BY DEF IpcInv, IpcTypeOK
<1>1. IpcTypeOK'
  BY <1>m, <1>t, ProcsAssumption
     DEF IpcInv, CleanupShutdown, IpcTypeOK, Stages, Situations, Goes, KeepMessages,
         Starting, Ending, Looping
<1>2. Linked'
  BY <1>m, <1>t, ProcsAssumption
     DEF IpcInv, CleanupShutdown, IpcTypeOK, Linked, Goes, KeepMessages, Starting,
         Ending, Looping
<1>3. Connections'
  <2>1. \A q \in Procs : (stage[q] = "send" => server[q] # NoProc)'
    BY <1>t, ProcsAssumption DEF IpcInv, Connections, CleanupShutdown, Goes
  <2>2. ASSUME NEW q \in Procs, NEW s \in Procs, server'[q] = s
        PROVE  Connected(q, s)'
    BY <2>2, <1>m, <1>t, ProcsAssumption
       DEF IpcInv, Connections, Connected, Linked, CleanupShutdown, Goes, Starting,
           Ending, Looping
  <2>. QED BY <2>1, <2>2 DEF Connections
<1>4. Progress'
  BY <1>m, <1>t, ProcsAssumption
     DEF IpcInv, CleanupShutdown, IpcTypeOK, Connections, Progress, Goes, KeepMessages,
         Starting, Ending, Looping
<1>5. DroppedWithoutWindow'
  BY <1>m, <1>t, ProcsAssumption
     DEF IpcInv, CleanupShutdown, IpcTypeOK, Connections, DroppedWithoutWindow,
         Connected, Goes, KeepMessages, Starting, Ending, Looping
<1>6. Exclusive'
  <2>. SUFFICES ASSUME "overlap" \notin met'
                PROVE  Alone'
    BY <1>m DEF IpcInv, Exclusive
  <2>1. "overlap" \notin met /\ ~Overlap /\ ~Overlap' /\ Alone
    BY <1>m DEF IpcInv, Exclusive
  <2>. QED BY <2>1, <1>t, ProcsAssumption
     DEF IpcInv, Linked, Alone, Overlap, Serves, CleanupShutdown, Goes, Starting,
         Ending, Looping
<1>. QED BY <1>1, <1>2, <1>3, <1>4, <1>5, <1>6 DEF IpcInv

LEMMA CleanupUnlinkInv ==
    ASSUME IpcInv, NEW p \in Procs, CleanupUnlink(p)
    PROVE  IpcInv'
<1>0. want \in [Procs -> Nat]
  BY WantsAssumption DEF IpcInv, IpcTypeOK
<1>m. /\ met \subseteq met' /\ met' \subseteq met \union {"overlap"}
      /\ "overlap" \notin met' => "overlap" \notin met /\ ~Overlap'
  BY Meets DEF CleanupUnlink
<1>t. /\ stage \in [Procs -> Stages] /\ server \in [Procs -> Procs \union {NoProc}]
      /\ listening \subseteq master /\ master \subseteq Procs
  BY DEF IpcInv, IpcTypeOK
<1>1. IpcTypeOK'
  BY <1>m, <1>t, ProcsAssumption
     DEF IpcInv, CleanupUnlink, IpcTypeOK, Stages, Situations, Goes, KeepMessages,
         Starting, Ending, Looping
<1>2. Linked'
  BY <1>m, <1>t, ProcsAssumption
     DEF IpcInv, CleanupUnlink, IpcTypeOK, Linked, Goes, KeepMessages, Starting, Ending,
         Looping
<1>3. Connections'
  <2>1. \A q \in Procs : (stage[q] = "send" => server[q] # NoProc)'
    BY <1>t, ProcsAssumption DEF IpcInv, Connections, CleanupUnlink, Goes
  <2>2. ASSUME NEW q \in Procs, NEW s \in Procs, server'[q] = s
        PROVE  Connected(q, s)'
    BY <2>2, <1>m, <1>t, ProcsAssumption
       DEF IpcInv, Connections, Connected, Linked, CleanupUnlink, Goes, Starting,
           Ending, Looping
  <2>. QED BY <2>1, <2>2 DEF Connections
<1>4. Progress'
  <2>1. stage[p] = "remove" /\ server[p] = NoProc
    BY <1>t, ProcsAssumption DEF CleanupUnlink, Goes, IpcInv, Connections, Connected
  <2>. QED BY <1>t, <2>1 DEF IpcInv, Progress, CleanupUnlink, Goes, KeepMessages, Ending
<1>5. DroppedWithoutWindow'
  BY <1>m, <1>t, ProcsAssumption
     DEF IpcInv, CleanupUnlink, IpcTypeOK, Connections, DroppedWithoutWindow, Connected,
         Goes, KeepMessages, Starting, Ending, Looping
<1>6. Exclusive'
  <2>. SUFFICES ASSUME "overlap" \notin met'
                PROVE  Alone'
    BY <1>m DEF IpcInv, Exclusive
  <2>1. "overlap" \notin met /\ ~Overlap /\ ~Overlap' /\ Alone
    BY <1>m DEF IpcInv, Exclusive
  <2>. QED BY <2>1, <1>t, ProcsAssumption
     DEF IpcInv, Linked, Alone, Overlap, Serves, CleanupUnlink, Goes, Starting, Ending,
         Looping
<1>. QED BY <1>1, <1>2, <1>3, <1>4, <1>5, <1>6 DEF IpcInv

LEMMA KilledInv ==
    ASSUME IpcInv, NEW p \in Procs, Killed(p)
    PROVE  IpcInv'
<1>0. want \in [Procs -> Nat]
  BY WantsAssumption DEF IpcInv, IpcTypeOK
<1>. DEFINE S == IF Clients(p) # {} THEN {"killed server"} ELSE {}
<1>m. /\ met \subseteq met' /\ S \subseteq met' /\ met' \subseteq met \union S \union {"overlap"}
      /\ "overlap" \notin met' => "overlap" \notin met /\ ~Overlap'
  <2>. Meeting(S)
    BY DEF Killed
  <2>. HIDE DEF S
  <2>. QED BY Meets
<1>t. /\ stage \in [Procs -> Stages] /\ server \in [Procs -> Procs \union {NoProc}]
      /\ listening \subseteq master /\ master \subseteq Procs
  BY DEF IpcInv, IpcTypeOK
<1>1. IpcTypeOK'
  <2>1. kills' \in 0 .. MaxKills
    <3>1. kills < MaxKills /\ kills' = kills + 1
      BY DEF Killed
    <3>2. MaxKills \in Nat /\ kills \in 0 .. MaxKills
      BY WantsAssumption DEF IpcInv, IpcTypeOK
    <3>. QED BY <3>1, <3>2
  <2>2. stage' \in [Procs -> Stages] /\ reading' \in [Procs -> Procs \union {NoProc}]
    BY <1>t DEF IpcInv, IpcTypeOK, Killed, Stages
  <2>3. S \subseteq Situations
    BY DEF Situations
  <2>4. met' \subseteq Situations
    <3>. HIDE DEF S
    <3>. QED BY <1>m, <2>3 DEF IpcInv, IpcTypeOK, Situations
  <2>. QED BY <1>t, <2>1, <2>2, <2>4 DEF IpcInv, IpcTypeOK, Killed
<1>2. Linked'
  BY <1>m, <1>t, ProcsAssumption
     DEF IpcInv, Killed, IpcTypeOK, Linked, Starting, Ending, Looping
<1>3. Connections'
  <2>1. \A q \in Procs : (stage[q] = "send" => server[q] # NoProc)'
    BY <1>t, ProcsAssumption DEF IpcInv, Connections, Killed
  <2>2. ASSUME NEW q \in Procs, NEW s \in Procs, server'[q] = s
        PROVE  Connected(q, s)'
    BY <2>2, <1>m, <1>t, ProcsAssumption
       DEF IpcInv, Connections, Connected, Linked, Killed, Starting, Ending, Looping,
           Clients
  <2>. QED BY <2>1, <2>2 DEF Connections
<1>4. Progress'
  <2>1. kills' \in Nat \ {0}
    <3>1. kills < MaxKills /\ kills' = kills + 1
      BY DEF Killed
    <3>2. MaxKills \in Nat /\ kills \in 0 .. MaxKills
      BY WantsAssumption DEF IpcInv, IpcTypeOK
    <3>. QED BY <3>1, <3>2
  <2>. QED BY <1>t, <2>1 DEF IpcInv, Progress, Killed, Ending
<1>5. DroppedWithoutWindow'
  BY <1>m, <1>t, ProcsAssumption
     DEF IpcInv, Killed, IpcTypeOK, Connections, DroppedWithoutWindow, Connected,
         Starting, Ending, Looping
<1>6. Exclusive'
  <2>. SUFFICES ASSUME "overlap" \notin met'
                PROVE  Alone'
    BY <1>m DEF IpcInv, Exclusive
  <2>1. "overlap" \notin met /\ ~Overlap /\ ~Overlap' /\ Alone
    BY <1>m DEF IpcInv, Exclusive
  <2>2. /\ stage' = [stage EXCEPT ![p] = "gone"] /\ path' = path
        /\ listening' = listening \ {p}
    BY DEF Killed
  <2>3. \A q \in Procs : q # p => stage'[q] = stage[q] /\ (Serves(q)' <=> Serves(q))
    BY <1>t, <2>2 DEF Serves
  <2>4. stage'[p] = "gone" /\ ~Serves(p)'
    BY <1>t, <2>2 DEF Serves
  <2>. QED BY <2>1, <2>2, <2>3, <2>4 DEF Alone, Ending, Looping
<1>. QED BY <1>1, <1>2, <1>3, <1>4, <1>5, <1>6 DEF IpcInv

LEMMA NextIpcInv == IpcInv /\ [IpcNext]_ipcVars => IpcInv'
<1>. SUFFICES ASSUME IpcInv, [IpcNext]_ipcVars PROVE IpcInv'
  OBVIOUS
<1>1. CASE IpcNext
  <2>. PICK p \in Procs : Launch(p) \/ ProcessGoesOn(p) \/ MainQuit(p) \/ Killed(p)
    BY <1>1 DEF IpcNext
  <2>1. CASE ProcessGoesOn(p)
    BY <2>1, SocketIsValidInv, BecomeClientInv, IpcUnlinkInv, BecomeServerInv, ListenInv,
       SendMessageInv, AllSentInv, HandleMessageInv, SocketEofInv, CreateMainInv,
       OpenFilenamesInv, CleanupShutdownInv, CleanupUnlinkInv DEF ProcessGoesOn
  <2>. QED BY <2>1, LaunchInv, MainQuitInv, KilledInv
<1>2. CASE UNCHANGED ipcVars
  <2>. USE <1>2 DEF ipcVars
  <2>1. IpcTypeOK'
    BY DEF IpcInv, IpcTypeOK
  <2>2. Linked' /\ Connections' /\ Progress' /\ DroppedWithoutWindow'
    BY DEF IpcInv, Linked, Connections, Connected, Progress, DroppedWithoutWindow
  <2>3. Exclusive'
    BY DEF IpcInv, Exclusive, Alone, Overlap, Serves
  <2>. QED BY <2>1, <2>2, <2>3 DEF IpcInv
<1>. QED BY <1>1, <1>2

\* Several starts of the program end in one process that shows the files of all of them,
\* but for the situations listed.
THEOREM SpecIpcSound == IpcSpec => []IpcSound
<1>1. IpcInv => IpcSound
  <2>. SUFFICES ASSUME IpcInv PROVE OneInstance /\ FilesArrive
    BY DEF IpcInv, IpcSound
  <2>1. OneInstance
    BY DEF IpcInv, Exclusive, Alone, OneInstance, Serves
  <2>2. FilesArrive
    <3>. SUFFICES ASSUME NEW c \in Procs
                  PROVE  /\ \A i \in 1 .. want[c] : <<c, i>> \in dropped => "no window" \in met
                         /\ server[c] # NoProc /\ stage[server[c]] \notin Looping =>
                                met \intersect {"no main loop", "killed server"} # {}
                         /\ stage[c] = "gone" /\ taken[c] < want[c] =>
                                server[c] # NoProc \/ kills > 0
      BY DEF FilesArrive
    <3>1. \A i \in 1 .. want[c] : <<c, i>> \in dropped => "no window" \in met
      BY DEF IpcInv, DroppedWithoutWindow
    <3>2. server[c] # NoProc /\ stage[server[c]] \notin Looping =>
              met \intersect {"no main loop", "killed server"} # {}
      <4>1. server[c] \in Procs \union {NoProc}
        BY DEF IpcInv, IpcTypeOK
      <4>. QED BY <4>1 DEF IpcInv, Connections, Connected
    <3>3. stage[c] = "gone" /\ taken[c] < want[c] => server[c] # NoProc \/ kills > 0
      <4>1. kills \in Nat /\ taken[c] \in Nat /\ want[c] \in Nat
        BY WantsAssumption DEF IpcInv, IpcTypeOK
      <4>. QED BY <4>1 DEF IpcInv, Progress
    <3>. QED BY <3>1, <3>2, <3>3
  <2>. QED BY <2>1, <2>2
<1>. QED BY <1>1, InitIpcInv, NextIpcInv, PTL DEF IpcSpec

=============================================================================
