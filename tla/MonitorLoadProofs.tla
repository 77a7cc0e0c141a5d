-------------------------- MODULE MonitorLoadProofs ---------------------------
(***************************************************************************)
(* The loading phase, for every program, every capacity of the pipe, and   *)
(* whatever fails on the way.                                              *)
(*                                                                         *)
(* The argument: the packets in the pipe are those of the module the       *)
(* monitor is at, from the one after pkt on, followed at most by the BEGIN *)
(* of the next module, because the constructor waits for its identifier    *)
(* after BEGIN.  So the monitor sees the sections of one module in their   *)
(* order, fills the tables from that module alone, and both processes      *)
(* agree on how many of its initialisers are still to run.                 *)
(***************************************************************************)
EXTENDS MonitorLoadTables

(* The states in which monitor_load goes on, and those in which the tables *)
(* have to be whole: they are freed after an error too.                    *)
Stopped == {"failed", "free", "gone", "abort", "segv"}
Loading == mpc \notin Stopped
Whole == MonitorUp /\ (Loading \/ ~oom)
Alive == cpc \notin {"dead", "exited"}

(* Relocations lead to functions that exist. *)
Leads(r) == r.module \in T!ModuleIds /\ r.function \in T!FunctionIds(r.module)
TablesTyped ==
  nb_modules > 0 =>
    /\ modules \in [T!ModuleIds -> Module]
    /\ \A m \in T!ModuleIds : \A f \in T!FunctionIds(m) : Leads(modules[m].relocations[f])

(* The packets of the module the monitor is at. *)
Sent(m) == IF m = 0 THEN <<>> ELSE Packets(Image[m])
Expected(k) == IF k <= Len(Sent(nb_modules)) THEN Sent(nb_modules)[k] ELSE Marker("BEGIN")

(* The client: where it is in the module it sends. *)
ClientInv ==
  /\ Image \in Programs
  /\ cpc \in {"send", "id", "inits", "main", "exited", "dead"}
  /\ cmod \in 1 .. Len(Image) /\ cpos \in 1 .. Len(Packets(image)) + 1
  /\ cpc = "send" => cpos <= Len(Packets(image))
  /\ cpc = "id" => cpos = 2
  /\ cpc \in {"inits", "main"} => cpos = Len(Packets(image)) + 1
  /\ cpc \in {"inits", "main"} => cinits \subseteq InitFunctions(image)
  /\ cpc = "main" => cinits = {} /\ cmod = Len(Image)
  /\ cpc = "exited" => ~Loading

PipesInv ==
  /\ nb_modules \in 0 .. cmod
  /\ l2m \in Seq(Wire) /\ pkt \in Wire /\ i \in Nat
  /\ Len(l2m) <= PIPE_PACKETS
  /\ m2l \in Seq(Nat) /\ Len(m2l) <= 1 /\ inits \in Nat /\ oom \in BOOLEAN

(* The monitor has read the first r packets of the module it is at, and    *)
(* what the pipe holds comes after them.                                   *)
At(r) ==
  /\ r \in 0 .. Len(Sent(nb_modules))
  /\ IF nb_modules = 0 THEN mpc = "first"
     ELSE r > 0 /\ Same(pkt, Sent(nb_modules)[r])
  /\ \A x \in 1 .. Len(l2m) : Same(l2m[x], Expected(r + x))
  /\ cmod \in nb_modules .. nb_modules + 1
  /\ r + Len(l2m) <= Len(Sent(nb_modules)) + (cmod - nb_modules)
  /\ Alive =>
       IF cmod = nb_modules
       THEN /\ cpos >= 2 /\ r + Len(l2m) = cpos - 1
            /\ m2l # <<>> <=> cpc = "id"
       ELSE /\ cpos <= 2 /\ r + Len(l2m) = Len(Sent(nb_modules)) + cpos - 1
            /\ cpc = (IF cpos = 1 THEN "send" ELSE "id")
            /\ m2l = <<>>
InStep == \E r \in Nat : At(r)

(* The packet the monitor is at in each of its states. *)
ControlInv ==
  /\ mpc \in {"first", "sections", "entries", "relocate", "inits", "final", "loaded"}
  /\ mpc # "first" => nb_modules > 0
  /\ mpc = "first" => nb_modules = 0 \/ pkt.event = "END"
  /\ mpc = "sections" => pkt.event \notin {"END", "TERMINATED"}
  /\ mpc = "entries" => /\ pkt.event \notin {"BEGIN", "END", "TERMINATED"}
                        /\ i \in 1 .. Len(Entries) + 1
  /\ mpc = "entries" /\ pkt.event = "BLOCK_TRANSITION" =>
       pkt.value.f_id < modata.nb_functions
  /\ mpc \in {"relocate", "inits"} => pkt.event = "END"
  /\ mpc \in {"final", "loaded"} => pkt.event = "TERMINATED"
  /\ mpc = "final" => i \in 0 .. nb_modules

(* How many functions of module m the tables have been filled with, and    *)
(* that they are those of the module's constructor.                        *)
Filled(m) ==
  IF m < current THEN Len(Image[m + 1].fcts)
  ELSE IF pkt.event = "BEGIN" THEN 0
  ELSE IF pkt.event = "FUNCTION_ID" /\ mpc = "entries" THEN i - 1
  ELSE Len(Image[m + 1].fcts)
FilledFrom(d, fcts, n, named) ==
  /\ \A x \in 1 .. n :
       /\ fcts[x].f_id < d.nb_functions
       /\ d.functions[fcts[x].f_id].flags = fcts[x].f_flags
       /\ named => d.functions[fcts[x].f_id].name = fcts[x].f_name
  /\ d.nb_entrypoint_inits = Cardinality({x \in 1 .. n : fcts[x].f_flags = "FCT_INIT"})
FunctionsInv ==
  \A m \in T!ModuleIds :
    /\ modules[m].nb_functions =
         IF m = current /\ pkt.event = "BEGIN" THEN 0 ELSE Len(Image[m + 1].fcts)
    /\ m < current \/ pkt.event \notin {"BEGIN", "FUNCTION_ID"} => modules[m].nb_functions > 0
    /\ FilledFrom(modules[m], Image[m + 1].fcts, Filled(m), ~oom)

(* The initialisers of the module the monitor is at: those the client will *)
(* still call are as many as the monitor still expects.                    *)
Owed ==
  IF cmod # nb_modules THEN 0
  ELSE IF cpc \in {"send", "id"} THEN Cardinality(InitFunctions(image))
  ELSE Cardinality(cinits)
Expects ==
  CASE mpc \in {"sections", "entries", "relocate"} ->
         Cardinality(InitFunctions(Image[nb_modules]))
    [] mpc = "inits" -> inits
    [] OTHER -> 0

LoadInv ==
  /\ ClientInv /\ PipesInv
  /\ Whole => TablesTyped
  /\ mpc \in Stopped \cup {"first", "sections", "entries", "relocate", "inits", "final", "loaded"}
  /\ Loading => InStep /\ ControlInv /\ FunctionsInv
  /\ Loading /\ Alive => Owed = Expects
-----------------------------------------------------------------------------
(* Where the monitor is among the packets of a module. *)
LEMMA PktAt ==
  ASSUME ClientInv, PipesInv, NEW r \in Nat, At(r), nb_modules # 0
  PROVE  LET im == Image[nb_modules]
         IN /\ nb_modules \in 1 .. Len(Image) /\ Sent(nb_modules) = Packets(im)
            /\ r \in 1 .. Len(Packets(im))
            /\ pkt.event = "BEGIN" <=> r = 1
            /\ pkt.event = "FUNCTION_ID" <=> r = 2
            /\ pkt.event = "FUNCTION_TRANSITION" <=> r = 3
            /\ pkt.event \in {"BLOCK_TRANSITION", "BLOCK_IPD"} <=> r \in 4 .. EndAt(im) - 1
            /\ pkt.event = "END" <=> r = EndAt(im)
            /\ pkt.event = "TERMINATED" <=> r = EndAt(im) + 1
            /\ r = EndAt(im) + 1 => nb_modules = Len(Image)
            /\ r = 2 => pkt.value = im.fcts
            /\ r = 3 => pkt.value = im.trans
            /\ r \in 4 .. EndAt(im) - 1 => im.granularity_bb
            /\ pkt.event = "BLOCK_TRANSITION" =>
                 /\ pkt.value \in BbTable /\ r - 3 \in 1 .. Len(im.bbs)
                 /\ pkt.value = im.bbs[r - 3]
            /\ pkt.event = "BLOCK_IPD" => pkt.value = im.ipds /\ r = Len(im.bbs) + 4
<1>1. Image \in Programs /\ nb_modules \in 1 .. Len(Image)
  <2>1. Len(Image) \in Nat /\ Image \in Programs
    BY ImageFacts DEF ClientInv
  <2> QED
    BY <2>1 DEF ClientInv, PipesInv
<1>2. Sent(nb_modules) = Packets(Image[nb_modules])
  BY DEF Sent
<1>3. Len(Packets(Image[nb_modules])) \in Nat
  BY <1>1, PacketFacts
<1>4. r \in 1 .. Len(Packets(Image[nb_modules])) /\ Same(pkt, Packets(Image[nb_modules])[r])
  BY <1>2, <1>3 DEF At
<1> QED
  BY ONLY <1>1, <1>2, <1>4, EventAt
-----------------------------------------------------------------------------
(* The steps of the client. *)
LEMMA MonitorFrame ==
  ASSUME UNCHANGED <<Image, monitor>>
  PROVE  /\ Whole' <=> Whole
         /\ Loading' <=> Loading
         /\ TablesTyped' <=> TablesTyped
         /\ ControlInv' <=> ControlInv
         /\ FunctionsInv' <=> FunctionsInv
<1> USE DEF monitor, tables
<1>1. (Whole' <=> Whole) /\ (Loading' <=> Loading)
  BY DEF Whole, Loading, MonitorUp
<1>2. TablesTyped' <=> TablesTyped
  BY DEF TablesTyped, Leads, T!ModuleIds, T!FunctionIds
<1>3. ControlInv' <=> ControlInv
  BY DEF ControlInv, Entries, modata, current
<1>4. FunctionsInv' <=> FunctionsInv
  BY DEF FunctionsInv, FilledFrom, Filled, current, T!ModuleIds
<1> QED
  BY <1>1, <1>2, <1>3, <1>4

LEMMA ImageOfClient ==
  ASSUME ClientInv
  PROVE  /\ Image \in Programs /\ Len(Image) \in Nat \ {0} /\ cmod \in 1 .. Len(Image)
         /\ Packets(image) \in Seq(Wire) /\ Len(Packets(image)) \in Nat
         /\ Len(Packets(image)) >= 4
         /\ Packets(image)[1] = Marker("BEGIN")
<1>1. /\ Image \in Programs /\ Len(Image) \in Nat \ {0} /\ cmod \in 1 .. Len(Image)
  BY ImageFacts DEF ClientInv
<1>2. /\ Packets(Image[cmod]) \in Seq(Wire)
      /\ EndAt(Image[cmod]) \in Nat /\ EndAt(Image[cmod]) >= 4
      /\ \/ Len(Packets(Image[cmod])) = EndAt(Image[cmod]) + 1
         \/ Len(Packets(Image[cmod])) = EndAt(Image[cmod])
      /\ Packets(Image[cmod])[1] = Marker("BEGIN")
  BY <1>1, PacketFacts
<1>3. Len(Packets(Image[cmod])) \in Nat /\ Len(Packets(Image[cmod])) >= 4
  BY <1>2
<1> QED
  BY <1>1, <1>2, <1>3 DEF image

LEMMA SendFacts ==
  ASSUME ClientInv, PipesInv, SendPacket
  PROVE  LET N == Len(Packets(image))
         IN /\ /\ Packets(image) \in Seq(Wire) /\ N \in Nat /\ N >= 4
               /\ Image \in Programs /\ cmod \in 1 .. Len(Image) /\ Len(Image) \in Nat
               /\ Packets(image)[1] = Marker("BEGIN")
            /\ cpc = "send" /\ cpos \in 1 .. N /\ cpos' = cpos + 1 /\ image' = image
            /\ \/ cpos = 1 /\ cpc' = "id" /\ cinits' = cinits
               \/ cpos > 1 /\ cpos < N /\ cpc' = "send" /\ cinits' = cinits
               \/ cpos = N /\ cpc' = "inits" /\ cinits' = InitFunctions(image)
            /\ UNCHANGED <<Image, cmod, ids, m2l, monitor>> /\ l2m' = Append(l2m, packet)
               /\ Len(l2m) < PIPE_PACKETS /\ PIPE_PACKETS \in Nat
            /\ UNCHANGED <<nb_modules, mpc, pkt, i, inits, oom, modules>>
            /\ /\ l2m \in Seq(Wire) /\ Len(l2m) \in Nat
               /\ l2m' \in Seq(Wire) /\ Len(l2m') = Len(l2m) + 1 /\ l2m'[Len(l2m) + 1] = packet
               /\ \A x \in 1 .. Len(l2m) : l2m'[x] = l2m[x]
<1> DEFINE N == Len(Packets(image))
<1>1. ClientInv /\ PipesInv
  OBVIOUS
<1>2. /\ Packets(image) \in Seq(Wire) /\ N \in Nat /\ N >= 4
      /\ Image \in Programs /\ cmod \in 1 .. Len(Image) /\ Len(Image) \in Nat
      /\ Packets(image)[1] = Marker("BEGIN")
  BY <1>1, ImageOfClient
<1>3. cpc = "send" /\ cpos \in 1 .. N /\ cpos' = cpos + 1 /\ image' = image
  BY <1>1, <1>2 DEF ClientInv, SendPacket, image
<1>4. packet \in Wire
  BY <1>2, <1>3 DEF packet
<1>5. packet.event = "BEGIN" <=> cpos = 1
  <2>1. Same(packet, Packets(Image[cmod])[cpos])
    BY DEF Same, packet, image
  <2>2. cpos \in 1 .. Len(Packets(Image[cmod]))
    BY <1>3 DEF image
  <2>3. PICK p, k, q, x : p = Image /\ k = cmod /\ q = packet /\ x = cpos
    OBVIOUS
  <2>4. p \in Programs /\ k \in 1 .. Len(p)
    BY ONLY <1>2, <2>3
  <2>5. x \in 1 .. Len(Packets(p[k])) /\ Same(q, Packets(p[k])[x])
    BY ONLY <2>1, <2>2, <2>3
  <2>6. q.event = "BEGIN" <=> x = 1
    BY ONLY <2>4, <2>5, EventAt
  <2> QED
    BY ONLY <2>3, <2>6
<1>6. \/ cpos = 1 /\ cpc' = "id" /\ cinits' = cinits
      \/ cpos > 1 /\ cpos < N /\ cpc' = "send" /\ cinits' = cinits
      \/ cpos = N /\ cpc' = "inits" /\ cinits' = InitFunctions(image)
  <2>1. cpos > 1 \/ cpos = 1
    BY <1>3
  <2> QED
    BY <1>3, <1>5, <1>2, <2>1 DEF SendPacket
<1>7. UNCHANGED <<Image, cmod, ids, m2l, monitor>> /\ l2m' = Append(l2m, packet)
      /\ Len(l2m) < PIPE_PACKETS /\ PIPE_PACKETS \in Nat
  BY ImageAssumption DEF SendPacket
<1>8. UNCHANGED <<nb_modules, mpc, pkt, i, inits, oom, modules>>
  BY <1>7 DEF monitor, tables
<1>10. /\ l2m \in Seq(Wire) /\ Len(l2m) \in Nat
       /\ l2m' \in Seq(Wire) /\ Len(l2m') = Len(l2m) + 1 /\ l2m'[Len(l2m) + 1] = packet
       /\ \A x \in 1 .. Len(l2m) : l2m'[x] = l2m[x]
  BY <1>1, <1>4, <1>7 DEF PipesInv
<1> QED
  BY <1>2, <1>3, <1>6, <1>7, <1>8, <1>10

(* The packet is the one the monitor expects there. *)
LEMMA SendAt ==
  ASSUME LoadInv, SendPacket, Loading, NEW r \in Nat, At(r)
  PROVE  At(r)'
<1> DEFINE N == Len(Packets(image))
<1>1. ClientInv /\ PipesInv
  BY DEF LoadInv
<1>2. /\ Packets(image) \in Seq(Wire) /\ N \in Nat /\ N >= 4
      /\ Image \in Programs /\ cmod \in 1 .. Len(Image) /\ Len(Image) \in Nat
      /\ Packets(image)[1] = Marker("BEGIN")
  BY <1>1, SendFacts
<1>3. cpc = "send" /\ cpos \in 1 .. N /\ cpos' = cpos + 1 /\ image' = image
  BY <1>1, SendFacts
<1>6. \/ cpos = 1 /\ cpc' = "id" /\ cinits' = cinits
      \/ cpos > 1 /\ cpos < N /\ cpc' = "send" /\ cinits' = cinits
      \/ cpos = N /\ cpc' = "inits" /\ cinits' = InitFunctions(image)
  BY <1>1, SendFacts
<1>7. UNCHANGED <<Image, cmod, ids, m2l, monitor>> /\ l2m' = Append(l2m, packet)
      /\ Len(l2m) < PIPE_PACKETS /\ PIPE_PACKETS \in Nat
  BY <1>1, SendFacts
<1>8. UNCHANGED <<nb_modules, mpc, pkt, i, inits, oom, modules>>
  BY <1>1, SendFacts
<1>10. /\ l2m \in Seq(Wire) /\ Len(l2m) \in Nat
       /\ l2m' \in Seq(Wire) /\ Len(l2m') = Len(l2m) + 1 /\ l2m'[Len(l2m) + 1] = packet
       /\ \A x \in 1 .. Len(l2m) : l2m'[x] = l2m[x]
  BY <1>1, SendFacts
<1> DEFINE S == Sent(nb_modules)
<1>22. /\ r \in 0 .. Len(S)
       /\ (IF nb_modules = 0 THEN mpc = "first" ELSE r > 0 /\ Same(pkt, S[r]))
       /\ \A x \in 1 .. Len(l2m) : Same(l2m[x], Expected(r + x))
       /\ cmod \in nb_modules .. nb_modules + 1
       /\ IF cmod = nb_modules
          THEN /\ cpos >= 2 /\ r + Len(l2m) = cpos - 1
               /\ m2l # <<>> <=> cpc = "id"
          ELSE /\ cpos <= 2 /\ r + Len(l2m) = Len(S) + cpos - 1
               /\ cpc = (IF cpos = 1 THEN "send" ELSE "id")
               /\ m2l = <<>>
  BY <1>3 DEF At, Alive
<1>23. S' = S /\ Len(S) \in Nat /\ nb_modules \in Nat /\ \A k : Expected(k)' = Expected(k)
  <2>1. S' = S /\ \A k : Expected(k)' = Expected(k)
    BY <1>7, <1>8 DEF Sent, Expected
  <2>2. nb_modules \in Nat /\ nb_modules <= Len(Image)
    BY <1>1, <1>2 DEF PipesInv
  <2>3. Len(S) \in Nat
    BY <2>2, <1>2, PacketFacts DEF Sent
  <2> QED
    BY <2>1, <2>2, <2>3
<1>24. Same(packet, Expected(r + Len(l2m) + 1))
  <2>1. CASE cmod = nb_modules
    <3>1. S = Packets(image) /\ r + Len(l2m) + 1 = cpos
      BY <2>1, <1>22, <1>23, <1>2, <1>3, <1>10 DEF Sent, image
    <3> QED
      BY <3>1, <1>3 DEF Expected, Same, packet
  <2>2. CASE cmod # nb_modules
    <3>1. cpos = 1 /\ r + Len(l2m) + 1 = Len(S) + 1
      BY <2>2, <1>22, <1>23, <1>3, <1>10
    <3>2. ~(r + Len(l2m) + 1 <= Len(S))
      BY <3>1, <1>23
    <3> QED
      BY <3>1, <3>2, <1>2 DEF Expected, Same, packet
  <2> QED
    BY <2>1, <2>2
<1>25. \A x \in 1 .. Len(l2m') : Same(l2m'[x], Expected(r + x)')
  <2> TAKE x \in 1 .. Len(l2m')
  <2>1. CASE x \in 1 .. Len(l2m)
    BY <2>1, <1>22, <1>23, <1>10
  <2>2. CASE x = Len(l2m) + 1
    <3>1. r + x = r + Len(l2m) + 1
      BY <2>2, <1>10
    <3> QED
      BY <3>1, <2>2, <1>23, <1>24, <1>10
  <2> QED
    BY <2>1, <2>2, <1>10
<1>26. (IF nb_modules = 0 THEN mpc = "first" ELSE r > 0 /\ Same(pkt, S[r]))'
  BY <1>22, <1>23, <1>8 DEF Same
<1>27. /\ cmod' \in nb_modules' .. nb_modules' + 1
       /\ r + Len(l2m') <= Len(S') + (cmod' - nb_modules')
       /\ (IF cmod = nb_modules
           THEN /\ cpos >= 2 /\ r + Len(l2m) = cpos - 1
                /\ m2l # <<>> <=> cpc = "id"
           ELSE /\ cpos <= 2 /\ r + Len(l2m) = Len(S) + cpos - 1
                /\ cpc = (IF cpos = 1 THEN "send" ELSE "id")
                /\ m2l = <<>>)'
  <2>1. CASE cmod = nb_modules
    <3>1. S = Packets(image) /\ cpos >= 2 /\ r + Len(l2m) = cpos - 1 /\ m2l = <<>>
      BY <2>1, <1>22, <1>23, <1>2, <1>3 DEF Sent, image
    <3> QED
      BY <3>1, <2>1, <1>23, <1>3, <1>6, <1>7, <1>8, <1>10
  <2>2. CASE cmod # nb_modules
    <3>1. cpos = 1 /\ r + Len(l2m) = Len(S) /\ m2l = <<>> /\ cmod = nb_modules + 1
      BY <2>2, <1>22, <1>23, <1>3, <1>10
    <3>2. cpc' = "id" /\ cpos' = 2 /\ cpos' # 1
      <4>0. cpos = 1 /\ N >= 4 /\ N \in Nat
        BY <3>1, <1>2
      <4>1. \A n \in Nat : n >= 4 => 1 # n
        OBVIOUS
      <4>3. cpos # N
        BY <4>0, <4>1, Zenon
      <4>4. ~(cpos > 1)
        BY <4>0
      <4>2. cpos' = 2
        BY <3>1, <1>3
      <4> QED
        BY <4>3, <4>4, <4>2, <1>6
    <3>3. m2l' = <<>> /\ cmod' = nb_modules' + 1 /\ cmod' # nb_modules' /\ S' = S
          /\ r + Len(l2m') = Len(S) + 1
      BY <3>1, <1>23, <1>7, <1>8, <1>10
    <3> QED
      BY <3>2, <3>3, <1>23, <1>8
  <2> QED
    BY <2>1, <2>2
<1> QED
  BY <1>22, <1>23, <1>25, <1>26, <1>27, <1>7, <1>8 DEF At

LEMMA SendStep ==
  ASSUME LoadInv, SendPacket
  PROVE  LoadInv'
<1> DEFINE N == Len(Packets(image))
<1>1. ClientInv /\ PipesInv
  BY DEF LoadInv
<1>2. /\ Packets(image) \in Seq(Wire) /\ N \in Nat /\ N >= 4
      /\ Image \in Programs /\ cmod \in 1 .. Len(Image) /\ Len(Image) \in Nat
      /\ Packets(image)[1] = Marker("BEGIN")
  BY <1>1, SendFacts
<1>3. cpc = "send" /\ cpos \in 1 .. N /\ cpos' = cpos + 1 /\ image' = image
  BY <1>1, SendFacts
<1>4. packet \in Wire
  BY <1>2, <1>3 DEF packet
<1>6. \/ cpos = 1 /\ cpc' = "id" /\ cinits' = cinits
      \/ cpos > 1 /\ cpos < N /\ cpc' = "send" /\ cinits' = cinits
      \/ cpos = N /\ cpc' = "inits" /\ cinits' = InitFunctions(image)
  BY <1>1, SendFacts
<1>7. UNCHANGED <<Image, cmod, ids, m2l, monitor>> /\ l2m' = Append(l2m, packet)
      /\ Len(l2m) < PIPE_PACKETS /\ PIPE_PACKETS \in Nat
  BY <1>1, SendFacts
<1>8. UNCHANGED <<nb_modules, mpc, pkt, i, inits, oom, modules>>
  BY <1>1, SendFacts
<1>9. ClientInv'
  BY <1>1, <1>2, <1>3, <1>6, <1>7, <1>8 DEF ClientInv, Loading
<1>10. /\ l2m \in Seq(Wire) /\ Len(l2m) \in Nat
       /\ l2m' \in Seq(Wire) /\ Len(l2m') = Len(l2m) + 1 /\ l2m'[Len(l2m) + 1] = packet
       /\ \A x \in 1 .. Len(l2m) : l2m'[x] = l2m[x]
  BY <1>1, SendFacts
<1>11. PipesInv'
  BY <1>1, <1>7, <1>8, <1>10 DEF PipesInv
<1>12. Loading => InStep'
  BY SendAt DEF LoadInv, InStep
<1>13. Loading => Owed' = Expects'
  <2> SUFFICES ASSUME Loading PROVE Owed' = Expects'
    OBVIOUS
  <2>1. PICK r \in Nat : At(r)
    BY DEF LoadInv, InStep
  <2>2. cmod = nb_modules => cpos >= 2
    BY <2>1, <1>3 DEF At, Alive
  <2>3. Owed = Expects
    BY <1>3 DEF LoadInv, Alive
  <2>4. Expects' = Expects
    BY <1>7, <1>8 DEF Expects, InitFunctions
  <2>5. Owed' = Owed
    BY <2>2, <1>2, <1>3, <1>6, <1>7, <1>8 DEF Owed
  <2> QED
    BY <2>3, <2>4, <2>5
<1>14. /\ Whole' <=> Whole
       /\ Loading' <=> Loading
       /\ TablesTyped' <=> TablesTyped
       /\ ControlInv' <=> ControlInv
       /\ FunctionsInv' <=> FunctionsInv
  BY <1>7, MonitorFrame
<1> QED
  BY <1>8, <1>9, <1>11, <1>12, <1>13, <1>14 DEF LoadInv

(* A step of the client that leaves the pipe to the monitor alone. *)
LEMMA ClientMoves ==
  ASSUME LoadInv, UNCHANGED <<Image, l2m, monitor>>, ClientInv', PipesInv',
         \A r \in Nat : Loading /\ At(r) => At(r)',
         Loading /\ Alive' => Owed' = Owed /\ Alive
  PROVE  LoadInv'
<1>1. UNCHANGED <<nb_modules, mpc, pkt, i, inits, oom, modules>>
  BY DEF monitor, tables
<1>2. /\ Whole' <=> Whole
      /\ Loading' <=> Loading
      /\ TablesTyped' <=> TablesTyped
      /\ ControlInv' <=> ControlInv
      /\ FunctionsInv' <=> FunctionsInv
  BY MonitorFrame
<1>3. Loading => InStep'
  BY DEF LoadInv, InStep
<1>4. Loading /\ Alive' => Owed' = Expects'
  <2>1. Expects' = Expects
    BY <1>1 DEF Expects, InitFunctions
  <2> QED
    BY <2>1 DEF LoadInv
<1> QED
  BY <1>1, <1>2, <1>3, <1>4 DEF LoadInv

LEMMA ReceiveIdAt ==
  ASSUME LoadInv, ReceiveId, Loading, NEW r \in Nat, At(r)
  PROVE  At(r)'
<1>1. ClientInv /\ PipesInv
  BY DEF LoadInv
<1>2. /\ cpc = "id" /\ cpc' = "send" /\ m2l # <<>> /\ m2l' = Tail(m2l)
      /\ UNCHANGED <<Image, l2m, cmod, cpos, cinits, monitor>>
  BY DEF ReceiveId
<1>3. UNCHANGED <<nb_modules, mpc, pkt>>
  BY <1>2 DEF monitor, tables
<1>4. m2l' = <<>>
  <2>1. m2l \in Seq(Nat) /\ Len(m2l) <= 1
    BY <1>1 DEF PipesInv
  <2>2. Tail(m2l) \in Seq(Nat) /\ Len(Tail(m2l)) = Len(m2l) - 1
    BY <2>1, <1>2, HeadTailProperties
  <2>3. Len(m2l) \in Nat \ {0}
    BY <2>1, <1>2, EmptySeq
  <2>4. Len(Tail(m2l)) = 0
    BY <2>1, <2>2, <2>3
  <2> QED
    BY <2>2, <2>4, <1>2, EmptySeq
<1>5. cmod = nb_modules /\ cpos = 2
  BY <1>1, <1>2 DEF At, Alive, ClientInv
<1> QED
  BY <1>2, <1>3, <1>4, <1>5 DEF At, Alive, Sent, Same, Expected

LEMMA ReceiveIdStep ==
  ASSUME LoadInv, ReceiveId
  PROVE  LoadInv'
<1>1. ClientInv /\ PipesInv
  BY DEF LoadInv
<1>2. /\ cpc = "id" /\ cpc' = "send" /\ m2l # <<>> /\ m2l' = Tail(m2l)
      /\ UNCHANGED <<Image, l2m, cmod, cpos, cinits, monitor>>
  BY DEF ReceiveId
<1>3. UNCHANGED <<nb_modules, mpc, pkt, i, inits, oom, modules>> /\ image' = image
  BY <1>2 DEF monitor, tables, image
<1>4. m2l' = <<>> /\ m2l' \in Seq(Nat) /\ Len(m2l') = 0
  <2>1. m2l \in Seq(Nat) /\ Len(m2l) <= 1
    BY <1>1 DEF PipesInv
  <2>2. Tail(m2l) \in Seq(Nat) /\ Len(Tail(m2l)) = Len(m2l) - 1
    BY <2>1, <1>2, HeadTailProperties
  <2>3. Len(m2l) \in Nat \ {0}
    BY <2>1, <1>2, EmptySeq
  <2>4. Len(Tail(m2l)) = 0
    BY <2>1, <2>2, <2>3
  <2> QED
    BY <2>2, <2>4, <1>2, EmptySeq
<1>5. ClientInv'
  <2>1. Len(Packets(image)) \in Nat /\ Len(Packets(image)) >= 4
    BY <1>1, ImageOfClient
  <2> QED
    BY <1>1, <1>2, <1>3, <2>1 DEF ClientInv, Loading
<1>6. PipesInv'
  BY <1>1, <1>2, <1>3, <1>4 DEF PipesInv
<1>7. \A r \in Nat : Loading /\ At(r) => At(r)'
  BY ReceiveIdAt
<1>8. Owed' = Owed /\ Alive
  BY <1>2, <1>3 DEF Owed, Alive
<1> QED
  BY <1>2, <1>5, <1>6, <1>7, <1>8, ClientMoves

LEMMA ConstructorEndsAt ==
  ASSUME LoadInv, ConstructorEnds, Loading, NEW r \in Nat, At(r)
  PROVE  At(r)'
<1>1. ClientInv /\ PipesInv
  BY DEF LoadInv
<1>2. /\ cpc = "inits" /\ cinits = {}
      /\ \/ cmod < Len(Image) /\ cpc' = "send" /\ cmod' = cmod + 1 /\ cpos' = 1
         \/ ~(cmod < Len(Image)) /\ cpc' = "main" /\ cmod' = cmod /\ cpos' = cpos
      /\ UNCHANGED <<Image, l2m, m2l, cinits, monitor>>
  BY DEF ConstructorEnds
<1>3. UNCHANGED <<nb_modules, mpc, pkt, i, inits, oom, modules>>
  BY <1>2 DEF monitor, tables
<1>4. /\ Image \in Programs /\ Len(Image) \in Nat \ {0} /\ cmod \in 1 .. Len(Image)
      /\ Len(Packets(image)) \in Nat /\ Len(Packets(image)) >= 4
      /\ cpos = Len(Packets(image)) + 1
  BY <1>1, <1>2, ImageOfClient DEF ClientInv
<1>11. cmod = nb_modules /\ r + Len(l2m) = cpos - 1 /\ m2l = <<>>
  BY <1>2 DEF At, Alive
<1>12. Sent(nb_modules) = Packets(image) /\ nb_modules # 0
  BY <1>11, <1>4 DEF Sent, image
<1>13. r + Len(l2m) = Len(Sent(nb_modules))
  BY <1>11, <1>12, <1>4
<1>14. Sent(nb_modules)' = Sent(nb_modules) /\ \A k : Expected(k)' = Expected(k)
  BY <1>2, <1>3 DEF Sent, Expected
<1>15. cmod' \in nb_modules .. nb_modules + 1
       /\ Len(Sent(nb_modules)) <= Len(Sent(nb_modules)) + (cmod' - nb_modules)
  BY <1>2, <1>4, <1>11, <1>12
<1>16. IF cmod' = nb_modules
       THEN /\ cpos' >= 2 /\ r + Len(l2m) = cpos' - 1 /\ cpc' # "id"
       ELSE /\ cpos' = 1 /\ r + Len(l2m) = Len(Sent(nb_modules)) + cpos' - 1 /\ cpc' = "send"
  BY <1>2, <1>4, <1>11, <1>12, <1>13
<1>17. (IF nb_modules = 0 THEN mpc = "first" ELSE r > 0 /\ Same(pkt, Sent(nb_modules)[r]))'
  BY <1>14, <1>3 DEF At, Same
<1>18. \A x \in 1 .. Len(l2m') : Same(l2m'[x], Expected(r + x)')
  BY <1>14, <1>2 DEF At
<1>19. (IF cmod = nb_modules
        THEN /\ cpos >= 2 /\ r + Len(l2m) = cpos - 1
             /\ m2l # <<>> <=> cpc = "id"
        ELSE /\ cpos <= 2 /\ r + Len(l2m) = Len(Sent(nb_modules)) + cpos - 1
             /\ cpc = (IF cpos = 1 THEN "send" ELSE "id")
             /\ m2l = <<>>)'
  BY <1>11, <1>14, <1>16, <1>2, <1>3
<1>20. /\ r \in 0 .. Len(Sent(nb_modules)') /\ cmod' \in nb_modules' .. nb_modules' + 1
       /\ r + Len(l2m') <= Len(Sent(nb_modules)') + (cmod' - nb_modules')
  BY <1>13, <1>14, <1>15, <1>2, <1>3 DEF At
<1> QED
  BY <1>17, <1>18, <1>19, <1>20 DEF At

LEMMA ConstructorEndsStep ==
  ASSUME LoadInv, ConstructorEnds
  PROVE  LoadInv'
<1>1. ClientInv /\ PipesInv
  BY DEF LoadInv
<1>2. /\ cpc = "inits" /\ cinits = {}
      /\ \/ cmod < Len(Image) /\ cpc' = "send" /\ cmod' = cmod + 1 /\ cpos' = 1
         \/ ~(cmod < Len(Image)) /\ cpc' = "main" /\ cmod' = cmod /\ cpos' = cpos
      /\ UNCHANGED <<Image, l2m, m2l, cinits, monitor>>
  BY DEF ConstructorEnds
<1>3. UNCHANGED <<nb_modules, mpc, pkt, i, inits, oom, modules>>
  BY <1>2 DEF monitor, tables
<1>4. /\ Image \in Programs /\ Len(Image) \in Nat \ {0} /\ cmod \in 1 .. Len(Image)
      /\ Len(Packets(image)) \in Nat /\ Len(Packets(image)) >= 4
      /\ cpos = Len(Packets(image)) + 1
  BY <1>1, <1>2, ImageOfClient DEF ClientInv
<1>5. ClientInv'
  <2>1. CASE cmod < Len(Image)
    <3>1. cmod' \in 1 .. Len(Image) /\ cpc' = "send" /\ cpos' = 1 /\ Image' = Image
      BY <2>1, <1>2, <1>4
    <3>2. image' = Image[cmod'] /\ Len(Packets(Image[cmod'])) \in Nat
          /\ Len(Packets(Image[cmod'])) >= 4
      <4>1. /\ EndAt(Image[cmod']) \in Nat /\ EndAt(Image[cmod']) >= 4
            /\ \/ Len(Packets(Image[cmod'])) = EndAt(Image[cmod']) + 1
               \/ Len(Packets(Image[cmod'])) = EndAt(Image[cmod'])
        BY <3>1, <1>4, PacketFacts
      <4> QED
        BY <4>1, <3>1 DEF image
    <3> QED
      BY <3>1, <3>2, <1>4 DEF ClientInv
  <2>2. CASE ~(cmod < Len(Image))
    <3>1. cpc' = "main" /\ UNCHANGED <<cmod, cpos, Image, cinits>> /\ image' = image
      BY <2>2, <1>2 DEF image
    <3>2. cmod = Len(Image)
      BY <2>2, <1>4
    <3> QED
      BY <3>1, <3>2, <1>1, <1>2, <1>4 DEF ClientInv
  <2> QED
    BY <2>1, <2>2
<1>6. PipesInv'
  BY <1>1, <1>2, <1>3, <1>4 DEF PipesInv
<1>7. \A r \in Nat : Loading /\ At(r) => At(r)'
  BY ConstructorEndsAt
<1>8. Loading => Owed' = Owed /\ Alive
  <2> SUFFICES ASSUME Loading PROVE Owed' = Owed /\ Alive
    OBVIOUS
  <2>1. cmod = nb_modules
    <3>1. PICK r \in Nat : At(r)
      BY DEF LoadInv, InStep
    <3> QED
      BY <3>1, <1>2 DEF At, Alive
  <2>2. Owed = 0
    BY <2>1, <1>2, FS_EmptySet DEF Owed
  <2>3. Owed' = 0
    BY <2>1, <1>2, <1>3, <1>4, FS_EmptySet DEF Owed
  <2> QED
    BY <2>2, <2>3, <1>2 DEF Alive
<1> QED
  BY <1>2, <1>5, <1>6, <1>7, <1>8, ClientMoves

LEMMA ClientAbortsStep ==
  ASSUME LoadInv, ClientAborts
  PROVE  LoadInv'
<1>1. ClientInv /\ PipesInv
  BY DEF LoadInv
<1>2. ~Loading /\ cpc' = "dead" /\ UNCHANGED <<Image, l2m, m2l, cmod, cpos, cinits, monitor>>
  BY DEF ClientAborts, MonitorUp, Loading, Stopped
<1>3. UNCHANGED <<nb_modules, mpc, pkt, i, inits, oom, modules>> /\ image' = image
  BY <1>2 DEF monitor, tables, image
<1>4. ClientInv' /\ PipesInv'
  BY <1>1, <1>2, <1>3 DEF ClientInv, PipesInv, Loading
<1> QED
  BY <1>2, <1>4, ClientMoves

LEMMA ClientDiesAt ==
  ASSUME LoadInv, ClientDies, Loading, NEW r \in Nat, At(r)
  PROVE  At(r)'
<1> DEFINE N == Len(Packets(image))
<1>1. ClientInv /\ PipesInv
  BY DEF LoadInv
<1>2. /\ cpc \notin {"dead", "exited"} /\ cpc' = "dead"
      /\ UNCHANGED <<Image, m2l, cmod, cpos, cinits, monitor>>
  BY DEF ClientDies
<1>3. UNCHANGED <<nb_modules, mpc, pkt, i, inits, oom, modules>> /\ image' = image
  BY <1>2 DEF monitor, tables, image
<1>5. CASE l2m' = l2m
  BY <1>2, <1>3, <1>5 DEF At, Alive, Sent, Same, Expected
<1>6. CASE l2m' # l2m
  <2>1. PICK l \in {"size", "value"} :
          /\ cpc = "send" /\ Len(l2m) < PIPE_PACKETS
          /\ l2m' = Append(l2m, [packet EXCEPT !.lacks = l])
    BY <1>6 DEF ClientDies
  <2> DEFINE q == [packet EXCEPT !.lacks = l]
  <2>2. /\ Packets(image) \in Seq(Wire) /\ N \in Nat /\ N >= 4
        /\ Image \in Programs /\ cmod \in 1 .. Len(Image) /\ Len(Image) \in Nat
        /\ Packets(image)[1] = Marker("BEGIN")
    BY <1>1, ImageOfClient
  <2>3. cpos \in 1 .. N
    BY <1>1, <2>1, <2>2 DEF ClientInv
  <2>4. packet \in Wire
    BY <2>2, <2>3 DEF packet
  <2>5. q \in Wire /\ Same(q, packet)
    BY <2>4 DEF Wire, Same
  <2> HIDE DEF q
  <2>6. /\ l2m \in Seq(Wire) /\ Len(l2m) \in Nat
        /\ l2m' \in Seq(Wire) /\ Len(l2m') = Len(l2m) + 1 /\ l2m'[Len(l2m) + 1] = q
        /\ \A x \in 1 .. Len(l2m) : l2m'[x] = l2m[x]
    <3>1. l2m \in Seq(Wire) /\ l2m' = Append(l2m, q)
      BY <1>1, <2>1 DEF PipesInv, q
    <3> QED
      BY <3>1, <2>5
  <2> DEFINE S == Sent(nb_modules)
  <2>12. /\ r \in 0 .. Len(S)
         /\ (IF nb_modules = 0 THEN mpc = "first" ELSE r > 0 /\ Same(pkt, S[r]))
         /\ \A x \in 1 .. Len(l2m) : Same(l2m[x], Expected(r + x))
         /\ cmod \in nb_modules .. nb_modules + 1
         /\ IF cmod = nb_modules
            THEN cpos >= 2 /\ r + Len(l2m) = cpos - 1
            ELSE r + Len(l2m) = Len(S) + cpos - 1 /\ cpos = 1
    BY <2>1 DEF At, Alive
  <2>13. S' = S /\ Len(S) \in Nat /\ nb_modules \in Nat /\ \A k : Expected(k)' = Expected(k)
    <3>1. S' = S /\ \A k : Expected(k)' = Expected(k)
      BY <1>2, <1>3 DEF Sent, Expected
    <3>2. nb_modules \in Nat /\ nb_modules <= Len(Image)
      BY <1>1, <2>2 DEF PipesInv
    <3>3. Len(S) \in Nat
      BY <3>2, <2>2, PacketFacts DEF Sent
    <3> QED
      BY <3>1, <3>2, <3>3
  <2>14. /\ Same(q, Expected(r + Len(l2m) + 1))
         /\ r + Len(l2m) + 1 <= Len(S) + (cmod - nb_modules)
    <3>1. CASE cmod = nb_modules
      <4>1. S = Packets(image) /\ r + Len(l2m) + 1 = cpos
        <5>1. S = Packets(image)
          BY <3>1, <2>2 DEF Sent, image
        <5>2. r + Len(l2m) = cpos - 1 /\ cpos \in Nat /\ Len(l2m) \in Nat
          BY <3>1, <2>12, <2>3, <2>6
        <5> QED
          BY ONLY <5>1, <5>2, r \in Nat
      <4> QED
        BY <4>1, <3>1, <2>13, <2>3, <2>5 DEF Expected, Same, packet
    <3>2. CASE cmod # nb_modules
      <4>1. cpos = 1 /\ r + Len(l2m) + 1 = Len(S) + 1 /\ cmod = nb_modules + 1
        BY <3>2, <2>12, <2>13, <2>3, <2>6
      <4>2. ~(r + Len(l2m) + 1 <= Len(S))
        BY <4>1, <2>13
      <4>3. Same(q, Expected(r + Len(l2m) + 1))
        BY <4>1, <4>2, <2>2, <2>5 DEF Expected, Same, packet
      <4> QED
        BY <4>1, <4>3, <2>13
    <3> QED
      BY <3>1, <3>2
  <2>15. \A x \in 1 .. Len(l2m') : Same(l2m'[x], Expected(r + x)')
    <3> TAKE x \in 1 .. Len(l2m')
    <3>1. CASE x \in 1 .. Len(l2m)
      BY <3>1, <2>12, <2>13, <2>6
    <3>2. CASE x = Len(l2m) + 1
      <4>1. r + x = r + Len(l2m) + 1
        BY <3>2, <2>6
      <4> QED
        BY <4>1, <3>2, <2>13, <2>14, <2>6
    <3> QED
      BY <3>1, <3>2, <2>6
  <2>16. (IF nb_modules = 0 THEN mpc = "first" ELSE r > 0 /\ Same(pkt, S[r]))'
    BY <2>12, <2>13, <1>3 DEF Same
  <2>17. /\ r \in 0 .. Len(S') /\ cmod' \in nb_modules' .. nb_modules' + 1
         /\ r + Len(l2m') <= Len(S') + (cmod' - nb_modules')
    BY <2>12, <2>13, <2>14, <2>6, <1>2, <1>3
  <2> QED
    BY <2>15, <2>16, <2>17, <1>2 DEF At, Alive
<1> QED
  BY <1>5, <1>6

LEMMA ClientDiesStep ==
  ASSUME LoadInv, ClientDies
  PROVE  LoadInv'
<1> DEFINE N == Len(Packets(image))
<1>1. ClientInv /\ PipesInv
  BY DEF LoadInv
<1>2. /\ cpc \notin {"dead", "exited"} /\ cpc' = "dead"
      /\ UNCHANGED <<Image, m2l, cmod, cpos, cinits, monitor>>
  BY DEF ClientDies
<1>3. UNCHANGED <<nb_modules, mpc, pkt, i, inits, oom, modules>> /\ image' = image
  BY <1>2 DEF monitor, tables, image
<1>4. ClientInv'
  BY <1>1, <1>2, <1>3 DEF ClientInv, Loading
<1>5. CASE l2m' = l2m
  <2>1. PipesInv'
    BY <1>1, <1>2, <1>3, <1>5 DEF PipesInv
  <2>2. \A r \in Nat : Loading /\ At(r) => At(r)'
    BY <1>2, <1>3, <1>5 DEF At, Alive, Sent, Same, Expected
  <2>3. ~Alive'
    BY <1>2 DEF Alive
  <2> QED
    BY <1>2, <1>4, <1>5, <2>1, <2>2, <2>3, ClientMoves
<1>6. CASE l2m' # l2m
  <2>1. PICK l \in {"size", "value"} :
          /\ cpc = "send" /\ Len(l2m) < PIPE_PACKETS
          /\ l2m' = Append(l2m, [packet EXCEPT !.lacks = l])
    BY <1>6 DEF ClientDies
  <2> DEFINE q == [packet EXCEPT !.lacks = l]
  <2>2. /\ Packets(image) \in Seq(Wire) /\ N \in Nat /\ N >= 4
        /\ Image \in Programs /\ cmod \in 1 .. Len(Image) /\ Len(Image) \in Nat
        /\ Packets(image)[1] = Marker("BEGIN")
    BY <1>1, ImageOfClient
  <2>3. cpos \in 1 .. N
    BY <1>1, <2>1, <2>2 DEF ClientInv
  <2>4. packet \in Wire
    BY <2>2, <2>3 DEF packet
  <2>5. q \in Wire /\ Same(q, packet)
    BY <2>4 DEF Wire, Same
  <2> HIDE DEF q
  <2>6. /\ l2m \in Seq(Wire) /\ Len(l2m) \in Nat
        /\ l2m' \in Seq(Wire) /\ Len(l2m') = Len(l2m) + 1 /\ l2m'[Len(l2m) + 1] = q
        /\ \A x \in 1 .. Len(l2m) : l2m'[x] = l2m[x]
    <3>1. l2m \in Seq(Wire) /\ l2m' = Append(l2m, q)
      BY <1>1, <2>1 DEF PipesInv, q
    <3> QED
      BY <3>1, <2>5
  <2>7. PipesInv'
    BY <1>1, <1>2, <1>3, <2>1, <2>6, ImageAssumption DEF PipesInv
  <2>8. Loading => InStep'
    BY ClientDiesAt DEF LoadInv, InStep
  <2>9. /\ Whole' <=> Whole
        /\ Loading' <=> Loading
        /\ TablesTyped' <=> TablesTyped
        /\ ControlInv' <=> ControlInv
        /\ FunctionsInv' <=> FunctionsInv
    BY <1>2, MonitorFrame
  <2>10. ~Alive'
    BY <1>2 DEF Alive
  <2> QED
    BY <1>3, <1>4, <2>7, <2>8, <2>9, <2>10 DEF LoadInv
<1> QED
  BY <1>5, <1>6
-----------------------------------------------------------------------------
(* The steps of the monitor: those that end the loading, and those that    *)
(* go on with the same packet.                                             *)
LEMMA TablesFrame ==
  ASSUME UNCHANGED tables
  PROVE  TablesTyped' <=> TablesTyped
  BY DEF tables, TablesTyped, Leads, T!ModuleIds, T!FunctionIds

LEMMA Stops ==
  ASSUME LoadInv, mpc' \in Stopped, UNCHANGED <<Image, cmod, cpos, cinits>>,
         cpc' \in {cpc, "dead", "exited"}, PipesInv', Whole' => TablesTyped'
  PROVE  LoadInv'
<1>1. ~Loading' /\ image' = image
  BY DEF Loading, image, Stopped
<1>2. ClientInv'
  BY <1>1 DEF LoadInv, ClientInv
<1> QED
  BY <1>1, <1>2 DEF LoadInv

(* The tables are left as they were. *)
LEMMA StopsWithTables ==
  ASSUME LoadInv, mpc' \in Stopped, UNCHANGED <<Image, cmod, cpos, cinits, tables>>,
         cpc' \in {cpc, "dead", "exited"}, PipesInv', MonitorUp, oom => oom'
  PROVE  LoadInv'
<1>1. Whole' => Whole
  BY DEF Whole, Loading
<1>2. Whole' => TablesTyped'
  BY <1>1, TablesFrame DEF LoadInv
<1> QED
  BY <1>2, Stops

LEMMA Taken ==
  ASSUME PipesInv, l2m # <<>>, l2m' = Tail(l2m)
  PROVE  /\ l2m \in Seq(Wire) /\ Len(l2m) \in Nat \ {0}
         /\ l2m' \in Seq(Wire) /\ Len(l2m') = Len(l2m) - 1 /\ Len(l2m') <= PIPE_PACKETS
         /\ \A x \in 1 .. Len(l2m') : l2m'[x] = l2m[x + 1]
         /\ Head(l2m) = l2m[1] /\ Head(l2m) \in Wire
<1>1. l2m \in Seq(Wire) /\ Len(l2m) <= PIPE_PACKETS /\ PIPE_PACKETS \in Nat
  BY ImageAssumption DEF PipesInv
<1>2. Len(l2m) \in Nat \ {0}
  BY <1>1, EmptySeq
<1>3. /\ Head(l2m) \in Wire /\ Tail(l2m) \in Seq(Wire) /\ Len(Tail(l2m)) = Len(l2m) - 1
      /\ \A x \in 1 .. Len(Tail(l2m)) : Tail(l2m)[x] = l2m[x + 1]
  BY <1>1, HeadTailProperties
<1>4. Head(l2m) = l2m[1]
  BY <1>1, <1>2
<1> QED
  BY <1>1, <1>2, <1>3, <1>4

LEMMA ReadFailsStep ==
  ASSUME LoadInv, ReadFails
  PROVE  LoadInv'
<1>1. PipesInv /\ MonitorUp
  BY DEF LoadInv, ReadFails, MonitorUp
<1>2. /\ mpc' \in Stopped /\ UNCHANGED <<m2l, client, tables, pkt, i, inits>>
      /\ oom' \in {oom, TRUE}
      /\ l2m' = l2m \/ (l2m # <<>> /\ l2m' = Tail(l2m))
  BY DEF ReadFails, Stopped
<1>3. UNCHANGED <<Image, cmod, cpos, cinits, cpc, nb_modules>>
  BY <1>2 DEF client, tables
<1>4. l2m' \in Seq(Wire) /\ Len(l2m') <= PIPE_PACKETS
  BY <1>1, <1>2, Taken DEF PipesInv
<1>5. PipesInv'
  BY <1>1, <1>2, <1>3, <1>4 DEF PipesInv
<1>6. oom => oom'
  BY <1>2
<1> QED
  BY <1>1, <1>2, <1>3, <1>5, <1>6, StopsWithTables

LEMMA KillStep ==
  ASSUME LoadInv, Kill
  PROVE  LoadInv'
<1>1. PipesInv /\ MonitorUp /\ mpc' \in Stopped /\ cpc' = "dead"
  BY DEF LoadInv, Kill, MonitorUp, Stopped
<1>2. UNCHANGED <<l2m, m2l, Image, cmod, cpos, cinits, tables, pkt, i, inits, oom>>
  BY DEF Kill
<1>3. PipesInv'
  BY <1>1, <1>2 DEF PipesInv, tables
<1> QED
  BY <1>1, <1>2, <1>3, StopsWithTables

LEMMA RunFindsNoClientStep ==
  ASSUME LoadInv, RunFindsNoClient
  PROVE  LoadInv'
<1>1. PipesInv /\ MonitorUp /\ mpc' \in Stopped
  BY DEF LoadInv, RunFindsNoClient, MonitorUp, Stopped
<1>2. UNCHANGED <<l2m, m2l, client, tables, pkt, i, inits, oom>>
  BY DEF RunFindsNoClient
<1>3. PipesInv' /\ UNCHANGED <<Image, cpc, cmod, cpos, cinits>>
  BY <1>1, <1>2 DEF PipesInv, tables, client
<1> QED
  BY <1>1, <1>2, <1>3, StopsWithTables

LEMMA MainRunsStep ==
  ASSUME LoadInv, MainRuns
  PROVE  LoadInv'
<1>1. PipesInv /\ MonitorUp /\ mpc' \in Stopped /\ cpc' \in {cpc, "dead", "exited"}
  BY DEF LoadInv, MainRuns, MonitorUp, Stopped
<1>2. UNCHANGED <<l2m, m2l, Image, cmod, cpos, cinits, tables, pkt, i, inits, oom>>
  BY DEF MainRuns
<1>3. PipesInv'
  BY <1>1, <1>2 DEF PipesInv, tables
<1> QED
  BY <1>1, <1>2, <1>3, StopsWithTables

LEMMA FreeStep ==
  ASSUME LoadInv, monitor_data_free
  PROVE  LoadInv'
<1>1. PipesInv /\ ClientInv /\ mpc' \in Stopped /\ ~MonitorUp'
  BY DEF LoadInv, monitor_data_free, MonitorUp, Stopped
<1>2. /\ UNCHANGED <<l2m, m2l, client, pkt, i, inits, oom>>
      /\ nb_modules' \in {nb_modules, 0}
  BY DEF monitor_data_free, tables
<1>3. PipesInv' /\ UNCHANGED <<Image, cpc, cmod, cpos, cinits>>
  <2>1. cmod \in Nat
    BY <1>1, ImageFacts DEF ClientInv
  <2> QED
    BY <1>1, <1>2, <2>1 DEF PipesInv, client
<1>4. ~Whole'
  BY <1>1 DEF Whole
<1> QED
  BY <1>1, <1>3, <1>4, Stops

(* A step that goes on and moves no packet. *)
LEMMA WorksAt ==
  ASSUME LoadInv, UNCHANGED <<l2m, m2l, Image, cpc, cmod, cpos, nb_modules, pkt>>,
         Loading, mpc # "first" \/ mpc' = "first", NEW r \in Nat, At(r)
  PROVE  At(r)'
<1>1. nb_modules = 0 => mpc' = "first"
  BY DEF LoadInv, ControlInv
<1> QED
  BY <1>1 DEF At, Alive, Sent, Same, Expected

LEMMA Works ==
  ASSUME LoadInv, UNCHANGED <<l2m, m2l, Image, cpc, cmod, cpos, nb_modules, pkt>>,
         Loading, Loading', mpc # "first" \/ mpc' = "first", ClientInv', PipesInv',
         TablesTyped', ControlInv', FunctionsInv', Alive => Owed' = Expects'
  PROVE  LoadInv'
<1>1. InStep'
  BY WorksAt DEF LoadInv, InStep
<1>2. Alive' <=> Alive
  BY DEF Alive
<1> QED
  BY <1>1, <1>2 DEF LoadInv, ControlInv

LEMMA FunctionsFrame ==
  ASSUME FunctionsInv, UNCHANGED <<Image, nb_modules, modules, pkt, oom>>,
         \A m \in T!ModuleIds : Filled(m)' = Filled(m)
  PROVE  FunctionsInv'
  BY DEF FunctionsInv, FilledFrom, T!ModuleIds, current

LEMMA NoRowStep ==
  ASSUME LoadInv, NoRow
  PROVE  LoadInv'
<1>1. PipesInv /\ MonitorUp /\ mpc' \in Stopped /\ oom' = TRUE
  BY DEF LoadInv, NoRow, MonitorUp, Stopped
<1>2. UNCHANGED <<l2m, m2l, client, tables, pkt, i, inits>>
  BY DEF NoRow
<1>3. PipesInv' /\ UNCHANGED <<Image, cpc, cmod, cpos, cinits>>
  BY <1>1, <1>2 DEF PipesInv, tables, client
<1> QED
  BY <1>1, <1>2, <1>3, StopsWithTables

LEMMA InitsEndStep ==
  ASSUME LoadInv, InitsEnd
  PROVE  LoadInv'
<1>1. /\ mpc = "inits" /\ inits = 0 /\ mpc' = "first"
      /\ UNCHANGED <<l2m, m2l, Image, cpc, cmod, cpos, cinits, tables, nb_modules, modules,
                     pkt, i, inits, oom>>
  BY DEF InitsEnd, client, tables
<1>2. Loading /\ Loading' /\ Whole
  BY <1>1 DEF Loading, Stopped, Whole, MonitorUp
<1>3. ClientInv /\ PipesInv /\ ControlInv /\ FunctionsInv /\ TablesTyped /\ image' = image
  BY <1>1, <1>2 DEF LoadInv, image
<1>4. ClientInv' /\ PipesInv'
  BY <1>1, <1>2, <1>3 DEF ClientInv, PipesInv
<1>5. TablesTyped'
  BY <1>1, <1>3, TablesFrame
<1>6. ControlInv' /\ pkt.event = "END"
  BY <1>1, <1>3 DEF ControlInv
<1>7. FunctionsInv'
  BY <1>1, <1>3, <1>6, FunctionsFrame DEF Filled, current
<1>8. Alive => Owed' = Expects'
  BY <1>1, <1>2, <1>3 DEF LoadInv, Owed, Expects, InitFunctions
<1> QED
  BY <1>1, <1>2, <1>4, <1>5, <1>6, <1>7, <1>8, Works

LEMMA SectionEndsStep ==
  ASSUME LoadInv, SectionEnds
  PROVE  LoadInv'
<1>1. /\ mpc = "entries" /\ i > Len(Entries) /\ mpc' = "sections"
      /\ UNCHANGED <<l2m, m2l, Image, cpc, cmod, cpos, cinits, tables, nb_modules, modules,
                     pkt, i, inits, oom>>
  BY DEF SectionEnds, client, tables
<1>2. Loading /\ Loading' /\ Whole
  BY <1>1 DEF Loading, Stopped, Whole, MonitorUp
<1>3. ClientInv /\ PipesInv /\ ControlInv /\ FunctionsInv /\ TablesTyped /\ image' = image
  BY <1>1, <1>2 DEF LoadInv, image
<1>4. ClientInv' /\ PipesInv'
  BY <1>1, <1>2, <1>3 DEF ClientInv, PipesInv
<1>5. TablesTyped'
  BY <1>1, <1>3, TablesFrame
<1>6. ControlInv' /\ nb_modules # 0 /\ i \in 1 .. Len(Entries) + 1
  BY <1>1, <1>3 DEF ControlInv
<1>7. \A m \in T!ModuleIds : Filled(m)' = Filled(m)
  <2>1. PICK r \in Nat : At(r)
    BY <1>2 DEF LoadInv, InStep
  <2>2. pkt.event = "FUNCTION_ID" => pkt.value = Image[nb_modules].fcts
    BY <2>1, <1>3, <1>6, PktAt
  <2>3. pkt.event = "FUNCTION_ID" => i - 1 = Len(Image[nb_modules].fcts)
    <3>1. Image[nb_modules].fcts \in Seq(FctEntry)
      BY <2>1, <1>3, <1>6, ImageFacts, PktAt DEF ClientInv
    <3>2. Len(Image[nb_modules].fcts) \in Nat
      BY <3>1
    <3>3. pkt.event = "FUNCTION_ID" => Len(Entries) = Len(Image[nb_modules].fcts)
      BY <2>2 DEF Entries
    <3> QED
      BY <3>2, <3>3, <1>1, <1>6
  <2>4. \A m \in T!ModuleIds : m < current \/ m + 1 = nb_modules
    BY <1>3 DEF PipesInv, T!ModuleIds, current
  <2> QED
    BY <2>3, <2>4, <1>1 DEF Filled, current
<1>8. FunctionsInv'
  BY <1>1, <1>3, <1>7, FunctionsFrame
<1>9. Alive => Owed' = Expects'
  BY <1>1, <1>2, <1>3 DEF LoadInv, Owed, Expects, InitFunctions
<1> QED
  BY <1>1, <1>2, <1>4, <1>5, <1>6, <1>8, <1>9, Works

LEMMA InitRunStep ==
  ASSUME LoadInv, InitRun
  PROVE  LoadInv'
<1>1. /\ mpc = "inits" /\ inits > 0 /\ cpc = "inits" /\ cinits # {}
      /\ UNCHANGED <<l2m, m2l, Image, cpc, cmod, cpos, tables, nb_modules, modules,
                     pkt, i, oom>>
  BY DEF InitRun, tables
<1>2. Loading /\ Whole /\ MonitorUp
  BY <1>1 DEF Loading, Stopped, Whole, MonitorUp
<1>3. ClientInv /\ PipesInv /\ ControlInv /\ FunctionsInv /\ TablesTyped /\ image' = image
  BY <1>1, <1>2 DEF LoadInv, image
<1>4. CASE mpc' = "failed" /\ UNCHANGED <<cinits, inits>>
  <2>1. PipesInv' /\ mpc' \in Stopped
    BY <1>1, <1>3, <1>4 DEF PipesInv, Stopped
  <2> QED
    BY <2>1, <1>1, <1>2, <1>4, StopsWithTables
<1>5. CASE (\E x \in cinits : cinits' = cinits \ {x}) /\ inits' = inits - 1 /\ mpc' = mpc
  <2>1. PICK x \in cinits : cinits' = cinits \ {x}
    BY <1>5
  <2>2. inits' \in Nat /\ Loading'
    BY <1>1, <1>2, <1>3, <1>5 DEF PipesInv, Loading
  <2>3. ClientInv' /\ PipesInv'
    BY <2>1, <2>2, <1>1, <1>2, <1>3 DEF ClientInv, PipesInv
  <2>4. TablesTyped'
    BY <1>1, <1>3, TablesFrame
  <2>5. ControlInv'
    BY <1>1, <1>3, <1>5 DEF ControlInv
  <2>6. FunctionsInv'
    BY <1>1, <1>3, <1>5, FunctionsFrame DEF Filled, current
  <2>7. IsFiniteSet(cinits)
    <3>1. image.fcts \in Seq(FctEntry)
      BY <1>3, ImageFacts DEF ClientInv, image
    <3>2. IsFiniteSet(1 .. Len(image.fcts))
      BY <3>1, FS_Interval
    <3>3. cinits \subseteq 1 .. Len(image.fcts)
      BY <1>1, <1>3 DEF ClientInv, InitFunctions
    <3> QED
      BY <3>2, <3>3, FS_Subset
  <2>8. Cardinality(cinits') = Cardinality(cinits) - 1
    BY <2>1, <2>7, FS_RemoveElement
  <2>9. Owed = inits /\ Owed = Cardinality(cinits) /\ cmod = nb_modules
    <3>1. Owed = inits
      BY <1>1, <1>2 DEF LoadInv, Alive, Expects
    <3>2. cmod = nb_modules
      BY <3>1, <1>1, <1>3 DEF Owed
    <3> QED
      BY <3>1, <3>2, <1>1 DEF Owed
  <2>10. Owed' = Expects'
    BY <2>8, <2>9, <1>1, <1>5 DEF Owed, Expects
  <2> QED
    BY <2>2, <2>3, <2>4, <2>5, <2>6, <2>10, <1>1, <1>2, <1>5, Works
<1> QED
  BY <1>4, <1>5 DEF InitRun
-----------------------------------------------------------------------------
(* The entries of a section. *)
LEMMA TablesUpdate ==
  ASSUME TablesTyped, nb_modules \in Nat \ {0}, NEW m \in T!ModuleIds, NEW d,
         Keeps(modules[m], d), modules' = [modules EXCEPT ![m] = d], nb_modules' = nb_modules
  PROVE  /\ TablesTyped'
         /\ modules'[m] = d
         /\ \A k \in T!ModuleIds : k # m => modules'[k] = modules[k]
         /\ \A k \in T!ModuleIds : T!FunctionIds(k)' = T!FunctionIds(k)
<1>1. modules \in [T!ModuleIds -> Module] /\ d \in Module
  BY DEF TablesTyped, Keeps
<1>2. /\ T!ModuleIds' = T!ModuleIds
      /\ modules' \in [T!ModuleIds -> Module]
      /\ modules'[m] = d /\ \A k \in T!ModuleIds : k # m => modules'[k] = modules[k]
  BY <1>1 DEF T!ModuleIds
<1>3. \A k \in T!ModuleIds : T!FunctionIds(k)' = T!FunctionIds(k)
                             /\ modules'[k].relocations = modules[k].relocations
  BY <1>2 DEF T!FunctionIds, Keeps
<1>4. \A k \in T!ModuleIds : \A f \in T!FunctionIds(k) : Leads(modules[k].relocations[f])'
  <2> TAKE k \in T!ModuleIds
  <2> TAKE f \in T!FunctionIds(k)
  <2> DEFINE r == modules[k].relocations[f]
  <2>1. r.module \in T!ModuleIds /\ r.function \in T!FunctionIds(r.module)
    BY DEF TablesTyped, Leads
  <2>2. r' = r
    BY <1>3
  <2> HIDE DEF r
  <2>3. T!FunctionIds(r.module)' = T!FunctionIds(r.module)
    BY <2>1, <2>2, <1>3 DEF T!FunctionIds
  <2> SUFFICES Leads(r)'
    BY DEF r
  <2> QED
    BY <2>1, <2>2, <2>3, <1>2 DEF Leads
<1>5. TablesTyped'
  BY <1>2, <1>3, <1>4 DEF TablesTyped
<1> QED
  BY <1>2, <1>3, <1>5

(* What entry is in each section. *)
LEMMA EntryTyped ==
  ASSUME LoadInv, mpc = "entries", i <= Len(Entries)
  PROVE  /\ nb_modules \in 1 .. Len(Image) /\ Image \in Programs /\ i \in Nat \ {0}
         /\ current \in T!ModuleIds /\ current + 1 = nb_modules
         /\ modules \in [T!ModuleIds -> Module] /\ modata \in Module
         /\ modata = modules[current]
         /\ pkt.event \in {"FUNCTION_ID", "FUNCTION_TRANSITION", "BLOCK_TRANSITION", "BLOCK_IPD"}
         /\ Len(Entries) \in Nat
         /\ pkt.event = "FUNCTION_ID" =>
              /\ Image[nb_modules].fcts \in Seq(FctEntry)
              /\ entry = Image[nb_modules].fcts[i] /\ entry \in FctEntry
              /\ i \in 1 .. Len(Image[nb_modules].fcts)
              /\ Len(Entries) = Len(Image[nb_modules].fcts)
         /\ pkt.event = "FUNCTION_TRANSITION" => entry \in TransEntry
         /\ pkt.event = "BLOCK_TRANSITION" =>
              /\ entry \in BbEntry /\ pkt.value \in BbTable
              /\ pkt.value.f_id < modata.nb_functions
         /\ pkt.event = "BLOCK_IPD" => entry \in IpdEntry
<1>1. Loading /\ Whole
  BY DEF Loading, Stopped, Whole, MonitorUp
<1>2. ClientInv /\ PipesInv /\ ControlInv /\ TablesTyped
  BY <1>1 DEF LoadInv
<1>3. /\ nb_modules # 0 /\ pkt.event \notin {"BEGIN", "END", "TERMINATED"}
      /\ i \in 1 .. Len(Entries) + 1
      /\ pkt.event = "BLOCK_TRANSITION" => pkt.value.f_id < modata.nb_functions
  BY <1>2 DEF ControlInv
<1>4. PICK r \in Nat : At(r)
  BY <1>1 DEF LoadInv, InStep
<1>5. /\ nb_modules \in 1 .. Len(Image)
      /\ pkt.event = "FUNCTION_ID" => pkt.value = Image[nb_modules].fcts
      /\ pkt.event = "FUNCTION_TRANSITION" => pkt.value = Image[nb_modules].trans
      /\ pkt.event = "BLOCK_TRANSITION" => pkt.value \in BbTable
      /\ pkt.event = "BLOCK_IPD" => pkt.value = Image[nb_modules].ipds
  BY <1>2, <1>3, <1>4, PktAt
<1>6. Image \in Programs
  BY <1>2 DEF ClientInv
<1>7. /\ Image[nb_modules].fcts \in Seq(FctEntry) /\ Image[nb_modules].trans \in Seq(TransEntry)
      /\ Image[nb_modules].ipds \in Seq(IpdEntry) /\ Len(Image) \in Nat
  BY <1>5, <1>6, ImageFacts
<1>8. pkt.event \in {"FUNCTION_ID", "FUNCTION_TRANSITION", "BLOCK_TRANSITION", "BLOCK_IPD"}
  BY <1>2, <1>3 DEF PipesInv, Wire, Events
<1>9. i \in Nat \ {0}
  BY <1>2, <1>3 DEF PipesInv
<1>10. /\ current \in T!ModuleIds /\ current + 1 = nb_modules
       /\ modules \in [T!ModuleIds -> Module] /\ modata \in Module
       /\ modata = modules[current]
  <2>1. current \in T!ModuleIds /\ nb_modules > 0 /\ current + 1 = nb_modules
    BY <1>5, <1>7 DEF T!ModuleIds, current
  <2> QED
    BY <2>1, <1>2 DEF TablesTyped, modata
<1>11. CASE pkt.event = "FUNCTION_ID"
  <2>1. Entries = Image[nb_modules].fcts
    BY <1>5, <1>11 DEF Entries
  <2>2. i \in 1 .. Len(Image[nb_modules].fcts) /\ entry = Image[nb_modules].fcts[i] /\ Len(Entries) \in Nat
    BY <2>1, <1>7, <1>9 DEF entry
  <2>3. entry \in FctEntry
    BY <2>2, <1>7
  <2> QED
    BY <2>1, <2>2, <2>3, <1>5, <1>6, <1>7, <1>8, <1>9, <1>10, <1>11
<1>12. CASE pkt.event = "FUNCTION_TRANSITION"
  <2>1. Entries = Image[nb_modules].trans
    BY <1>5, <1>12 DEF Entries
  <2>2. i \in 1 .. Len(Image[nb_modules].trans) /\ entry = Image[nb_modules].trans[i] /\ Len(Entries) \in Nat
    BY <2>1, <1>7, <1>9 DEF entry
  <2>3. entry \in TransEntry
    BY <2>2, <1>7
  <2> QED
    BY <2>2, <2>3, <1>5, <1>6, <1>8, <1>9, <1>10, <1>12
<1>13. CASE pkt.event = "BLOCK_TRANSITION"
  <2>1. Entries = pkt.value.trans /\ pkt.value.trans \in Seq(BbEntry)
    BY <1>5, <1>13 DEF Entries, BbTable
  <2>2. i \in 1 .. Len(pkt.value.trans) /\ entry = pkt.value.trans[i] /\ Len(Entries) \in Nat
    BY <2>1, <1>9 DEF entry
  <2>3. entry \in BbEntry
    BY <2>1, <2>2
  <2> QED
    BY <2>2, <2>3, <1>3, <1>5, <1>6, <1>8, <1>9, <1>10, <1>13
<1>14. CASE pkt.event = "BLOCK_IPD"
  <2>1. Entries = Image[nb_modules].ipds
    BY <1>5, <1>14 DEF Entries
  <2>2. i \in 1 .. Len(Image[nb_modules].ipds) /\ entry = Image[nb_modules].ipds[i] /\ Len(Entries) \in Nat
    BY <2>1, <1>7, <1>9 DEF entry
  <2>3. entry \in IpdEntry
    BY <2>2, <1>7
  <2> QED
    BY <2>2, <2>3, <1>5, <1>6, <1>8, <1>9, <1>10, <1>14
<1> QED
  BY <1>8, <1>11, <1>12, <1>13, <1>14

LEMMA EntryKept ==
  ASSUME LoadInv, mpc = "entries", i <= Len(Entries), NEW e, e = EntryResult.data
  PROVE  /\ Keeps(modata, e)
         /\ pkt.event # "FUNCTION_ID" => KeepsFunctions(modata, e)
         /\ EntryResult.error \in BOOLEAN
         /\ pkt.event = "FUNCTION_ID" =>
              /\ EntryResult.alloc <=> ~EntryResult.error
              /\ ~EntryResult.error =>
                   /\ entry.f_id < modata.nb_functions
                   /\ e = FunctionIdEntry.data
<1>1. /\ modata \in Module
      /\ pkt.event \in {"FUNCTION_ID", "FUNCTION_TRANSITION", "BLOCK_TRANSITION", "BLOCK_IPD"}
      /\ pkt.event = "FUNCTION_ID" => entry \in FctEntry
      /\ pkt.event = "FUNCTION_TRANSITION" => entry \in TransEntry
      /\ pkt.event = "BLOCK_TRANSITION" =>
           /\ entry \in BbEntry /\ pkt.value \in BbTable
           /\ pkt.value.f_id < modata.nb_functions
      /\ pkt.event = "BLOCK_IPD" => entry \in IpdEntry
  BY EntryTyped
<1>2. Keeps(modata, modata) /\ KeepsFunctions(modata, modata)
  BY <1>1 DEF Keeps, KeepsFunctions
<1> DEFINE n == modata.nb_functions
<1>3. n \in Nat
  BY <1>1, ModuleFacts
<1>4. CASE pkt.event = "FUNCTION_ID"
  <2>1. EntryResult = FunctionIdEntry
    BY <1>4 DEF EntryResult
  <2> DEFINE f == entry.f_id
  <2>2. f \in Nat
    BY <1>1, <1>4 DEF FctEntry
  <2>3. /\ EntryResult.error = (f >= n) /\ EntryResult.alloc = ~(f >= n)
        /\ f >= n => e = modata
    BY <2>1 DEF FunctionIdEntry
  <2>4. f < n \/ f >= n
    BY ONLY <2>2, <1>3
  <2>5. ~(f >= n) => f < n
    BY ONLY <2>2, <1>3
  <2>6. CASE f >= n
    BY ONLY <2>3, <2>6, <1>2, <1>4
  <2>7. CASE f < n
    <3>1. Keeps(modata, e)
      BY <2>1, <2>7, <1>1, <1>4, FunctionIdKept
    <3>2. e = FunctionIdEntry.data
      BY <2>1
    <3>3. EntryResult.error \in BOOLEAN /\ (EntryResult.alloc <=> ~EntryResult.error)
      <4>1. (f >= n) = FALSE
        BY ONLY <2>2, <2>7, <1>3
      <4>2. EntryResult.error = FALSE /\ EntryResult.alloc = TRUE
        BY ONLY <2>3, <4>1
      <4> QED
        BY ONLY <4>2
    <3> QED
      BY <3>1, <3>2, <3>3, <2>7, <1>4
  <2> QED
    BY ONLY <2>4, <2>6, <2>7
<1>5. CASE pkt.event = "FUNCTION_TRANSITION"
  <2>1. EntryResult = FunctionTransitionEntry
    BY <1>5 DEF EntryResult
  <2> DEFINE f == entry.f_id
  <2>2. f \in Nat
    BY <1>1, <1>5 DEF TransEntry
  <2>3. EntryResult.error \in BOOLEAN /\ (f >= n => e = modata)
    BY <2>1 DEF FunctionTransitionEntry
  <2>4. f < n \/ f >= n
    BY ONLY <2>2, <1>3
  <2>5. CASE f >= n
    BY ONLY <2>3, <2>5, <1>2, <1>5
  <2>6. CASE f < n
    <3>1. Keeps(modata, e) /\ KeepsFunctions(modata, e)
      BY <2>1, <2>6, <1>1, <1>5, FunctionTransitionKept
    <3> QED
      BY ONLY <3>1, <2>3, <1>5
  <2> QED
    BY ONLY <2>4, <2>5, <2>6
<1>6. CASE pkt.event = "BLOCK_TRANSITION"
  <2>1. EntryResult = BlockTransitionEntry
    BY <1>6 DEF EntryResult
  <2> DEFINE f == pkt.value.f_id
             b == entry.b_id
             nb == modata.functions[f].nb_blocks
  <2>2. f \in Nat /\ b \in Nat /\ f < n
    BY <1>1, <1>6 DEF BbEntry, BbTable
  <2>3. nb \in Nat
    <3>1. f \in 0 .. n - 1 /\ n # 0
      BY ONLY <2>2, <1>3
    <3>2. modata.functions[f] \in Function
      BY <3>1, <1>1, ModuleFacts
    <3> QED
      BY <3>2, FunctionFacts
  <2>4. EntryResult.error \in BOOLEAN /\ (b >= nb => e = modata)
    BY <2>1 DEF BlockTransitionEntry
  <2>5. b < nb \/ b >= nb
    BY ONLY <2>2, <2>3
  <2>6. CASE b >= nb
    BY ONLY <2>4, <2>6, <1>2, <1>6
  <2>7. CASE b < nb
    <3>1. Keeps(modata, e) /\ KeepsFunctions(modata, e)
      BY <2>1, <2>2, <2>7, <1>1, <1>6, BlockTransitionKept
    <3> QED
      BY ONLY <3>1, <2>4, <1>6
  <2> QED
    BY ONLY <2>5, <2>6, <2>7
<1>7. CASE pkt.event = "BLOCK_IPD"
  <2>1. EntryResult = BlockIpdEntry
    BY <1>7 DEF EntryResult
  <2> DEFINE f == entry.f_id
             b == entry.b_id
             nb == modata.functions[f].nb_blocks
  <2>2. f \in Nat /\ b \in Nat
    BY <1>1, <1>7 DEF IpdEntry
  <2>3. /\ EntryResult.error \in BOOLEAN
        /\ f >= n \/ b >= nb => e = modata
    BY <2>1 DEF BlockIpdEntry
  <2>4. f < n \/ f >= n
    BY ONLY <2>2, <1>3
  <2>5. CASE f >= n
    BY ONLY <2>3, <2>5, <1>2, <1>7
  <2>6. CASE f < n /\ ~(b >= nb)
    <3>1. f \in 0 .. n - 1 /\ n # 0
      BY ONLY <2>2, <2>6, <1>3
    <3>2. modata.functions[f] \in Function
      BY <3>1, <1>1, ModuleFacts
    <3>3. nb \in Nat
      BY <3>2, FunctionFacts
    <3>4. b < nb
      BY ONLY <3>3, <2>2, <2>6
    <3>5. Keeps(modata, e) /\ KeepsFunctions(modata, e)
      BY <3>4, <2>1, <2>6, <1>1, <1>7, BlockIpdKept
    <3> QED
      BY ONLY <3>5, <2>3, <1>7
  <2>7. CASE b >= nb
    BY ONLY <2>3, <2>7, <1>2, <1>7
  <2> QED
    BY ONLY <2>4, <2>5, <2>6, <2>7
<1> QED
  BY <1>1, <1>4, <1>5, <1>6, <1>7

(* The functions the tables are filled with, when other tables change and  *)
(* when one more function is added.                                        *)
LEMMA FilledKept ==
  ASSUME NEW d, NEW e, Keeps(d, e), KeepsFunctions(d, e), d.nb_functions \in Nat,
         NEW fcts \in Seq(FctEntry), NEW n \in 0 .. Len(fcts), NEW named,
         FilledFrom(d, fcts, n, named)
  PROVE  FilledFrom(e, fcts, n, named)
<1> DEFINE nb == d.nb_functions
<1>1. nb \in Nat /\ e.nb_functions = nb /\ e.nb_entrypoint_inits = d.nb_entrypoint_inits
      /\ \A f \in 0 .. nb - 1 : e.functions[f].name = d.functions[f].name
                                 /\ e.functions[f].flags = d.functions[f].flags
  BY DEF Keeps, KeepsFunctions
<1>2. \A x \in 1 .. n : fcts[x].f_id \in Nat /\ fcts[x].f_id < nb
  <2> TAKE x \in 1 .. n
  <2>1. fcts[x] \in FctEntry
    OBVIOUS
  <2> QED
    BY <2>1 DEF FctEntry, FilledFrom
<1>3. \A x \in 1 .. n : fcts[x].f_id \in 0 .. nb - 1
  <2> TAKE x \in 1 .. n
  <2> DEFINE f == fcts[x].f_id
  <2>1. f \in Nat /\ f < nb
    BY <1>2
  <2> HIDE DEF f, nb
  <2>2. f \in 0 .. nb - 1
    BY <2>1, <1>1
  <2> QED
    BY <2>2 DEF f
<1>4. \A x \in 1 .. n :
        /\ fcts[x].f_id < e.nb_functions
        /\ e.functions[fcts[x].f_id].flags = fcts[x].f_flags
        /\ named => e.functions[fcts[x].f_id].name = fcts[x].f_name
  BY <1>1, <1>3 DEF FilledFrom
<1>5. e.nb_entrypoint_inits = Cardinality({x \in 1 .. n : fcts[x].f_flags = "FCT_INIT"})
  BY <1>1 DEF FilledFrom
<1> QED
  BY <1>4, <1>5 DEF FilledFrom

LEMMA FilledAdds ==
  ASSUME NEW d, NEW e, NEW fcts \in Seq(FctEntry), NEW n \in 1 .. Len(fcts), NEW named,
         \A x, y \in 1 .. Len(fcts) : fcts[x].f_id = fcts[y].f_id => x = y,
         d.nb_functions \in Nat, e.nb_functions = d.nb_functions,
         FilledFrom(d, fcts, n - 1, named), fcts[n].f_id < d.nb_functions,
         e.nb_entrypoint_inits =
           d.nb_entrypoint_inits + (IF fcts[n].f_flags = "FCT_INIT" THEN 1 ELSE 0),
         e.functions[fcts[n].f_id].flags = fcts[n].f_flags,
         named => e.functions[fcts[n].f_id].name = fcts[n].f_name,
         \A f \in 0 .. d.nb_functions - 1 :
           f # fcts[n].f_id => /\ e.functions[f].flags = d.functions[f].flags
                               /\ named => e.functions[f].name = d.functions[f].name
  PROVE  FilledFrom(e, fcts, n, named)
<1> DEFINE nb == d.nb_functions
<1>1. n \in Nat /\ nb \in Nat /\ n - 1 \in Nat
      /\ \A x \in 1 .. n : x = n \/ x \in 1 .. n - 1
  OBVIOUS
<1>2. \A x \in 1 .. n - 1 :
        /\ fcts[x].f_id < nb
        /\ e.functions[fcts[x].f_id].flags = fcts[x].f_flags
        /\ named => e.functions[fcts[x].f_id].name = fcts[x].f_name
  <2> TAKE x \in 1 .. n - 1
  <2> DEFINE f == fcts[x].f_id
  <2>1. fcts[x] \in FctEntry /\ x \in 1 .. Len(fcts) /\ x # n
    BY <1>1
  <2>2. /\ f < nb /\ f \in Nat
        /\ d.functions[f].flags = fcts[x].f_flags
        /\ named => d.functions[f].name = fcts[x].f_name
    BY <2>1 DEF FilledFrom, FctEntry
  <2>3. f # fcts[n].f_id
    BY <2>1
  <2> HIDE DEF f, nb
  <2>4. f \in 0 .. nb - 1
    BY <2>2, <1>1
  <2>5. f \in 0 .. d.nb_functions - 1
    BY <2>4 DEF nb
  <2>6. e.functions[f].flags = d.functions[f].flags
        /\ (named => e.functions[f].name = d.functions[f].name)
    BY <2>3, <2>5
  <2> QED
    BY <2>2, <2>6 DEF f
<1>3. \A x \in 1 .. n :
        /\ fcts[x].f_id < e.nb_functions
        /\ e.functions[fcts[x].f_id].flags = fcts[x].f_flags
        /\ named => e.functions[fcts[x].f_id].name = fcts[x].f_name
  BY <1>1, <1>2
<1> DEFINE I(k) == {x \in 1 .. k : fcts[x].f_flags = "FCT_INIT"}
<1>4. IsFiniteSet(I(n - 1))
  <2>1. IsFiniteSet(1 .. n - 1)
    BY FS_Interval, <1>1
  <2> QED
    BY <2>1, FS_Subset
<1>5. Cardinality(I(n)) =
        Cardinality(I(n - 1)) + (IF fcts[n].f_flags = "FCT_INIT" THEN 1 ELSE 0)
  <2>1. CASE fcts[n].f_flags = "FCT_INIT"
    <3>1. I(n) = I(n - 1) \cup {n} /\ n \notin I(n - 1)
      BY <2>1, <1>1
    <3>2. Cardinality(I(n - 1) \cup {n}) = Cardinality(I(n - 1)) + 1
      BY <3>1, <1>4, FS_AddElement
    <3> QED
      BY <3>1, <3>2, <2>1
  <2>2. CASE fcts[n].f_flags # "FCT_INIT"
    <3>1. I(n) = I(n - 1)
      BY <2>2, <1>1
    <3>2. Cardinality(I(n - 1)) \in Nat
      BY <1>4, FS_CardinalityType
    <3>3. Cardinality(I(n)) = Cardinality(I(n - 1))
      BY <3>1
    <3> HIDE DEF I
    <3> QED
      BY <3>2, <3>3, <2>2
  <2> QED
    BY <2>1, <2>2
<1>6. e.nb_entrypoint_inits = Cardinality(I(n))
  BY <1>5 DEF FilledFrom
<1> QED
  BY <1>3, <1>6 DEF FilledFrom

LEMMA IdsDistinct ==
  ASSUME NEW p \in Programs, NEW k \in 1 .. Len(p)
  PROVE  \A x, y \in 1 .. Len(p[k].fcts) : p[k].fcts[x].f_id = p[k].fcts[y].f_id => x = y
  BY ImageAssumption

(* What FunctionsInv says of one module. *)
FunctionsOf(m) ==
  /\ modules[m].nb_functions =
       IF m = current /\ pkt.event = "BEGIN" THEN 0 ELSE Len(Image[m + 1].fcts)
  /\ m < current \/ pkt.event \notin {"BEGIN", "FUNCTION_ID"} => modules[m].nb_functions > 0
  /\ FilledFrom(modules[m], Image[m + 1].fcts, Filled(m), ~oom)

LEMMA FunctionsEach == FunctionsInv <=> \A m \in T!ModuleIds : FunctionsOf(m)
  BY DEF FunctionsInv, FunctionsOf

(* The modules before the current one are left alone. *)
LEMMA OthersKept ==
  ASSUME FunctionsInv, UNCHANGED <<Image, nb_modules>>, oom => oom', oom \in BOOLEAN,
         NEW m \in T!ModuleIds, m < current, modules'[m] = modules[m]
  PROVE  FunctionsOf(m)'
<1>1. FunctionsOf(m)
  BY FunctionsEach
<1>2. FilledFrom(modules[m], Image[m + 1].fcts, Filled(m), ~oom) =>
        FilledFrom(modules[m], Image[m + 1].fcts, Filled(m), ~oom')
  BY DEF FilledFrom
<1>3. Filled(m)' = Filled(m) /\ m < current' /\ m # current' /\ m # current
  <2>1. current' = current /\ m # current
    BY DEF current, T!ModuleIds
  <2> QED
    BY <2>1 DEF Filled
<1> QED
  BY <1>1, <1>2, <1>3 DEF FunctionsOf

(* Any step of an entry: the new tables of the current module, whether     *)
(* their functions are as they should be, and the rest follows.            *)
LEMMA EntryStep ==
  ASSUME LoadInv, mpc = "entries", i <= Len(Entries), NEW d, Keeps(modata, d),
         modules' = [modules EXCEPT ![current] = d], i' = i + 1,
         mpc' \in {"failed", "entries"}, oom' \in BOOLEAN, oom => oom',
         UNCHANGED <<l2m, m2l, client, nb_modules, pkt, inits>>,
         mpc' = "entries" =>
           FilledFrom(d, Image[nb_modules].fcts, Filled(current)', ~oom')
  PROVE  LoadInv'
<1>1. Loading /\ Whole
  BY DEF Loading, Stopped, Whole, MonitorUp
<1>2. ClientInv /\ PipesInv /\ ControlInv /\ FunctionsInv /\ TablesTyped
  BY <1>1 DEF LoadInv
<1>3. UNCHANGED <<Image, cpc, cmod, cpos, cinits, image>>
  BY DEF client, image
<1>4. /\ nb_modules \in Nat \ {0} /\ i \in Nat \ {0} /\ Len(Entries) \in Nat
      /\ current \in T!ModuleIds /\ current + 1 = nb_modules /\ modata = modules[current]
  <2>1. /\ nb_modules \in 1 .. Len(Image) /\ Image \in Programs /\ i \in Nat \ {0}
        /\ current \in T!ModuleIds /\ current + 1 = nb_modules /\ modata = modules[current]
        /\ Len(Entries) \in Nat
    BY EntryTyped
  <2> QED
    BY <2>1, ImageFacts
<1>5. /\ TablesTyped' /\ modules'[current] = d
      /\ \A k \in T!ModuleIds : k # current => modules'[k] = modules[k]
  <2>1. Keeps(modules[current], d)
    BY <1>4
  <2> QED
    BY <2>1, <1>2, <1>4, TablesUpdate
<1>6. PipesInv'
  BY <1>2, <1>3, <1>4 DEF PipesInv
<1>7. CASE mpc' = "failed"
  BY <1>3, <1>5, <1>6, <1>7, Stops DEF Stopped
<1>8. CASE mpc' = "entries"
  <2>1. Loading' /\ ClientInv'
    BY <1>1, <1>2, <1>3, <1>8 DEF Loading, ClientInv, Stopped
  <2>2. ControlInv'
    <3>1. Entries' = Entries /\ current' = current
      BY DEF Entries, current
    <3>2. modata'.nb_functions = modata.nb_functions
      BY <3>1, <1>4, <1>5 DEF modata, Keeps
    <3>3. i' \in 1 .. Len(Entries) + 1
      BY <1>4
    <3> QED
      BY <3>1, <3>2, <3>3, <1>2, <1>8 DEF ControlInv
  <2>3. FunctionsInv'
    <3>1. \A m \in T!ModuleIds : m < current \/ m = current
      BY <1>4 DEF T!ModuleIds, current
    <3>2. ASSUME NEW m \in T!ModuleIds, m < current
          PROVE  FunctionsOf(m)'
      <4>1. modules'[m] = modules[m]
        BY <3>2, <1>4, <1>5 DEF T!ModuleIds, current
      <4> QED
        BY <4>1, <3>2, <1>2, <1>3, OthersKept DEF PipesInv
    <3>3. FunctionsOf(current)'
      <4>1. FunctionsOf(current)
        BY <1>2, <1>4, FunctionsEach
      <4>2. current' = current /\ modules'[current'] = d /\ Image'[current' + 1] = Image[nb_modules]
        BY <1>3, <1>4, <1>5 DEF current
      <4>3. d.nb_functions = modules[current].nb_functions
        BY <1>4 DEF Keeps
      <4> QED
        BY <4>1, <4>2, <4>3, <1>3, <1>4, <1>8 DEF FunctionsOf
    <3>4. T!ModuleIds' = T!ModuleIds /\ current' = current
      BY DEF T!ModuleIds, current
    <3>5. \A m \in T!ModuleIds' : FunctionsOf(m)'
      BY <3>1, <3>2, <3>3, <3>4
    <3>6. (FunctionsInv <=> \A m \in T!ModuleIds : FunctionsOf(m))'
      BY FunctionsEach, PTL
    <3> QED
      BY <3>5, <3>6
  <2>4. Alive => Owed' = Expects'
    BY <1>1, <1>3, <1>8 DEF LoadInv, Owed, Expects, InitFunctions
  <2> QED
    BY <2>1, <2>2, <2>3, <2>4, <1>1, <1>3, <1>5, <1>6, <1>8, Works
<1> QED
  BY <1>7, <1>8

(* How far the current module is filled while entries are loaded. *)
LEMMA FilledNow ==
  ASSUME LoadInv, mpc = "entries", i <= Len(Entries)
  PROVE  /\ Image[nb_modules].fcts \in Seq(FctEntry)
         /\ Len(Image[nb_modules].fcts) \in Nat
         /\ pkt.event = "FUNCTION_ID" => Filled(current) = i - 1
         /\ pkt.event # "FUNCTION_ID" => Filled(current) = Len(Image[nb_modules].fcts)
         /\ FilledFrom(modata, Image[nb_modules].fcts, Filled(current), ~oom)
<1>1. Loading /\ FunctionsInv
  BY DEF LoadInv, Loading, Stopped
<1>2. /\ nb_modules \in 1 .. Len(Image) /\ Image \in Programs /\ current \in T!ModuleIds
      /\ current + 1 = nb_modules /\ modata = modules[current]
      /\ pkt.event \in {"FUNCTION_ID", "FUNCTION_TRANSITION", "BLOCK_TRANSITION", "BLOCK_IPD"}
  BY EntryTyped
<1>3. Image[nb_modules].fcts \in Seq(FctEntry)
  BY <1>2, ImageFacts
<1>4. ~(current < current)
  BY <1>2 DEF T!ModuleIds
<1> QED
  BY <1>1, <1>2, <1>3, <1>4 DEF FunctionsInv, Filled

LEMMA LoadEntryStep ==
  ASSUME LoadInv, LoadEntry
  PROVE  LoadInv'
<1> DEFINE fcts == Image[nb_modules].fcts
<1>1. /\ mpc = "entries" /\ i <= Len(Entries) /\ i' = i + 1
      /\ modules' = [modules EXCEPT ![current] = EntryResult.data]
      /\ mpc' = IF EntryResult.error THEN "failed" ELSE "entries"
      /\ UNCHANGED <<l2m, m2l, client, nb_modules, pkt, inits, oom>>
  BY DEF LoadEntry
<1>2. PICK d : d = EntryResult.data
  OBVIOUS
<1>3. /\ Keeps(modata, d)
      /\ pkt.event # "FUNCTION_ID" => KeepsFunctions(modata, d)
      /\ pkt.event = "FUNCTION_ID" /\ ~EntryResult.error =>
           /\ entry.f_id < modata.nb_functions
           /\ d = FunctionIdEntry.data
  BY <1>1, <1>2, EntryKept
<1>4. mpc' = "failed" \/ (mpc' = "entries" /\ ~EntryResult.error)
  BY <1>1
<1>5. /\ Image \in Programs /\ nb_modules \in 1 .. Len(Image) /\ i \in Nat \ {0}
      /\ current + 1 = nb_modules /\ current \in T!ModuleIds
      /\ modata \in Module
      /\ pkt.event \in {"FUNCTION_ID", "FUNCTION_TRANSITION", "BLOCK_TRANSITION", "BLOCK_IPD"}
      /\ pkt.event = "FUNCTION_ID" =>
           entry = fcts[i] /\ entry \in FctEntry /\ i \in 1 .. Len(fcts)
  BY <1>1, EntryTyped
<1>6. /\ fcts \in Seq(FctEntry) /\ Len(fcts) \in Nat
      /\ pkt.event = "FUNCTION_ID" => Filled(current) = i - 1
      /\ pkt.event # "FUNCTION_ID" => Filled(current) = Len(fcts)
      /\ FilledFrom(modata, fcts, Filled(current), ~oom)
  BY <1>1, FilledNow
<1>7. oom' = oom /\ oom \in BOOLEAN /\ current' = current /\ Image' = Image
  BY <1>1 DEF LoadInv, PipesInv, current, client
<1>8. modata.nb_functions \in Nat
  BY <1>5, ModuleFacts
<1>9. ASSUME mpc' = "entries"
      PROVE  FilledFrom(d, fcts, Filled(current)', ~oom')
  <2>1. CASE pkt.event # "FUNCTION_ID"
    <3>1. Filled(current)' = Len(fcts)
      BY <2>1, <1>1, <1>5, <1>7, <1>9 DEF Filled, T!ModuleIds
    <3>2. FilledFrom(modata, fcts, Len(fcts), ~oom)
      BY <2>1, <1>6
    <3>3. Len(fcts) \in 0 .. Len(fcts)
      BY <1>6
    <3> HIDE DEF fcts
    <3>4. FilledFrom(d, fcts, Len(fcts), ~oom)
      BY ONLY <3>2, <3>3, <2>1, <1>3, <1>6, <1>8, FilledKept
    <3> QED
      BY <3>1, <3>4, <1>7
  <2>2. CASE pkt.event = "FUNCTION_ID"
    <3>1. Filled(current)' = i
      BY <2>2, <1>1, <1>5, <1>7, <1>9 DEF Filled, T!ModuleIds
    <3>2. /\ entry.f_id < modata.nb_functions /\ d = FunctionIdEntry.data
          /\ entry \in FctEntry
      BY <2>2, <1>3, <1>4, <1>5, <1>9
    <3>3. /\ d.nb_entrypoint_inits =
               modata.nb_entrypoint_inits + (IF entry.f_flags = "FCT_INIT" THEN 1 ELSE 0)
          /\ d.functions[entry.f_id].flags = entry.f_flags
          /\ d.functions[entry.f_id].name = entry.f_name
          /\ \A f \in 0 .. modata.nb_functions - 1 :
               f # entry.f_id => d.functions[f] = modata.functions[f]
      BY <3>2, <1>5, FunctionIdKept
    <3>4. \A x, y \in 1 .. Len(fcts) : fcts[x].f_id = fcts[y].f_id => x = y
      BY <1>5, IdsDistinct
    <3>5. FilledFrom(modata, fcts, i - 1, ~oom) /\ entry = fcts[i] /\ i \in 1 .. Len(fcts)
      BY <2>2, <1>5, <1>6
    <3>6. d.nb_functions = modata.nb_functions
      BY <1>3 DEF Keeps
    <3>7. fcts \in Seq(FctEntry)
      BY <1>6
    <3> HIDE DEF fcts
    <3>8. FilledFrom(d, fcts, i, ~oom)
      <4>1. /\ fcts[i].f_id < modata.nb_functions
            /\ d.nb_entrypoint_inits =
                 modata.nb_entrypoint_inits + (IF fcts[i].f_flags = "FCT_INIT" THEN 1 ELSE 0)
            /\ d.functions[fcts[i].f_id].flags = fcts[i].f_flags
            /\ ~oom => d.functions[fcts[i].f_id].name = fcts[i].f_name
            /\ \A f \in 0 .. modata.nb_functions - 1 :
                 f # fcts[i].f_id => /\ d.functions[f].flags = modata.functions[f].flags
                                     /\ ~oom => d.functions[f].name = modata.functions[f].name
        BY ONLY <3>2, <3>3, <3>5
      <4> QED
        BY ONLY <4>1, <3>4, <3>5, <3>6, <3>7, <1>8, FilledAdds
    <3> QED
      BY <3>1, <3>8, <1>7
  <2> QED
    BY <2>1, <2>2
<1>10. mpc' \in {"failed", "entries"} /\ oom' \in BOOLEAN /\ (oom => oom')
  BY <1>4, <1>7
<1> QED
  BY <1>1, <1>2, <1>3, <1>9, <1>10, EntryStep

LEMMA NoNameStep ==
  ASSUME LoadInv, NoName
  PROVE  LoadInv'
<1> DEFINE fcts == Image[nb_modules].fcts
<1>1. /\ mpc = "entries" /\ i <= Len(Entries) /\ i' = i + 1 /\ oom' = TRUE
      /\ EntryResult.alloc /\ pkt.event = "FUNCTION_ID"
      /\ modules' = [modules EXCEPT ![current] =
                       [EntryResult.data EXCEPT !.functions[entry.f_id].name = NULL]]
      /\ mpc' = mpc
      /\ UNCHANGED <<l2m, m2l, client, nb_modules, pkt, inits>>
  BY DEF NoName
<1>2. PICK e : e = EntryResult.data
  OBVIOUS
<1>3. PICK d : d = [e EXCEPT !.functions[entry.f_id].name = NULL]
  OBVIOUS
<1>4. /\ Keeps(modata, e) /\ entry.f_id < modata.nb_functions
      /\ e = FunctionIdEntry.data
  <2>1. /\ Keeps(modata, e)
        /\ EntryResult.alloc <=> ~EntryResult.error
        /\ ~EntryResult.error => entry.f_id < modata.nb_functions /\ e = FunctionIdEntry.data
    BY <1>1, <1>2, EntryKept
  <2> QED
    BY <2>1, <1>1
<1>5. /\ Image \in Programs /\ nb_modules \in 1 .. Len(Image) /\ i \in Nat \ {0}
      /\ current + 1 = nb_modules /\ current \in T!ModuleIds
      /\ modata \in Module
      /\ entry = fcts[i] /\ entry \in FctEntry /\ i \in 1 .. Len(fcts)
  BY <1>1, EntryTyped
<1>6. /\ fcts \in Seq(FctEntry) /\ Len(fcts) \in Nat /\ Filled(current) = i - 1
      /\ FilledFrom(modata, fcts, Filled(current), ~oom)
  BY <1>1, FilledNow
<1>7. modata.nb_functions \in Nat /\ e \in Module /\ e.nb_functions = modata.nb_functions
      /\ e.relocations = modata.relocations
  BY <1>4, <1>5, ModuleFacts DEF Keeps
<1>8. entry.f_id \in 0 .. modata.nb_functions - 1
  <2> DEFINE f == entry.f_id
             n == modata.nb_functions
  <2>1. f \in Nat /\ f < n /\ n \in Nat
    BY <1>4, <1>5, <1>7 DEF FctEntry
  <2> SUFFICES f \in 0 .. n - 1
    OBVIOUS
  <2> HIDE DEF f, n
  <2> QED
    BY <2>1
<1>9. /\ Keeps(e, d) /\ d.nb_entrypoint_inits = e.nb_entrypoint_inits
      /\ \A h \in 0 .. e.nb_functions - 1 : d.functions[h].flags = e.functions[h].flags
  <2>1. entry.f_id \in 0 .. e.nb_functions - 1 /\ e \in Module
    BY <1>7, <1>8
  <2> QED
    BY <2>1, <1>3, NamelessKept
<1>10. Keeps(modata, d)
  BY ONLY <1>7, <1>9 DEF Keeps
<1>11. FilledFrom(d, fcts, Filled(current)', ~oom')
  <2>1. Filled(current)' = i
    BY <1>1, <1>5 DEF Filled, T!ModuleIds, current
  <2>2. /\ e.nb_entrypoint_inits =
             modata.nb_entrypoint_inits + (IF entry.f_flags = "FCT_INIT" THEN 1 ELSE 0)
        /\ e.functions[entry.f_id].flags = entry.f_flags
        /\ \A f \in 0 .. modata.nb_functions - 1 :
             f # entry.f_id => e.functions[f] = modata.functions[f]
    BY <1>4, <1>5, FunctionIdKept
  <2>3. \A x, y \in 1 .. Len(fcts) : fcts[x].f_id = fcts[y].f_id => x = y
    BY <1>5, IdsDistinct
  <2>4. FilledFrom(modata, fcts, i - 1, FALSE)
    BY <1>6 DEF FilledFrom
  <2>5. d.nb_functions = modata.nb_functions
    BY <1>10 DEF Keeps
  <2>6. fcts \in Seq(FctEntry) /\ entry = fcts[i] /\ i \in 1 .. Len(fcts)
    BY <1>5, <1>6
  <2> HIDE DEF fcts
  <2>7. /\ fcts[i].f_id < modata.nb_functions
        /\ d.nb_entrypoint_inits =
             modata.nb_entrypoint_inits + (IF fcts[i].f_flags = "FCT_INIT" THEN 1 ELSE 0)
        /\ d.functions[fcts[i].f_id].flags = fcts[i].f_flags
        /\ FALSE => d.functions[fcts[i].f_id].name = fcts[i].f_name
        /\ \A f \in 0 .. modata.nb_functions - 1 :
             f # fcts[i].f_id => /\ d.functions[f].flags = modata.functions[f].flags
                                 /\ FALSE => d.functions[f].name = modata.functions[f].name
    BY ONLY <2>2, <2>6, <1>4, <1>7, <1>8, <1>9
  <2>8. FilledFrom(d, fcts, i, FALSE)
    BY ONLY <2>3, <2>4, <2>5, <2>6, <2>7, <1>7, FilledAdds
  <2> QED
    BY <2>1, <2>8, <1>1 DEF FilledFrom
<1>12. modules' = [modules EXCEPT ![current] = d]
  BY ONLY <1>1, <1>2, <1>3
<1>13. mpc' \in {"failed", "entries"} /\ oom' \in BOOLEAN /\ (oom => oom')
  BY <1>1
<1> QED
  BY <1>1, <1>10, <1>11, <1>12, <1>13, EntryStep
-----------------------------------------------------------------------------
(* A packet is taken out of the pipe. *)
LEMMA ReadOne ==
  ASSUME LoadInv, NEW r \in Nat, At(r), Read
  PROVE  /\ pkt' \in Wire /\ l2m' \in Seq(Wire) /\ Len(l2m') <= PIPE_PACKETS
         /\ Len(l2m) \in Nat \ {0} /\ Len(l2m') = Len(l2m) - 1
         /\ Same(pkt', Expected(r + 1))
         /\ \A x \in 1 .. Len(l2m') : Same(l2m'[x], Expected((r + 1) + x))
         /\ Len(Sent(nb_modules)) \in Nat /\ r <= Len(Sent(nb_modules))
         /\ nb_modules \in 0 .. Len(Image) /\ Len(Image) \in Nat /\ Image \in Programs
<1>1. ClientInv /\ PipesInv /\ l2m # <<>> /\ l2m' = Tail(l2m) /\ pkt' = Head(l2m)
  BY DEF LoadInv, Read
<1>2. /\ l2m \in Seq(Wire) /\ Len(l2m) \in Nat \ {0}
      /\ l2m' \in Seq(Wire) /\ Len(l2m') = Len(l2m) - 1 /\ Len(l2m') <= PIPE_PACKETS
      /\ \A x \in 1 .. Len(l2m') : l2m'[x] = l2m[x + 1]
      /\ Head(l2m) = l2m[1] /\ Head(l2m) \in Wire
  BY <1>1, Taken
<1>3. \A x \in 1 .. Len(l2m) : Same(l2m[x], Expected(r + x))
  BY DEF At
<1>4. Same(pkt', Expected(r + 1))
  BY <1>1, <1>2, <1>3
<1>5. \A x \in 1 .. Len(l2m') : Same(l2m'[x], Expected((r + 1) + x))
  <2> TAKE x \in 1 .. Len(l2m')
  <2>1. x + 1 \in 1 .. Len(l2m) /\ r + (x + 1) = (r + 1) + x
    BY <1>2
  <2>2. Same(l2m[x + 1], Expected(r + (x + 1)))
    BY <2>1, <1>3
  <2> QED
    BY <2>1, <2>2, <1>2
<1>6. nb_modules \in 0 .. Len(Image) /\ Len(Image) \in Nat /\ Image \in Programs
  <2>1. Image \in Programs /\ Len(Image) \in Nat /\ cmod \in 1 .. Len(Image)
    BY <1>1, ImageFacts DEF ClientInv
  <2> QED
    BY <2>1, <1>1 DEF PipesInv
<1>7. Len(Sent(nb_modules)) \in Nat
  <2>1. CASE nb_modules = 0
    BY <2>1 DEF Sent
  <2>2. CASE nb_modules # 0
    BY <2>2, <1>6, PacketFacts DEF Sent
  <2> QED
    BY <2>1, <2>2
<1> QED
  BY <1>1, <1>2, <1>4, <1>5, <1>6, <1>7 DEF At

(* The next packet of the same module. *)
LEMMA ReadOn ==
  ASSUME LoadInv, NEW r \in Nat, At(r), Read, nb_modules # 0,
         r + 1 <= Len(Sent(nb_modules)),
         UNCHANGED <<m2l, Image, cpc, cmod, cpos, nb_modules>>
  PROVE  /\ At(r + 1)'
         /\ nb_modules \in 1 .. Len(Image) /\ Image \in Programs
         /\ r + 1 \in 1 .. Len(Packets(Image[nb_modules]))
         /\ Same(pkt', Packets(Image[nb_modules])[r + 1])
<1> DEFINE S == Sent(nb_modules)
<1>1. /\ Len(l2m) \in Nat \ {0} /\ Len(l2m') = Len(l2m) - 1
      /\ Same(pkt', Expected(r + 1))
      /\ \A x \in 1 .. Len(l2m') : Same(l2m'[x], Expected((r + 1) + x))
      /\ Len(S) \in Nat
      /\ nb_modules \in 0 .. Len(Image) /\ Len(Image) \in Nat /\ Image \in Programs
  BY ReadOne
<1>2. /\ cmod \in nb_modules .. nb_modules + 1
      /\ r + Len(l2m) <= Len(S) + (cmod - nb_modules)
      /\ Alive =>
           IF cmod = nb_modules
           THEN /\ cpos >= 2 /\ r + Len(l2m) = cpos - 1
                /\ m2l # <<>> <=> cpc = "id"
           ELSE /\ cpos <= 2 /\ r + Len(l2m) = Len(S) + cpos - 1
                /\ cpc = (IF cpos = 1 THEN "send" ELSE "id")
                /\ m2l = <<>>
  BY DEF At
<1>3. S' = S /\ (Alive' <=> Alive) /\ \A k : Expected(k)' = Expected(k)
  BY DEF Sent, Alive, Expected
<1>4. Expected(r + 1) = S[r + 1] /\ S = Packets(Image[nb_modules])
  BY DEF Expected, Sent
<1>5. (r + 1) + Len(l2m') = r + Len(l2m)
  BY <1>1
<1>6. r + 1 \in 0 .. Len(S) /\ r + 1 > 0
  BY <1>1
<1>7. Same(pkt', S[r + 1])
  BY <1>1, <1>4
<1> HIDE DEF S
<1>8. /\ (r + 1 \in 0 .. Len(S))'
      /\ (IF nb_modules = 0 THEN mpc = "first" ELSE r + 1 > 0 /\ Same(pkt, S[r + 1]))'
      /\ \A x \in 1 .. Len(l2m') : Same(l2m'[x], Expected((r + 1) + x)')
      /\ (cmod \in nb_modules .. nb_modules + 1)'
      /\ ((r + 1) + Len(l2m) <= Len(S) + (cmod - nb_modules))'
  BY <1>1, <1>2, <1>3, <1>5, <1>6, <1>7 DEF Same
<1>9. (Alive =>
         IF cmod = nb_modules
         THEN /\ cpos >= 2 /\ (r + 1) + Len(l2m) = cpos - 1
              /\ m2l # <<>> <=> cpc = "id"
         ELSE /\ cpos <= 2 /\ (r + 1) + Len(l2m) = Len(S) + cpos - 1
              /\ cpc = (IF cpos = 1 THEN "send" ELSE "id")
              /\ m2l = <<>>)'
  BY <1>2, <1>3, <1>5
<1>10. At(r + 1)'
  BY <1>8, <1>9 DEF At, S
<1> QED
  BY <1>1, <1>4, <1>6, <1>7, <1>10

(* Where the monitor is when it takes the next packet of a module. *)
LEMMA SectionAt ==
  ASSUME LoadInv, mpc = "sections", Read, UNCHANGED <<m2l, client, nb_modules>>
  PROVE  /\ \E r \in Nat \ {0} :
              /\ At(r + 1)'
              /\ pkt.event = "BEGIN" <=> r = 1
              /\ pkt.event = "FUNCTION_ID" <=> r = 2
              /\ pkt'.event # "BEGIN"
              /\ pkt'.event = "FUNCTION_ID" <=> r = 1
              /\ pkt'.event = "FUNCTION_TRANSITION" <=> r = 2
              /\ pkt'.event = "END" => r > 2
         /\ pkt'.event \in Events \ {"BEGIN", "TERMINATED"}
         /\ pkt'.event = "FUNCTION_ID" => pkt'.value = Image[nb_modules].fcts
         /\ pkt'.event = "FUNCTION_TRANSITION" => pkt'.value = Image[nb_modules].trans
         /\ pkt'.event = "BLOCK_TRANSITION" => pkt'.value \in BbTable
         /\ pkt'.event = "BLOCK_IPD" => pkt'.value = Image[nb_modules].ipds
<1>1. Loading /\ ClientInv /\ PipesInv /\ ControlInv
  BY DEF LoadInv, Loading, Stopped
<1>2. nb_modules # 0 /\ pkt.event \notin {"END", "TERMINATED"}
  BY <1>1 DEF ControlInv
<1>3. PICK r \in Nat : At(r)
  BY <1>1 DEF LoadInv, InStep
<1> DEFINE im == Image[nb_modules]
           E == EndAt(im)
           N == Len(Packets(im))
<1>4. /\ nb_modules \in 1 .. Len(Image) /\ Sent(nb_modules) = Packets(im) /\ r \in 1 .. N
      /\ pkt.event = "BEGIN" <=> r = 1
      /\ pkt.event = "FUNCTION_ID" <=> r = 2
      /\ pkt.event = "END" <=> r = E
      /\ pkt.event = "TERMINATED" <=> r = E + 1
  BY <1>1, <1>2, <1>3, PktAt
<1>5. E \in Nat /\ E >= 4 /\ N \in Nat /\ (N = E \/ N = E + 1) /\ Image \in Programs
  <2>1. Image \in Programs
    BY <1>1 DEF ClientInv
  <2> QED
    BY <2>1, <1>4, PacketFacts
<1>6. r + 1 <= Len(Sent(nb_modules)) /\ r < E /\ r \in Nat \ {0}
  <2>1. r # E /\ r # E + 1 /\ r \in 1 .. N
    BY <1>2, <1>4
  <2> HIDE DEF E, N
  <2>2. r < E /\ r + 1 <= N /\ r \in Nat \ {0}
    BY <2>1, <1>5
  <2> QED
    BY <2>2, <1>4 DEF N
<1>7. UNCHANGED <<m2l, Image, cpc, cmod, cpos, nb_modules>>
  BY DEF client
<1>8. /\ At(r + 1)' /\ r + 1 \in 1 .. N /\ Same(pkt', Packets(im)[r + 1])
  BY <1>2, <1>3, <1>6, <1>7, ReadOn
<1>9. /\ pkt'.event = "BEGIN" <=> r + 1 = 1
      /\ pkt'.event = "FUNCTION_ID" <=> r + 1 = 2
      /\ pkt'.event = "FUNCTION_TRANSITION" <=> r + 1 = 3
      /\ pkt'.event = "END" <=> r + 1 = E
      /\ pkt'.event = "TERMINATED" <=> r + 1 = E + 1
      /\ r + 1 = 2 => pkt'.value = im.fcts
      /\ r + 1 = 3 => pkt'.value = im.trans
      /\ pkt'.event = "BLOCK_TRANSITION" => pkt'.value \in BbTable
      /\ pkt'.event = "BLOCK_IPD" => pkt'.value = im.ipds
  <2>1. PICK q, x : q = pkt' /\ x = r + 1
    OBVIOUS
  <2>2. x \in 1 .. Len(Packets(Image[nb_modules])) /\ Same(q, Packets(Image[nb_modules])[x])
    BY <2>1, <1>8
  <2>3. Image \in Programs /\ nb_modules \in 1 .. Len(Image)
    BY <1>4, <1>5
  <2>4. /\ q.event = "BEGIN" <=> x = 1
        /\ q.event = "FUNCTION_ID" <=> x = 2
        /\ q.event = "FUNCTION_TRANSITION" <=> x = 3
        /\ q.event = "END" <=> x = EndAt(Image[nb_modules])
        /\ q.event = "TERMINATED" <=> x = EndAt(Image[nb_modules]) + 1
        /\ x = 2 => q.value = Image[nb_modules].fcts
        /\ x = 3 => q.value = Image[nb_modules].trans
        /\ q.event = "BLOCK_TRANSITION" => q.value \in BbTable
        /\ q.event = "BLOCK_IPD" => q.value = Image[nb_modules].ipds
    BY ONLY <2>2, <2>3, EventAt
  <2> QED
    BY ONLY <2>1, <2>4 DEF im, E
<1> HIDE DEF E, N
<1>10. /\ pkt'.event # "BEGIN" /\ pkt'.event # "TERMINATED"
       /\ pkt'.event = "FUNCTION_ID" <=> r = 1
       /\ pkt'.event = "FUNCTION_TRANSITION" <=> r = 2
       /\ pkt'.event = "END" => r > 2
  <2>1. /\ r + 1 # 1 /\ r + 1 # E + 1 /\ (r + 1 = 2 <=> r = 1) /\ (r + 1 = 3 <=> r = 2)
        /\ r + 1 = E => r > 2
    BY ONLY <1>5, <1>6
  <2> QED
    BY ONLY <2>1, <1>9
<1>11. pkt'.event \in Events
  BY <1>3, ReadOne DEF Wire
<1>12. /\ pkt'.event = "FUNCTION_ID" => pkt'.value = Image[nb_modules].fcts
       /\ pkt'.event = "FUNCTION_TRANSITION" => pkt'.value = Image[nb_modules].trans
  BY ONLY <1>9 DEF im
<1> QED
  BY <1>4, <1>6, <1>8, <1>9, <1>10, <1>11, <1>12

LEMMA SectionGoesOn ==
  ASSUME LoadInv, mpc = "sections", Read, UNCHANGED <<m2l, client, nb_modules, inits, oom>>,
         mpc' \in {"entries", "relocate"}, i' \in Nat,
         \A m \in T!ModuleIds : m < current => modules'[m] = modules[m],
         TablesTyped', FunctionsOf(current)',
         mpc' = "relocate" => pkt'.event = "END",
         mpc' = "entries" =>
           /\ pkt'.event # "END" /\ i' = 1
           /\ pkt'.event = "BLOCK_TRANSITION" => pkt'.value.f_id < modata'.nb_functions
  PROVE  LoadInv'
<1>1. Loading /\ ClientInv /\ PipesInv /\ ControlInv /\ FunctionsInv
  BY DEF LoadInv, Loading, Stopped
<1>2. PICK r \in Nat \ {0} : At(r + 1)'
  BY SectionAt
<1>3. /\ pkt'.event \in Events \ {"BEGIN", "TERMINATED"}
      /\ pkt'.event = "FUNCTION_ID" => pkt'.value = Image[nb_modules].fcts
      /\ pkt'.event = "FUNCTION_TRANSITION" => pkt'.value = Image[nb_modules].trans
      /\ pkt'.event = "BLOCK_TRANSITION" => pkt'.value \in BbTable
      /\ pkt'.event = "BLOCK_IPD" => pkt'.value = Image[nb_modules].ipds
  BY SectionAt
<1>4. InStep'
  BY <1>2 DEF InStep
<1>5. UNCHANGED <<Image, cpc, cmod, cpos, cinits, image>> /\ Loading' /\ (Alive' <=> Alive)
  BY DEF client, image, Loading, Stopped, Alive
<1>6. ClientInv'
  BY <1>1, <1>5 DEF ClientInv
<1>7. PICK s \in Nat : At(s)
  BY <1>1 DEF LoadInv, InStep
<1>8. /\ pkt' \in Wire /\ l2m' \in Seq(Wire) /\ Len(l2m') <= PIPE_PACKETS
      /\ nb_modules \in 0 .. Len(Image) /\ Len(Image) \in Nat /\ Image \in Programs
  BY <1>7, ReadOne
<1>9. PipesInv'
  BY <1>1, <1>5, <1>8 DEF PipesInv
<1>10. nb_modules \in 1 .. Len(Image)
  BY <1>1, <1>8 DEF ControlInv
<1>11. mpc' = "entries" => Len(Entries') \in Nat
  <2>1. /\ Image[nb_modules].fcts \in Seq(FctEntry) /\ Image[nb_modules].trans \in Seq(TransEntry)
        /\ Image[nb_modules].ipds \in Seq(IpdEntry)
    BY <1>8, <1>10, ImageFacts
  <2>2. pkt'.event = "BLOCK_TRANSITION" => Entries' \in Seq(BbEntry)
    BY <1>3 DEF Entries, BbTable
  <2>3. pkt'.event # "BLOCK_TRANSITION" => Entries' = pkt'.value
    BY DEF Entries
  <2>4. mpc' = "entries" =>
          \/ pkt'.event = "BLOCK_TRANSITION" \/ pkt'.event = "FUNCTION_ID"
          \/ pkt'.event = "FUNCTION_TRANSITION" \/ pkt'.event = "BLOCK_IPD"
    BY <1>3 DEF Events
  <2> QED
    BY <2>1, <2>2, <2>3, <2>4, <1>3
<1>12. ControlInv'
  <2>1. mpc' = "entries" => i' \in 1 .. Len(Entries') + 1
    BY <1>11
  <2> QED
    BY <2>1, <1>3, <1>10 DEF ControlInv
<1>13. FunctionsInv'
  <2>1. T!ModuleIds' = T!ModuleIds /\ current' = current /\ oom \in BOOLEAN
    BY <1>1 DEF T!ModuleIds, current, PipesInv
  <2>2. \A m \in T!ModuleIds : m < current \/ m = current
    BY <1>8, <1>10 DEF T!ModuleIds, current
  <2>3. ASSUME NEW m \in T!ModuleIds, m < current
        PROVE  FunctionsOf(m)'
    BY <2>1, <2>3, <1>1, <1>5, OthersKept
  <2>4. \A m \in T!ModuleIds' : FunctionsOf(m)'
    BY <2>1, <2>2, <2>3
  <2>5. (FunctionsInv <=> \A m \in T!ModuleIds : FunctionsOf(m))'
    BY FunctionsEach, PTL
  <2> QED
    BY <2>4, <2>5
<1>14. Alive => Owed' = Expects'
  BY <1>1, <1>5 DEF LoadInv, Owed, Expects, InitFunctions
<1> QED
  BY <1>4, <1>5, <1>6, <1>9, <1>12, <1>13, <1>14 DEF LoadInv

(* A section other than the first leaves the functions as they are. *)
LEMMA SectionKept ==
  ASSUME LoadInv, mpc = "sections", Read, UNCHANGED <<m2l, client, nb_modules, inits, oom>>,
         mpc' \in {"entries", "relocate"}, pkt'.event # "FUNCTION_ID",
         NEW d, Keeps(modata, d), KeepsFunctions(modata, d),
         modules' = [modules EXCEPT ![current] = d], d.nb_functions > 0
  PROVE  /\ TablesTyped' /\ FunctionsOf(current)' /\ modata'.nb_functions = modata.nb_functions
         /\ \A m \in T!ModuleIds : m < current => modules'[m] = modules[m]
<1>1. Loading /\ Whole
  BY DEF Loading, Stopped, Whole, MonitorUp
<1>2. ClientInv /\ PipesInv /\ ControlInv /\ FunctionsInv /\ TablesTyped
  BY <1>1 DEF LoadInv
<1>3. /\ nb_modules \in Nat \ {0} /\ nb_modules \in 1 .. Len(Image) /\ Image \in Programs
      /\ current \in T!ModuleIds /\ current + 1 = nb_modules /\ modata = modules[current]
      /\ modata \in Module /\ current \in Nat
  <2>1. Image \in Programs /\ Len(Image) \in Nat /\ cmod \in 1 .. Len(Image)
    BY <1>2, ImageFacts DEF ClientInv
  <2>2. nb_modules \in Nat \ {0} /\ nb_modules \in 1 .. Len(Image)
    BY <2>1, <1>2 DEF PipesInv, ControlInv
  <2>3. current \in T!ModuleIds /\ current + 1 = nb_modules /\ modata = modules[current]
        /\ current \in Nat
    BY <2>2 DEF T!ModuleIds, current, modata
  <2> QED
    BY <2>1, <2>2, <2>3, <1>2 DEF TablesTyped
<1>4. /\ TablesTyped' /\ modules'[current] = d
      /\ \A k \in T!ModuleIds : k # current => modules'[k] = modules[k]
  <2>1. Keeps(modules[current], d)
    BY <1>3
  <2> QED
    BY <2>1, <1>2, <1>3, TablesUpdate
<1>5. current' = current /\ Image' = Image /\ Image[current + 1] = Image[nb_modules]
  BY <1>3 DEF current, client
<1>6. modata'.nb_functions = modata.nb_functions
  BY <1>4, <1>5 DEF modata, Keeps
<1>7. \A m \in T!ModuleIds : m < current => modules'[m] = modules[m]
  BY <1>3, <1>4 DEF T!ModuleIds
<1>8. pkt.event # "BEGIN" /\ pkt'.event # "BEGIN"
  <2>1. PICK r \in Nat \ {0} :
          /\ pkt.event = "BEGIN" <=> r = 1
          /\ pkt'.event = "FUNCTION_ID" <=> r = 1
          /\ pkt'.event # "BEGIN"
    BY SectionAt
  <2> QED
    BY <2>1
<1>9. FunctionsOf(current)'
  <2> DEFINE fcts == Image[nb_modules].fcts
  <2>1. FunctionsOf(current)
    BY <1>2, <1>3, FunctionsEach
  <2>2. ~(current < current)
    BY <1>3
  <2>3. Filled(current) = Len(fcts) /\ Filled(current)' = Len(fcts)
    BY <2>2, <1>5, <1>8 DEF Filled
  <2>4. fcts \in Seq(FctEntry) /\ Len(fcts) \in 0 .. Len(fcts)
    BY <1>3, ImageFacts
  <2>5. FilledFrom(modata, fcts, Len(fcts), ~oom) /\ modata.nb_functions = Len(fcts)
    BY <2>1, <2>3, <1>3, <1>5, <1>8 DEF FunctionsOf
  <2>6. modata.nb_functions \in Nat
    BY <1>3, ModuleFacts
  <2> HIDE DEF fcts
  <2>7. FilledFrom(d, fcts, Len(fcts), ~oom)
    BY ONLY <2>4, <2>5, <2>6, Keeps(modata, d), KeepsFunctions(modata, d), FilledKept
  <2>8. /\ modules'[current'] = d /\ d.nb_functions = Len(fcts) /\ d.nb_functions > 0
        /\ Image'[current' + 1].fcts = fcts
    BY <2>5, <1>4, <1>5, <1>6 DEF Keeps, fcts
  <2> QED
    BY <2>3, <2>7, <2>8, <1>5, <1>8 DEF FunctionsOf
<1> QED
  BY <1>4, <1>6, <1>7, <1>9

(* The first section: the tables are allocated, with relocations that lead *)
(* to function 0 of module 0.                                              *)
LEMMA FunctionsAllocated ==
  ASSUME LoadInv, mpc = "sections", Read, UNCHANGED <<m2l, client, nb_modules, inits, oom>>,
         mpc' = "entries", i' = 1, pkt'.event = "FUNCTION_ID",
         modules' = [modules EXCEPT ![current] = FunctionTables(Len(pkt'.value))]
  PROVE  /\ TablesTyped' /\ FunctionsOf(current)'
         /\ \A m \in T!ModuleIds : m < current => modules'[m] = modules[m]
<1> DEFINE fcts == Image[nb_modules].fcts
           size == Len(fcts)
<1>1. Loading /\ Whole
  BY DEF Loading, Stopped, Whole, MonitorUp
<1>2. ClientInv /\ PipesInv /\ ControlInv /\ FunctionsInv /\ TablesTyped
  BY <1>1 DEF LoadInv
<1>3. /\ nb_modules \in Nat \ {0} /\ nb_modules \in 1 .. Len(Image) /\ Image \in Programs
      /\ current \in T!ModuleIds /\ current + 1 = nb_modules /\ modata = modules[current]
      /\ modata \in Module /\ current \in Nat
  <2>1. Image \in Programs /\ Len(Image) \in Nat /\ cmod \in 1 .. Len(Image)
    BY <1>2, ImageFacts DEF ClientInv
  <2>2. nb_modules \in Nat \ {0} /\ nb_modules \in 1 .. Len(Image)
    BY <2>1, <1>2 DEF PipesInv, ControlInv
  <2>3. current \in T!ModuleIds /\ current + 1 = nb_modules /\ modata = modules[current]
        /\ current \in Nat
    BY <2>2 DEF T!ModuleIds, current, modata
  <2> QED
    BY <2>1, <2>2, <2>3, <1>2 DEF TablesTyped
<1>4. fcts \in Seq(FctEntry) /\ size \in Nat
  <2>1. fcts \in Seq(FctEntry)
    BY <1>3, ImageFacts
  <2> QED
    BY <2>1
<1>5. pkt.event = "BEGIN" /\ pkt'.value = fcts
  <2>1. pkt'.event = "FUNCTION_ID" => pkt'.value = Image[nb_modules].fcts
    BY SectionAt
  <2>2. PICK r \in Nat \ {0} :
          /\ pkt.event = "BEGIN" <=> r = 1
          /\ pkt'.event = "FUNCTION_ID" <=> r = 1
    BY SectionAt
  <2> QED
    BY <2>1, <2>2
<1>6. PICK e : e = FunctionTables(size)
  OBVIOUS
<1>7. /\ e \in Module /\ e.nb_functions = size
      /\ e.nb_entrypoint_inits = modata.nb_entrypoint_inits
      /\ \A f \in 0 .. size - 1 : e.relocations[f] = [module |-> 0, function |-> 0]
  BY <1>3, <1>4, <1>6, FunctionTablesMade
<1>8. modules \in [T!ModuleIds -> Module] /\ modules' = [modules EXCEPT ![current] = e]
  BY <1>2, <1>3, <1>5, <1>6 DEF TablesTyped
<1> HIDE DEF fcts, size
<1>9. /\ modules' \in [T!ModuleIds -> Module] /\ modules'[current] = e
      /\ \A k \in T!ModuleIds : k # current => modules'[k] = modules[k]
      /\ T!ModuleIds' = T!ModuleIds
  BY <1>3, <1>7, <1>8 DEF T!ModuleIds
<1>10. FunctionsOf(current) /\ modata.nb_functions = 0
  BY <1>2, <1>3, <1>5, FunctionsEach DEF FunctionsOf
<1>11. \A m \in T!ModuleIds : m < current => modules'[m] = modules[m]
  BY <1>3, <1>9 DEF T!ModuleIds
<1>12. TablesTyped'
  <2>1. ASSUME NEW m \in T!ModuleIds, NEW f \in T!FunctionIds(m)'
        PROVE  Leads(modules[m].relocations[f])'
    <3>1. CASE m = current
      <4>1. f \in 0 .. size - 1
        BY <3>1, <2>1, <1>7, <1>9 DEF T!FunctionIds
      <4>2. modules'[m].relocations[f] = [module |-> 0, function |-> 0]
        BY <3>1, <4>1, <1>7, <1>9
      <4>3. 0 \in T!ModuleIds
        BY <1>3 DEF T!ModuleIds
      <4>4. 0 \in T!FunctionIds(0)'
        <5>1. CASE current = 0
          <6>1. 0 \in 0 .. size - 1
            BY <4>1, <1>4
          <6> QED
            BY <5>1, <6>1, <1>7, <1>9 DEF T!FunctionIds
        <5>2. CASE current # 0
          <6>1. 0 < current
            BY <5>2, <1>3
          <6>2. FunctionsOf(0) /\ modules'[0] = modules[0]
            BY <4>3, <6>1, <1>2, <1>11, FunctionsEach
          <6>3. modules[0].nb_functions > 0
            BY <6>1, <6>2 DEF FunctionsOf
          <6> DEFINE n == modules[0].nb_functions
          <6>4. n \in Nat /\ n > 0
            BY <6>3, <4>3, <1>8, ModuleFacts
          <6>5. T!FunctionIds(0)' = 0 .. n - 1
            BY <6>2 DEF T!FunctionIds
          <6> HIDE DEF n
          <6>6. 0 \in 0 .. n - 1
            BY <6>4
          <6> QED
            BY <6>5, <6>6
        <5> QED
          BY <5>1, <5>2
      <4> QED
        BY <4>2, <4>3, <4>4, <1>9 DEF Leads
    <3>2. CASE m # current
      <4>1. modules'[m] = modules[m] /\ f \in T!FunctionIds(m)
        BY <3>2, <2>1, <1>9 DEF T!FunctionIds
      <4> DEFINE r == modules[m].relocations[f]
      <4>2. r.module \in T!ModuleIds /\ r.function \in T!FunctionIds(r.module)
        BY <4>1, <1>2, <1>3 DEF TablesTyped, Leads
      <4>3. r' = r
        BY <4>1
      <4> HIDE DEF r
      <4>4. r.module # current
        <5>1. T!FunctionIds(current) = {}
          BY <1>3, <1>10 DEF T!FunctionIds
        <5> QED
          BY <5>1, <4>2
      <4>5. T!FunctionIds(r.module)' = T!FunctionIds(r.module)
        BY <4>2, <4>3, <4>4, <1>9 DEF T!FunctionIds
      <4> SUFFICES Leads(r)'
        BY DEF r
      <4> QED
        BY <4>2, <4>3, <4>5, <1>9 DEF Leads
    <3> QED
      BY <3>1, <3>2
  <2> QED
    BY <2>1, <1>9 DEF TablesTyped
<1>13. FunctionsOf(current)'
  <2>1. current' = current /\ Image' = Image /\ Image[current + 1] = Image[nb_modules]
    BY <1>3 DEF current, client
  <2>2. ~(current < current)
    BY <1>3
  <2>3. Filled(current) = 0 /\ Filled(current)' = 0
    BY <2>1, <2>2, <1>5 DEF Filled
  <2>4. FilledFrom(modata, fcts, 0, ~oom)
    BY <2>1, <2>3, <1>3, <1>10 DEF FunctionsOf, fcts
  <2>5. FilledFrom(e, fcts, 0, ~oom)
    BY <2>4, <1>7 DEF FilledFrom
  <2>6. modules'[current'] = e /\ Image'[current' + 1].fcts = fcts
    BY <2>1, <1>9 DEF fcts
  <2> QED
    BY <2>1, <2>2, <2>3, <2>5, <2>6, <1>7 DEF FunctionsOf, size
<1> QED
  BY <1>11, <1>12, <1>13

LEMMA SectionPacketStep ==
  ASSUME LoadInv, SectionPacket
  PROVE  LoadInv'
<1>1. /\ mpc = "sections" /\ Read /\ UNCHANGED <<m2l, client, nb_modules, inits>>
      /\ \/ pkt'.event = "END" /\ mpc' = "relocate" /\ UNCHANGED <<modules, i, oom>>
         \/ mpc' = "failed" /\ UNCHANGED <<modules, i, oom>>
         \/ /\ pkt'.event # "END" /\ ~SectionRefused
            /\ modules' = [modules EXCEPT ![current] = Allocated]
            /\ mpc' = "entries" /\ i' = 1 /\ UNCHANGED oom
         \/ mpc' = "failed" /\ oom' = TRUE /\ UNCHANGED i
  BY DEF SectionPacket
<1>2. Loading /\ Whole /\ MonitorUp
  BY <1>1 DEF Loading, Stopped, Whole, MonitorUp
<1>3. ClientInv /\ PipesInv /\ ControlInv /\ FunctionsInv /\ TablesTyped
  BY <1>2 DEF LoadInv
<1>4. UNCHANGED <<Image, cpc, cmod, cpos, cinits>>
  BY <1>1 DEF client
<1>5. PICK s \in Nat : At(s)
  BY <1>2 DEF LoadInv, InStep
<1>6. pkt' \in Wire /\ l2m' \in Seq(Wire) /\ Len(l2m') <= PIPE_PACKETS
  BY <1>1, <1>5, ReadOne
<1>7. CASE mpc' = "failed" /\ UNCHANGED <<modules, i, oom>>
  <2>1. PipesInv' /\ mpc' \in Stopped /\ UNCHANGED tables /\ (oom => oom')
    BY <1>1, <1>3, <1>4, <1>6, <1>7 DEF PipesInv, Stopped, tables
  <2> QED
    BY <2>1, <1>2, <1>4, StopsWithTables
<1>8. CASE mpc' = "failed" /\ oom' = TRUE /\ UNCHANGED i
  <2>1. PipesInv' /\ mpc' \in Stopped
    BY <1>1, <1>3, <1>4, <1>6, <1>8 DEF PipesInv, Stopped
  <2>2. ~Whole'
    BY <1>8 DEF Whole, Loading, Stopped
  <2> QED
    BY <2>1, <2>2, <1>4, Stops
<1>9. /\ current \in T!ModuleIds /\ modata = modules[current] /\ modata \in Module
      /\ modata.nb_functions \in Nat /\ modules \in [T!ModuleIds -> Module]
  <2>1. nb_modules \in Nat \ {0}
    <3>1. Image \in Programs /\ Len(Image) \in Nat /\ cmod \in 1 .. Len(Image)
      BY <1>3, ImageFacts DEF ClientInv
    <3> QED
      BY <3>1, <1>1, <1>3 DEF PipesInv, ControlInv
  <2>2. current \in T!ModuleIds /\ modata = modules[current] /\ nb_modules > 0
    BY <2>1 DEF T!ModuleIds, current, modata
  <2> QED
    BY <2>2, <1>3, ModuleFacts DEF TablesTyped
<1>10. i \in Nat
  BY <1>3 DEF PipesInv
<1>11. CASE pkt'.event = "END" /\ mpc' = "relocate" /\ UNCHANGED <<modules, i, oom>>
  <2>1. Keeps(modata, modata) /\ KeepsFunctions(modata, modata)
    BY <1>9 DEF Keeps, KeepsFunctions
  <2>2. modules' = [modules EXCEPT ![current] = modata]
    BY <1>9, <1>11
  <2>3. modata.nb_functions > 0
    <3>1. PICK r \in Nat \ {0} :
            /\ pkt.event = "BEGIN" <=> r = 1
            /\ pkt.event = "FUNCTION_ID" <=> r = 2
            /\ pkt'.event = "END" => r > 2
      BY <1>1, SectionAt
    <3>2. pkt.event \notin {"BEGIN", "FUNCTION_ID"}
      BY <3>1, <1>11
    <3> QED
      BY <3>2, <1>3, <1>9 DEF FunctionsInv
  <2>4. /\ TablesTyped' /\ FunctionsOf(current)'
        /\ \A m \in T!ModuleIds : m < current => modules'[m] = modules[m]
    BY <2>1, <2>2, <2>3, <1>1, <1>11, SectionKept
  <2> QED
    BY <2>4, <1>1, <1>10, <1>11, SectionGoesOn
<1>12. CASE /\ pkt'.event # "END" /\ ~SectionRefused
            /\ modules' = [modules EXCEPT ![current] = Allocated]
            /\ mpc' = "entries" /\ i' = 1 /\ UNCHANGED oom
  <2>1. pkt'.event \in {"FUNCTION_ID", "FUNCTION_TRANSITION", "BLOCK_TRANSITION", "BLOCK_IPD"}
    BY <1>1, <1>12, SectionAt DEF Events
  <2>2. CASE pkt'.event = "FUNCTION_ID"
    <3>1. Allocated = FunctionTables(Len(pkt'.value))
      BY <2>2 DEF Allocated
    <3>2. /\ TablesTyped' /\ FunctionsOf(current)'
          /\ \A m \in T!ModuleIds : m < current => modules'[m] = modules[m]
      BY <3>1, <2>2, <1>1, <1>12, FunctionsAllocated
    <3> QED
      BY <3>2, <2>2, <1>1, <1>12, SectionGoesOn
  <2>3. CASE pkt'.event \in {"FUNCTION_TRANSITION", "BLOCK_IPD"}
    <3>1. Allocated = modata
      BY <2>3 DEF Allocated
    <3>2. Keeps(modata, modata) /\ KeepsFunctions(modata, modata)
      BY <1>9 DEF Keeps, KeepsFunctions
    <3>3. modata.nb_functions > 0
      <4>1. CASE pkt'.event = "FUNCTION_TRANSITION"
        <5>1. modata.nb_functions # 0
          BY <4>1, <1>12 DEF SectionRefused
        <5> QED
          BY <5>1, <1>9
      <4>2. CASE pkt'.event = "BLOCK_IPD"
        <5>1. PICK r \in Nat \ {0} :
                /\ pkt.event = "BEGIN" <=> r = 1
                /\ pkt.event = "FUNCTION_ID" <=> r = 2
                /\ pkt'.event = "FUNCTION_ID" <=> r = 1
                /\ pkt'.event = "FUNCTION_TRANSITION" <=> r = 2
          BY <1>1, SectionAt
        <5>2. pkt.event \notin {"BEGIN", "FUNCTION_ID"}
          BY <5>1, <4>2
        <5> QED
          BY <5>2, <1>3, <1>9 DEF FunctionsInv
      <4> QED
        BY <4>1, <4>2, <2>3
    <3>4. /\ TablesTyped' /\ FunctionsOf(current)'
          /\ \A m \in T!ModuleIds : m < current => modules'[m] = modules[m]
      BY <3>1, <3>2, <3>3, <2>3, <1>1, <1>12, SectionKept
    <3> QED
      BY <3>4, <2>3, <1>1, <1>12, SectionGoesOn
  <2>4. CASE pkt'.event = "BLOCK_TRANSITION"
    <3> DEFINE f == pkt'.value.f_id
               size == pkt'.value.num_block
    <3>1. PICK d : d = BlockTables(f, size)
      OBVIOUS
    <3>2. Allocated = d
      BY <3>1, <2>4 DEF Allocated
    <3>3. f \in Nat /\ size \in Nat
      <4>1. pkt'.value \in BbTable
        BY <2>4, <1>1, SectionAt
      <4> QED
        BY <4>1 DEF BbTable
    <3>4. modata.nb_functions # 0 /\ ~(f >= modata.nb_functions)
      BY <2>4, <1>12 DEF SectionRefused
    <3>5. f \in 0 .. modata.nb_functions - 1 /\ f < modata.nb_functions
          /\ modata.nb_functions > 0
      <4> DEFINE n == modata.nb_functions
      <4>1. n \in Nat /\ n # 0 /\ ~(f >= n)
        BY <3>4, <1>9
      <4> SUFFICES f \in 0 .. n - 1 /\ f < n /\ n > 0
        OBVIOUS
      <4> HIDE DEF f, n
      <4> QED
        BY <4>1, <3>3
    <3>6. Keeps(modata, d) /\ KeepsFunctions(modata, d)
      BY <3>1, <3>3, <3>5, <1>9, BlockTablesKept
    <3>7. d.nb_functions > 0
      BY <3>5, <3>6 DEF Keeps
    <3>8. /\ TablesTyped' /\ FunctionsOf(current)' /\ modata'.nb_functions = modata.nb_functions
          /\ \A m \in T!ModuleIds : m < current => modules'[m] = modules[m]
      BY <3>2, <3>6, <3>7, <2>4, <1>1, <1>12, SectionKept
    <3>9. pkt'.value.f_id < modata'.nb_functions
      BY <3>5, <3>8
    <3> QED
      BY <3>8, <3>9, <2>4, <1>1, <1>12, SectionGoesOn
  <2> QED
    BY <2>1, <2>2, <2>3, <2>4
<1> QED
  BY <1>1, <1>7, <1>8, <1>11, <1>12
-----------------------------------------------------------------------------
(* The tables of a new module. *)
LEMMA ModuleAdded ==
  ASSUME TablesTyped, nb_modules \in Nat, nb_modules' = nb_modules + 1,
         modules' = [m \in 0 .. nb_modules |->
                       IF m = nb_modules THEN NewModule ELSE modules[m]]
  PROVE  /\ TablesTyped'
         /\ T!ModuleIds' = T!ModuleIds \cup {nb_modules} /\ nb_modules \notin T!ModuleIds
         /\ modules'[nb_modules] = NewModule
         /\ \A m \in T!ModuleIds : modules'[m] = modules[m]
<1>1. /\ T!ModuleIds' = T!ModuleIds \cup {nb_modules} /\ nb_modules \notin T!ModuleIds
      /\ T!ModuleIds' = 0 .. nb_modules
  BY DEF T!ModuleIds
<1>2. /\ modules'[nb_modules] = NewModule
      /\ \A m \in T!ModuleIds : modules'[m] = modules[m]
  BY <1>1
<1>3. \A m \in T!ModuleIds : nb_modules > 0
  BY DEF T!ModuleIds
<1>4. modules' \in [T!ModuleIds' -> Module]
  <2>1. \A m \in T!ModuleIds' : modules'[m] \in Module
    BY <1>1, <1>2, <1>3, NewTables DEF TablesTyped
  <2> QED
    BY <2>1, <1>1
<1>5. ASSUME NEW m \in T!ModuleIds', NEW f \in T!FunctionIds(m)'
      PROVE  Leads(modules[m].relocations[f])'
  <2>2. m \in T!ModuleIds
    <3>1. CASE m = nb_modules
      <4>1. T!FunctionIds(m)' = 0 .. modules'[m].nb_functions - 1
        BY DEF T!FunctionIds
      <4>2. modules'[m].nb_functions = 0
        BY <3>1, <1>2 DEF NewModule
      <4> QED
        BY <4>1, <4>2, <1>5
    <3> QED
      BY <3>1, <1>1
  <2>3. modules'[m] = modules[m] /\ f \in T!FunctionIds(m)
    BY <2>2, <1>2, <1>5 DEF T!FunctionIds
  <2> DEFINE r == modules[m].relocations[f]
  <2>4. r.module \in T!ModuleIds /\ r.function \in T!FunctionIds(r.module)
    BY <2>2, <2>3, <1>3 DEF TablesTyped, Leads
  <2>5. r' = r
    BY <2>3
  <2> HIDE DEF r
  <2>6. T!FunctionIds(r.module)' = T!FunctionIds(r.module)
    BY <2>4, <2>5, <1>2 DEF T!FunctionIds
  <2> SUFFICES Leads(r)'
    BY DEF r
  <2> QED
    BY <2>4, <2>5, <2>6, <1>1 DEF Leads
<1>6. TablesTyped'
  BY <1>4, <1>5 DEF TablesTyped
<1> QED
  BY <1>1, <1>2, <1>6

(* BEGIN comes when all packets of the module before have been read, and   *)
(* nothing is in the pipe behind it.                                       *)
LEMMA BeginAt ==
  ASSUME LoadInv, mpc = "first", Read, pkt'.event = "BEGIN"
  PROVE  /\ nb_modules \in Nat /\ cmod = nb_modules + 1 /\ cmod \in 1 .. Len(Image)
         /\ l2m' = <<>> /\ Len(l2m') = 0 /\ Same(pkt', Marker("BEGIN"))
         /\ Alive => cpos = 2 /\ cpc = "id" /\ m2l = <<>>
<1>1. Loading /\ ClientInv /\ PipesInv /\ ControlInv
  BY DEF LoadInv, Loading, Stopped
<1>2. PICK r \in Nat : At(r)
  BY <1>1 DEF LoadInv, InStep
<1> DEFINE S == Sent(nb_modules)
<1>3. /\ Len(l2m) \in Nat \ {0} /\ Len(l2m') = Len(l2m) - 1 /\ l2m' \in Seq(Wire)
      /\ Same(pkt', Expected(r + 1)) /\ Len(S) \in Nat /\ r <= Len(S)
      /\ nb_modules \in 0 .. Len(Image) /\ Len(Image) \in Nat /\ Image \in Programs
  BY <1>2, ReadOne
<1>4. /\ cmod \in nb_modules .. nb_modules + 1
      /\ r + Len(l2m) <= Len(S) + (cmod - nb_modules)
      /\ nb_modules # 0 => r > 0
      /\ Alive =>
           IF cmod = nb_modules
           THEN /\ cpos >= 2 /\ r + Len(l2m) = cpos - 1
                /\ m2l # <<>> <=> cpc = "id"
           ELSE /\ cpos <= 2 /\ r + Len(l2m) = Len(S) + cpos - 1
                /\ cpc = (IF cpos = 1 THEN "send" ELSE "id")
                /\ m2l = <<>>
  BY <1>2 DEF At
<1>5. ~(r + 1 <= Len(S))
  <2> SUFFICES ASSUME r + 1 <= Len(S) PROVE FALSE
    OBVIOUS
  <2>1. nb_modules # 0
    <3>1. nb_modules = 0 => Len(S) = 0
      BY DEF Sent
    <3> HIDE DEF S
    <3> QED
      BY <3>1, <1>3
  <2>2. S = Packets(Image[nb_modules]) /\ Expected(r + 1) = S[r + 1]
    BY <2>1 DEF Sent, Expected
  <2>3. PICK q, x : q = pkt' /\ x = r + 1
    OBVIOUS
  <2>4. /\ x \in 1 .. Len(Packets(Image[nb_modules])) /\ Same(q, Packets(Image[nb_modules])[x])
        /\ nb_modules \in 1 .. Len(Image) /\ Image \in Programs
    BY <2>1, <2>2, <2>3, <1>3
  <2>5. q.event = "BEGIN" <=> x = 1
    BY ONLY <2>4, EventAt
  <2> QED
    BY <2>1, <2>3, <2>5, <1>4
<1>6. r = Len(S) /\ Expected(r + 1) = Marker("BEGIN")
  <2>1. r = Len(S)
    BY <1>3, <1>5
  <2> QED
    BY <2>1, <1>5 DEF Expected
<1> HIDE DEF S
<1>7. cmod = nb_modules + 1 /\ Len(l2m) = 1 /\ nb_modules \in Nat
  BY <1>3, <1>4, <1>6
<1>8. Len(l2m') = 0 /\ l2m' = <<>>
  <2>1. Len(l2m') = 0
    BY <1>3, <1>7
  <2> QED
    BY <2>1, <1>3, EmptySeq
<1>9. Alive => cpos = 2 /\ cpc = "id" /\ m2l = <<>>
  <2> SUFFICES ASSUME Alive PROVE cpos = 2 /\ cpc = "id" /\ m2l = <<>>
    OBVIOUS
  <2>1. cpos \in Nat
    <3>1. Len(Packets(image)) \in Nat
      BY <1>1, ImageOfClient
    <3> QED
      BY <3>1, <1>1 DEF ClientInv
  <2>2. r + Len(l2m) = Len(S) + cpos - 1 /\ m2l = <<>>
        /\ cpc = (IF cpos = 1 THEN "send" ELSE "id")
    BY <1>4, <1>7
  <2>3. cpos = 2
    BY <2>1, <2>2, <1>3, <1>6, <1>7
  <2> QED
    BY <2>2, <2>3
<1>10. cmod \in 1 .. Len(Image)
  BY <1>1 DEF ClientInv
<1> QED
  BY <1>3, <1>6, <1>7, <1>8, <1>9, <1>10

(* The monitor is then at the first packet of the new module. *)
LEMMA ModuleBeginAt ==
  ASSUME LoadInv, mpc = "first", Read, pkt'.event = "BEGIN", UNCHANGED <<client, inits>>,
         nb_modules' = nb_modules + 1, m2l' = Append(m2l, nb_modules), cpc # "dead"
  PROVE  At(1)' /\ cpc = "id" /\ m2l = <<>> /\ m2l' = <<nb_modules>>
<1>1. Loading
  BY DEF Loading, Stopped
<1>2. ClientInv /\ PipesInv
  BY <1>1 DEF LoadInv
<1>3. UNCHANGED <<Image, cpc, cmod, cpos, cinits, image>>
  BY DEF client, image
<1>4. /\ nb_modules \in Nat /\ cmod = nb_modules + 1 /\ cmod \in 1 .. Len(Image)
      /\ l2m' = <<>> /\ Len(l2m') = 0 /\ Same(pkt', Marker("BEGIN"))
      /\ Alive => cpos = 2 /\ cpc = "id" /\ m2l = <<>>
  BY BeginAt
<1>5. Alive /\ cpos = 2 /\ cpc = "id" /\ m2l = <<>>
  BY <1>1, <1>2, <1>4 DEF Alive, ClientInv
<1>6. m2l' = <<nb_modules>> /\ m2l' # <<>>
  BY <1>5
<1> DEFINE S == Sent(nb_modules)
<1>7. S' = Packets(image) /\ nb_modules' = cmod' /\ nb_modules' # 0
  BY <1>3, <1>4, <1>6 DEF Sent, image
<1>8. Len(S') \in Nat /\ Len(S') >= 4 /\ S'[1] = Marker("BEGIN")
  BY <1>7, <1>2, ImageOfClient
<1>9. cmod' \in Nat
  BY <1>3, <1>4
<1> HIDE DEF S
<1>10. (1 \in 0 .. Len(S))' /\ Same(pkt', S'[1]) /\ 1 > 0
  BY <1>8, <1>4
<1>11. (\A x \in 1 .. Len(l2m) : Same(l2m[x], Expected(1 + x)))'
  BY <1>4
<1>12. (cmod \in nb_modules .. nb_modules + 1)'
       /\ (1 + Len(l2m) <= Len(S) + (cmod - nb_modules))'
  <2>1. cmod' = nb_modules' /\ cmod' \in Nat /\ Len(l2m') = 0
    BY <1>7, <1>9, <1>4
  <2>2. (cmod \in nb_modules .. nb_modules + 1)' /\ cmod' - nb_modules' = 0
    <3>1. \A c \in Nat : c \in c .. c + 1 /\ c - c = 0
      OBVIOUS
    <3> QED
      BY ONLY <3>1, <2>1, Zenon
  <2>3. Len(S') \in Nat /\ Len(S') >= 4
    BY <1>8
  <2>4. 1 + Len(l2m') <= Len(S') + 0
    BY ONLY <2>1, <2>3
  <2> QED
    BY <2>2, <2>4
<1>13. (cpos >= 2 /\ 1 + Len(l2m) = cpos - 1 /\ (m2l # <<>> <=> cpc = "id"))'
  BY <1>5, <1>6, <1>3, <1>4
<1>14. At(1)'
  BY <1>7, <1>10, <1>11, <1>12, <1>13 DEF At, S
<1> QED
  BY <1>5, <1>6, <1>14

LEMMA ModuleBeginStep ==
  ASSUME LoadInv, mpc = "first", Read, pkt'.event = "BEGIN", ModuleBegin,
         UNCHANGED <<client, inits>>
  PROVE  LoadInv'
<1>1. Loading /\ Whole
  BY DEF Loading, Stopped, Whole, MonitorUp
<1>2. ClientInv /\ PipesInv /\ ControlInv /\ FunctionsInv /\ TablesTyped
  BY <1>1 DEF LoadInv
<1>3. UNCHANGED <<Image, cpc, cmod, cpos, cinits, image>>
  BY DEF client, image
<1>4. /\ nb_modules \in Nat /\ cmod = nb_modules + 1 /\ cmod \in 1 .. Len(Image)
      /\ l2m' = <<>> /\ Len(l2m') = 0 /\ Same(pkt', Marker("BEGIN"))
      /\ Alive => cpos = 2 /\ cpc = "id" /\ m2l = <<>>
  BY BeginAt
<1>5. pkt' \in Wire /\ l2m' \in Seq(Wire) /\ Len(l2m') <= PIPE_PACKETS
  <2>1. PICK r \in Nat : At(r)
    BY <1>1 DEF LoadInv, InStep
  <2> QED
    BY <2>1, ReadOne
<1>6. /\ nb_modules' = nb_modules + 1 /\ UNCHANGED <<i, inits>>
      /\ \/ /\ modules' = [m \in 0 .. nb_modules |->
                             IF m = nb_modules THEN NewModule ELSE modules[m]]
            /\ m2l' = (IF cpc = "dead" THEN m2l ELSE Append(m2l, nb_modules))
            /\ mpc' = (IF cpc = "dead" THEN "failed" ELSE "sections")
            /\ UNCHANGED oom
         \/ oom' = TRUE /\ mpc' = "failed" /\ UNCHANGED m2l
  BY DEF ModuleBegin
<1>7. Alive <=> cpc # "dead"
  BY <1>1, <1>2 DEF Alive, ClientInv
<1>8. CASE oom' = TRUE /\ mpc' = "failed" /\ UNCHANGED m2l
  <2>1. PipesInv' /\ mpc' \in Stopped
    BY <1>2, <1>3, <1>4, <1>5, <1>6, <1>8 DEF PipesInv, Stopped
  <2>2. ~Whole'
    BY <1>8 DEF Whole, Loading, Stopped
  <2> QED
    BY <2>1, <2>2, <1>3, Stops
<1>9. CASE /\ modules' = [m \in 0 .. nb_modules |->
                            IF m = nb_modules THEN NewModule ELSE modules[m]]
           /\ m2l' = (IF cpc = "dead" THEN m2l ELSE Append(m2l, nb_modules))
           /\ mpc' = (IF cpc = "dead" THEN "failed" ELSE "sections")
           /\ UNCHANGED oom
  <2>1. /\ TablesTyped'
        /\ T!ModuleIds' = T!ModuleIds \cup {nb_modules} /\ nb_modules \notin T!ModuleIds
        /\ modules'[nb_modules] = NewModule
        /\ \A m \in T!ModuleIds : modules'[m] = modules[m]
    BY <1>2, <1>4, <1>6, <1>9, ModuleAdded
  <2>2. CASE cpc = "dead"
    <3>1. PipesInv' /\ mpc' \in Stopped
      BY <2>2, <1>2, <1>3, <1>4, <1>5, <1>6, <1>9 DEF PipesInv, Stopped
    <3> QED
      BY <3>1, <2>1, <1>3, Stops
  <2>3. CASE cpc # "dead"
    <3>1. /\ cpos = 2 /\ cpc = "id" /\ m2l = <<>> /\ m2l' = Append(m2l, nb_modules)
          /\ mpc' = "sections" /\ Alive
      BY <2>3, <1>4, <1>7, <1>9
    <3>2. m2l' \in Seq(Nat) /\ Len(m2l') = 1 /\ m2l' # <<>>
      <4>1. m2l' = <<nb_modules>>
        BY <3>1
      <4> QED
        BY <4>1, <1>4
    <3>3. Loading' /\ (Alive' <=> Alive)
      BY <3>1, <1>3 DEF Loading, Stopped, Alive
    <3>4. ClientInv'
      BY <3>3, <1>1, <1>2, <1>3 DEF ClientInv
    <3>5. PipesInv'
      BY <3>2, <1>2, <1>3, <1>4, <1>5, <1>6, <1>9 DEF PipesInv
    <3>6. ControlInv'
      BY <3>1, <1>4, <1>6 DEF ControlInv
    <3>7. InStep'
      BY <2>3, <1>6, <1>9, ModuleBeginAt DEF InStep
    <3>8. FunctionsInv'
      <4>1. current' = nb_modules
        BY <1>4, <1>6 DEF current
      <4>2. ASSUME NEW m \in T!ModuleIds
            PROVE  FunctionsOf(m)'
        <5>1. FunctionsOf(m) /\ pkt.event = "END" /\ (m < current \/ m = current)
              /\ m < nb_modules /\ m # nb_modules
          BY <1>2, <1>4, FunctionsEach DEF ControlInv, T!ModuleIds, current
        <5>2. Filled(m) = Len(Image[m + 1].fcts) /\ Filled(m)' = Len(Image[m + 1].fcts)
          BY <5>1, <4>1, <1>3 DEF Filled
        <5> QED
          BY <5>1, <5>2, <4>1, <2>1, <1>3, <1>9 DEF FunctionsOf
      <4>3. PICK k : k = nb_modules
        OBVIOUS
      <4>4. FunctionsOf(k)'
        <5>1. Filled(k)' = 0 /\ ~(k < current')
          BY <4>1, <4>3, <1>4 DEF Filled
        <5>2. FilledFrom(NewModule, Image'[k + 1].fcts, 0, ~oom')
          <6>1. {x \in 1 .. 0 : Image'[k + 1].fcts[x].f_flags = "FCT_INIT"} = {}
            OBVIOUS
          <6>2. Cardinality({}) = 0
            BY FS_EmptySet
          <6> QED
            BY <6>1, <6>2 DEF FilledFrom, NewModule
        <5>3. modules'[k] = NewModule /\ NewModule.nb_functions = 0 /\ k = current'
          BY <4>1, <4>3, <2>1 DEF NewModule
        <5> QED
          BY <5>1, <5>2, <5>3 DEF FunctionsOf
      <4>5. \A m \in T!ModuleIds' : FunctionsOf(m)'
        BY <4>2, <4>3, <4>4, <2>1
      <4>6. (FunctionsInv <=> \A m \in T!ModuleIds : FunctionsOf(m))'
        BY FunctionsEach, PTL
      <4> QED
        BY <4>5, <4>6
    <3>9. Owed' = Expects'
      BY <3>1, <1>3, <1>4, <1>6 DEF Owed, Expects, image, InitFunctions
    <3> QED
      BY <3>1, <3>3, <3>4, <3>5, <3>6, <3>7, <3>8, <3>9, <2>1 DEF LoadInv
  <2> QED
    BY <2>2, <2>3
<1> QED
  BY <1>6, <1>8, <1>9

LEMMA FirstPacketStep ==
  ASSUME LoadInv, FirstPacket
  PROVE  LoadInv'
<1>1. mpc = "first" /\ Read /\ UNCHANGED <<client, inits>>
  BY DEF FirstPacket
<1>2. Loading /\ Whole /\ MonitorUp
  BY <1>1 DEF Loading, Stopped, Whole, MonitorUp
<1>3. ClientInv /\ PipesInv /\ ControlInv /\ FunctionsInv /\ TablesTyped
  BY <1>2 DEF LoadInv
<1>4. UNCHANGED <<Image, cpc, cmod, cpos, cinits, image>>
  BY <1>1 DEF client, image
<1>5. PICK r \in Nat : At(r)
  BY <1>2 DEF LoadInv, InStep
<1>6. /\ pkt' \in Wire /\ l2m' \in Seq(Wire) /\ Len(l2m') <= PIPE_PACKETS
      /\ Same(pkt', Expected(r + 1)) /\ Len(Sent(nb_modules)) \in Nat
  BY <1>1, <1>5, ReadOne
<1>7. CASE pkt'.event = "BEGIN"
  BY <1>1, <1>7, ModuleBeginStep DEF FirstPacket
<1>8. CASE pkt'.event = "TERMINATED"
  <2>1. mpc' = "final" /\ i' = 0 /\ UNCHANGED <<m2l, tables, oom, nb_modules, modules>>
    BY <1>8 DEF FirstPacket, tables
  <2>2. r + 1 <= Len(Sent(nb_modules)) /\ nb_modules # 0
    <3>1. r + 1 <= Len(Sent(nb_modules))
      BY <1>6, <1>8 DEF Expected, Same, Marker
    <3>2. nb_modules = 0 => Len(Sent(nb_modules)) = 0
      BY DEF Sent
    <3> QED
      BY <3>1, <3>2
  <2>3. At(r + 1)'
    BY <2>1, <2>2, <1>1, <1>4, <1>5, ReadOn
  <2>4. InStep' /\ Loading' /\ (Alive' <=> Alive)
    BY <2>1, <2>3, <1>4 DEF InStep, Loading, Stopped, Alive
  <2>5. ClientInv' /\ PipesInv'
    <3>1. ClientInv'
      BY <2>4, <1>2, <1>3, <1>4 DEF ClientInv
    <3>2. PipesInv'
      BY <2>1, <1>1, <1>3, <1>4, <1>6 DEF PipesInv
    <3> QED
      BY <3>1, <3>2
  <2>6. nb_modules \in Nat \ {0} /\ pkt.event = "END"
    <3>1. cmod \in Nat
      BY <1>3, ImageFacts DEF ClientInv
    <3> QED
      BY <3>1, <2>2, <1>1, <1>3 DEF PipesInv, ControlInv
  <2>7. ControlInv'
    BY <2>1, <2>6, <1>8 DEF ControlInv
  <2>8. TablesTyped'
    BY <2>1, <1>3, TablesFrame
  <2>9. FunctionsInv'
    BY <2>1, <2>6, <1>3, <1>4, <1>8 DEF FunctionsInv, FilledFrom, Filled, current, T!ModuleIds
  <2>10. Alive => Owed' = Expects'
    BY <2>1, <1>1, <1>2, <1>4 DEF LoadInv, Owed, Expects
  <2> QED
    BY <2>1, <2>4, <2>5, <2>7, <2>8, <2>9, <2>10 DEF LoadInv
<1>9. CASE pkt'.event \notin {"BEGIN", "TERMINATED"}
  <2>1. mpc' = "failed" /\ UNCHANGED <<m2l, tables, i, oom>>
    BY <1>9 DEF FirstPacket
  <2>2. PipesInv' /\ mpc' \in Stopped /\ (oom => oom')
    BY <2>1, <1>1, <1>3, <1>4, <1>6 DEF PipesInv, Stopped, tables
  <2> QED
    BY <2>1, <2>2, <1>2, <1>4, StopsWithTables
<1> QED
  BY <1>7, <1>8, <1>9
-----------------------------------------------------------------------------
(* Relocation: what compute_relocations_of_module writes leads to a        *)
(* function that another module defines.                                   *)
LEMMA ResolutionLeads ==
  ASSUME NEW mid, NEW j, NEW c \in Resolution(mid, j)
  PROVE  c[1] \in T!ModuleIds /\ c[2] \in T!FunctionIds(c[1])
<1>1. c \in Candidates(mid)
  BY DEF Resolution, Compared
<1>2. PICK k \in T!ModuleIds : \E l \in T!FunctionIds(k) : c = <<k, l>>
  BY <1>1 DEF Candidates
<1> QED
  BY <1>2

LEMMA RelocatedKept ==
  ASSUME TablesTyped, nb_modules \in Nat \ {0}, nb_modules' = nb_modules,
         NEW mid \in T!ModuleIds, modules[mid].nb_functions > 0, NEW fatal,
         modules' = Relocated(mid, fatal)
  PROVE  /\ TablesTyped'
         /\ \A m \in T!ModuleIds :
              /\ modules'[m].nb_functions = modules[m].nb_functions
              /\ modules'[m].functions = modules[m].functions
              /\ modules'[m].call_graph = modules[m].call_graph
              /\ modules'[m].nb_entrypoint_inits = modules[m].nb_entrypoint_inits
<1> DEFINE old == modules[mid]
           To(j) == IF j \in Visited(mid, fatal) \ Unresolved(mid)
                    THEN LET c == CHOOSE c \in Resolution(mid, j) : TRUE
                         IN [module |-> c[1], function |-> c[2]]
                    ELSE old.relocations[j]
           R == [j \in T!FunctionIds(mid) |-> To(j)]
           d == [old EXCEPT !.relocations = R]
<1>1. /\ modules \in [T!ModuleIds -> Module] /\ old \in Module
      /\ \A m \in T!ModuleIds : \A f \in T!FunctionIds(m) : Leads(modules[m].relocations[f])
  BY DEF TablesTyped
<1>2. modules' = [modules EXCEPT ![mid] = d]
  BY <1>1 DEF Relocated
<1>3. /\ old.nb_functions \in Nat \ {0} /\ T!FunctionIds(mid) = 0 .. old.nb_functions - 1
      /\ old.call_graph \in [0 .. old.nb_functions - 1 -> Rows(old.nb_functions)]
      /\ old.relocations \in [0 .. old.nb_functions - 1 -> Place]
      /\ old.functions \in [0 .. old.nb_functions - 1 -> Function]
      /\ old.nb_entrypoint_inits \in Nat /\ old.nb_entrypoint_finis \in Nat
  <2>1. old.nb_functions \in Nat /\ old.nb_functions > 0
    BY <1>1, ModuleFacts
  <2>2. old.nb_functions # 0
    BY <2>1
  <2>3. T!FunctionIds(mid) = 0 .. old.nb_functions - 1
    BY DEF T!FunctionIds
  <2> QED
    BY <2>1, <2>2, <2>3, <1>1, ModuleFacts
<1>4. \A j \in T!FunctionIds(mid) :
        /\ To(j) \in Place /\ To(j).module \in T!ModuleIds
        /\ To(j).function \in T!FunctionIds(To(j).module)
  <2> TAKE j \in T!FunctionIds(mid)
  <2>1. CASE j \in Visited(mid, fatal) \ Unresolved(mid)
    <3>1. Resolution(mid, j) # {}
      BY <2>1 DEF Visited, Unresolved
    <3>2. PICK c : c = CHOOSE x \in Resolution(mid, j) : TRUE
      OBVIOUS
    <3>3. c \in Resolution(mid, j)
      BY <3>1, <3>2
    <3>4. c[1] \in T!ModuleIds /\ c[2] \in T!FunctionIds(c[1])
      BY <3>3, ResolutionLeads
    <3>5. To(j) = [module |-> c[1], function |-> c[2]]
      BY <2>1, <3>2
    <3>6. c[1] \in Nat /\ c[2] \in Nat
      <4>1. T!ModuleIds \subseteq Nat
        BY DEF T!ModuleIds
      <4>2. modules[c[1]] \in Module
        BY <3>4, <1>1
      <4>3. modules[c[1]].nb_functions \in Nat
        BY <4>2, ModuleFacts
      <4>4. T!FunctionIds(c[1]) \subseteq Nat
        BY <4>3 DEF T!FunctionIds
      <4> QED
        BY <4>1, <4>4, <3>4
    <3> HIDE DEF To
    <3> QED
      BY <3>4, <3>5, <3>6 DEF Place
  <2>2. CASE j \notin Visited(mid, fatal) \ Unresolved(mid)
    <3>1. To(j) = old.relocations[j]
      BY <2>2
    <3>2. Leads(old.relocations[j]) /\ old.relocations[j] \in Place
      BY <1>1, <1>3
    <3> HIDE DEF To
    <3> QED
      BY <3>1, <3>2 DEF Leads
  <2> QED
    BY <2>1, <2>2
<1>5. d = [nb_functions |-> old.nb_functions, nb_entrypoint_inits |-> old.nb_entrypoint_inits,
           nb_entrypoint_finis |-> old.nb_entrypoint_finis, call_graph |-> old.call_graph,
           relocations |-> R, functions |-> old.functions]
  BY <1>1, ModuleExcept
<1>6. R \in [0 .. old.nb_functions - 1 -> Place]
  <2> HIDE DEF To
  <2> QED
    BY <1>3, <1>4
<1> HIDE DEF d, R, To
<1>7. /\ d \in Module /\ d.nb_functions = old.nb_functions /\ d.relocations = R
      /\ d.functions = old.functions /\ d.nb_entrypoint_inits = old.nb_entrypoint_inits
      /\ d.call_graph = old.call_graph
  <2> DEFINE n == old.nb_functions
             a == old.nb_entrypoint_inits
             b == old.nb_entrypoint_finis
             g == old.call_graph
             fs == old.functions
  <2>1. /\ n \in Nat /\ a \in Nat /\ b \in Nat /\ g \in [0 .. n - 1 -> Rows(n)]
        /\ R \in [0 .. n - 1 -> Place] /\ fs \in [0 .. n - 1 -> Function]
    BY <1>3, <1>6
  <2>2. d = [nb_functions |-> n, nb_entrypoint_inits |-> a, nb_entrypoint_finis |-> b,
             call_graph |-> g, relocations |-> R, functions |-> fs]
    BY <1>5
  <2> HIDE DEF n, a, b, g, fs
  <2>3. d \in Module
    BY ONLY <2>1, <2>2, ModuleMadeWhole
  <2>4. d.nb_functions = n /\ d.relocations = R /\ d.functions = fs
        /\ d.nb_entrypoint_inits = a /\ d.call_graph = g
    BY ONLY <2>2
  <2> QED
    BY <2>3, <2>4 DEF n, a, g, fs
<1>8. /\ modules' \in [T!ModuleIds -> Module] /\ modules'[mid] = d
      /\ \A k \in T!ModuleIds : k # mid => modules'[k] = modules[k]
      /\ T!ModuleIds' = T!ModuleIds
  BY <1>1, <1>2, <1>7 DEF T!ModuleIds
<1>9. \A m \in T!ModuleIds :
        /\ modules'[m].nb_functions = modules[m].nb_functions
        /\ modules'[m].functions = modules[m].functions
        /\ modules'[m].call_graph = modules[m].call_graph
        /\ modules'[m].nb_entrypoint_inits = modules[m].nb_entrypoint_inits
  BY <1>7, <1>8
<1>10. \A m \in T!ModuleIds : T!FunctionIds(m)' = T!FunctionIds(m)
  BY <1>9 DEF T!FunctionIds
<1>11. ASSUME NEW m \in T!ModuleIds, NEW f \in T!FunctionIds(m)
       PROVE  Leads(modules[m].relocations[f])'
  <2>1. PICK r : r = modules'[m].relocations[f]
    OBVIOUS
  <2>2. r.module \in T!ModuleIds /\ r.function \in T!FunctionIds(r.module)
    <3>1. CASE m = mid
      <4>1. r = R[f] /\ f \in T!FunctionIds(mid)
        BY <3>1, <2>1, <1>7, <1>8, <1>11
      <4>2. r = To(f)
        BY <4>1 DEF R
      <4> QED
        BY <4>1, <4>2, <1>4
    <3>2. CASE m # mid
      <4>1. r = modules[m].relocations[f]
        BY <3>2, <2>1, <1>8
      <4> QED
        BY <4>1, <1>1 DEF Leads
    <3> QED
      BY <3>1, <3>2
  <2>3. r.function \in T!FunctionIds(r.module)'
    BY <2>2, <1>10
  <2> QED
    BY <2>1, <2>2, <2>3, <1>8 DEF Leads
<1>12. TablesTyped'
  BY <1>8, <1>10, <1>11 DEF TablesTyped
<1> QED
  BY <1>9, <1>12

LEMMA FunctionsRelocated ==
  ASSUME FunctionsInv, UNCHANGED <<Image, nb_modules, pkt, oom>>,
         \A m \in T!ModuleIds :
           /\ modules'[m].nb_functions = modules[m].nb_functions
           /\ modules'[m].functions = modules[m].functions
           /\ modules'[m].nb_entrypoint_inits = modules[m].nb_entrypoint_inits,
         \A m \in T!ModuleIds : Filled(m)' = Filled(m)
  PROVE  FunctionsInv'
<1>1. T!ModuleIds' = T!ModuleIds /\ current' = current
  BY DEF T!ModuleIds, current
<1>2. ASSUME NEW m \in T!ModuleIds
      PROVE  FunctionsOf(m)'
  <2>1. FunctionsOf(m)
    BY FunctionsEach
  <2>2. FilledFrom(modules[m], Image[m + 1].fcts, Filled(m), ~oom)'
    BY <2>1 DEF FunctionsOf, FilledFrom
  <2> QED
    BY <2>1, <2>2, <1>1 DEF FunctionsOf
<1>3. (FunctionsInv <=> \A m \in T!ModuleIds : FunctionsOf(m))'
  BY FunctionsEach, PTL
<1> QED
  BY <1>1, <1>2, <1>3

LEMMA RelocateStep ==
  ASSUME LoadInv, Relocate
  PROVE  LoadInv'
<1>1. /\ mpc = "relocate"
      /\ \/ mpc' = "segv" /\ UNCHANGED <<modules, inits>>
         \/ /\ modules' = Relocated(current, FALSE)
            /\ inits' = modata.nb_entrypoint_inits /\ mpc' = "inits"
      /\ UNCHANGED <<l2m, m2l, client, nb_modules, pkt, i, oom>>
  BY DEF Relocate
<1>2. Loading /\ Whole /\ MonitorUp
  BY <1>1 DEF Loading, Stopped, Whole, MonitorUp
<1>3. ClientInv /\ PipesInv /\ ControlInv /\ FunctionsInv /\ TablesTyped
  BY <1>2 DEF LoadInv
<1>4. UNCHANGED <<Image, cpc, cmod, cpos, cinits, image>>
  BY <1>1 DEF client, image
<1>5. CASE mpc' = "segv" /\ UNCHANGED <<modules, inits>>
  <2>1. PipesInv' /\ mpc' \in Stopped /\ UNCHANGED tables
    BY <1>1, <1>3, <1>4, <1>5 DEF PipesInv, Stopped, tables
  <2> QED
    BY <2>1, <1>1, <1>2, <1>4, StopsWithTables
<1>6. CASE /\ modules' = Relocated(current, FALSE)
           /\ inits' = modata.nb_entrypoint_inits /\ mpc' = "inits"
  <2>1. /\ nb_modules \in Nat \ {0} /\ current \in T!ModuleIds /\ current \in Nat
        /\ current + 1 = nb_modules /\ pkt.event = "END"
    <3>1. cmod \in Nat
      BY <1>3, ImageFacts DEF ClientInv
    <3>2. nb_modules \in Nat \ {0} /\ pkt.event = "END"
      BY <3>1, <1>1, <1>3 DEF PipesInv, ControlInv
    <3> QED
      BY <3>2 DEF current, T!ModuleIds
  <2>2. modules[current].nb_functions > 0
    BY <2>1, <1>3 DEF FunctionsInv
  <2>3. /\ TablesTyped'
        /\ \A m \in T!ModuleIds :
             /\ modules'[m].nb_functions = modules[m].nb_functions
             /\ modules'[m].functions = modules[m].functions
             /\ modules'[m].nb_entrypoint_inits = modules[m].nb_entrypoint_inits
    BY <2>1, <2>2, <1>1, <1>3, <1>6, RelocatedKept
  <2>4. \A m \in T!ModuleIds : Filled(m)' = Filled(m)
    BY <2>1, <1>1, <1>4, <1>6 DEF Filled, current
  <2>5. FunctionsInv'
    BY <2>3, <2>4, <1>1, <1>3, <1>4, FunctionsRelocated
  <2>6. inits' \in Nat /\ inits' = Cardinality(InitFunctions(Image[nb_modules]))
    <3>1. modata \in Module
      BY <2>1, <1>3 DEF TablesTyped, modata
    <3>2. inits' \in Nat
      BY <3>1, <1>6, ModuleFacts
    <3>3. ~(current < current)
      BY <2>1
    <3>4. Filled(current) = Len(Image[nb_modules].fcts)
      BY <3>3, <2>1 DEF Filled
    <3>5. FilledFrom(modata, Image[nb_modules].fcts, Filled(current), ~oom)
      BY <2>1, <1>3 DEF FunctionsInv, modata
    <3> QED
      BY <3>2, <3>4, <3>5, <1>6 DEF FilledFrom, InitFunctions
  <2>7. Loading' /\ ClientInv' /\ PipesInv' /\ ControlInv'
    <3>1. Loading' /\ ClientInv'
      BY <1>2, <1>3, <1>4, <1>6 DEF Loading, Stopped, ClientInv
    <3>2. PipesInv'
      BY <2>6, <1>1, <1>3, <1>4 DEF PipesInv
    <3>3. ControlInv'
      BY <2>1, <1>1, <1>6 DEF ControlInv
    <3> QED
      BY <3>1, <3>2, <3>3
  <2>8. Alive => Owed' = Expects'
    <3>1. Expects = inits' /\ Expects' = inits'
      BY <2>6, <1>1, <1>6 DEF Expects
    <3>2. Owed' = Owed
      BY <1>1, <1>4 DEF Owed
    <3> QED
      BY <3>1, <3>2, <1>2 DEF LoadInv
  <2> QED
    BY <2>3, <2>5, <2>7, <2>8, <1>1, <1>2, <1>4, Works
<1> QED
  BY <1>1, <1>5, <1>6

LEMMA FinalRelocationStep ==
  ASSUME LoadInv, FinalRelocation
  PROVE  LoadInv'
<1>1. /\ mpc = "final"
      /\ UNCHANGED <<l2m, m2l, client, nb_modules, pkt, inits, oom>>
  BY DEF FinalRelocation
<1>2. Loading /\ Whole /\ MonitorUp
  BY <1>1 DEF Loading, Stopped, Whole, MonitorUp
<1>3. ClientInv /\ PipesInv /\ ControlInv /\ FunctionsInv /\ TablesTyped
  BY <1>2 DEF LoadInv
<1>4. UNCHANGED <<Image, cpc, cmod, cpos, cinits, image>>
  BY <1>1 DEF client, image
<1>5. nb_modules \in Nat \ {0} /\ pkt.event = "TERMINATED" /\ i \in 0 .. nb_modules
  <2>1. cmod \in Nat
    BY <1>3, ImageFacts DEF ClientInv
  <2> QED
    BY <2>1, <1>1, <1>3 DEF PipesInv, ControlInv
<1>6. CASE mpc' = "segv" /\ UNCHANGED <<modules, i>>
  <2>1. PipesInv' /\ mpc' \in Stopped /\ UNCHANGED tables
    BY <1>1, <1>3, <1>4, <1>6 DEF PipesInv, Stopped, tables
  <2> QED
    BY <2>1, <1>1, <1>2, <1>4, StopsWithTables
<1>7. CASE mpc' = "loaded" /\ UNCHANGED <<modules, i>>
  <2>1. Loading' /\ ClientInv' /\ PipesInv' /\ ControlInv'
    BY <1>1, <1>2, <1>3, <1>4, <1>5, <1>7
       DEF Loading, Stopped, ClientInv, PipesInv, ControlInv
  <2>2. TablesTyped'
    BY <1>1, <1>3, <1>7, TablesFrame DEF tables
  <2>3. FunctionsInv'
    BY <1>1, <1>3, <1>4, <1>7, FunctionsFrame DEF Filled, current
  <2>4. Alive => Owed' = Expects'
    BY <1>1, <1>2, <1>4, <1>7 DEF LoadInv, Owed, Expects
  <2> QED
    BY <2>1, <2>2, <2>3, <2>4, <1>1, <1>2, <1>4, Works
<1>8. CASE /\ i # nb_modules /\ modules' = Relocated(i, TRUE) /\ i' = i + 1
           /\ mpc' \in {"final", "failed"}
  <2>1. i \in T!ModuleIds /\ i' \in 0 .. nb_modules /\ i' \in Nat
    BY <1>5, <1>8 DEF T!ModuleIds
  <2>2. modules[i].nb_functions > 0
    BY <2>1, <1>3, <1>5 DEF FunctionsInv
  <2>3. /\ TablesTyped'
        /\ \A m \in T!ModuleIds :
             /\ modules'[m].nb_functions = modules[m].nb_functions
             /\ modules'[m].functions = modules[m].functions
             /\ modules'[m].nb_entrypoint_inits = modules[m].nb_entrypoint_inits
    BY <2>1, <2>2, <1>1, <1>3, <1>5, <1>8, RelocatedKept
  <2>4. PipesInv'
    BY <2>1, <1>1, <1>3, <1>4 DEF PipesInv
  <2>5. CASE mpc' = "failed"
    BY <2>3, <2>4, <2>5, <1>4, Stops DEF Stopped
  <2>6. CASE mpc' = "final"
    <3>1. \A m \in T!ModuleIds : Filled(m)' = Filled(m)
      BY <2>6, <1>1, <1>4, <1>5 DEF Filled, current
    <3>2. FunctionsInv'
      BY <3>1, <2>3, <1>1, <1>3, <1>4, FunctionsRelocated
    <3>3. Loading' /\ ClientInv'
      BY <2>6, <1>2, <1>3, <1>4 DEF Loading, Stopped, ClientInv
    <3>4. ControlInv'
      BY <2>1, <2>6, <1>1, <1>5 DEF ControlInv
    <3>5. Alive => Owed' = Expects'
      BY <2>6, <1>1, <1>2, <1>4 DEF LoadInv, Owed, Expects
    <3> QED
      BY <3>2, <3>3, <3>4, <3>5, <2>3, <2>4, <1>1, <1>2, <1>4, Works
  <2> QED
    BY <2>5, <2>6, <1>8
<1>9. \/ mpc' = "segv" /\ UNCHANGED <<modules, i>>
      \/ mpc' = "loaded" /\ UNCHANGED <<modules, i>>
      \/ /\ i # nb_modules /\ modules' = Relocated(i, TRUE) /\ i' = i + 1
         /\ mpc' \in {"final", "failed"}
  <2>1. CASE i = nb_modules
    <3>1. ~(i < nb_modules)
      BY <2>1, <1>5
    <3> QED
      BY <2>1, <3>1 DEF FinalRelocation
  <2>2. CASE i # nb_modules
    BY <2>2 DEF FinalRelocation
  <2> QED
    BY <2>1, <2>2
<1> QED
  BY <1>6, <1>7, <1>8, <1>9

LEMMA StutterStep ==
  ASSUME LoadInv, UNCHANGED vars
  PROVE  LoadInv'
<1>1. UNCHANGED <<Image, l2m, m2l, cpc, cmod, cpos, cinits, monitor, image>>
  BY DEF vars, client, image
<1>2. UNCHANGED <<nb_modules, mpc, pkt, i, inits, oom, modules>>
  BY <1>1 DEF monitor, tables
<1>3. ClientInv' /\ PipesInv'
  BY <1>1, <1>2 DEF LoadInv, ClientInv, PipesInv, Loading
<1>4. \A r \in Nat : Loading /\ At(r) => At(r)'
  BY <1>1, <1>2 DEF At, Alive, Sent, Same, Expected
<1>5. Loading /\ Alive' => Owed' = Owed /\ Alive
  BY <1>1, <1>2 DEF Alive, Owed
<1> QED
  BY <1>1, <1>3, <1>4, <1>5, ClientMoves
-----------------------------------------------------------------------------
(* The invariant holds at the start and in every step. *)
LEMMA InitLoadInv ==
  ASSUME Init
  PROVE  LoadInv
<1>1. /\ Image \in Programs /\ l2m = <<>> /\ m2l = <<>>
      /\ cpc = "send" /\ cmod = 1 /\ cpos = 1 /\ cinits = {}
      /\ mpc = "first" /\ nb_modules = 0
      /\ pkt = Marker("BEGIN") /\ i = 0 /\ inits = 0 /\ oom = FALSE
  BY DEF Init
<1>2. Len(Image) \in Nat \ {0} /\ cmod \in 1 .. Len(Image)
  BY <1>1, ImageFacts
<1>3. Len(Packets(image)) \in Nat /\ Len(Packets(image)) >= 4
  <2>1. /\ EndAt(Image[cmod]) \in Nat /\ EndAt(Image[cmod]) >= 4
        /\ \/ Len(Packets(Image[cmod])) = EndAt(Image[cmod]) + 1
           \/ Len(Packets(Image[cmod])) = EndAt(Image[cmod])
    BY <1>1, <1>2, PacketFacts
  <2> QED
    BY <2>1 DEF image
<1>4. ClientInv
  <2>1. cpos \in 1 .. Len(Packets(image)) + 1 /\ cpos <= Len(Packets(image))
    BY <1>1, <1>3
  <2> QED
    BY <2>1, <1>1, <1>2 DEF ClientInv
<1>5. PipesInv
  <2>1. Marker("BEGIN") \in Wire
    BY EmptySeq DEF Marker, Wire, Values, Events
  <2>2. pkt \in Wire /\ oom \in BOOLEAN
    BY <2>1, <1>1, Zenon
  <2>3. nb_modules = 0 /\ cmod = 1 /\ i = 0 /\ inits = 0
    BY <1>1, Zenon
  <2>4. nb_modules \in 0 .. cmod /\ i \in Nat /\ inits \in Nat
    BY <2>3
  <2>5. l2m \in Seq(Wire) /\ m2l \in Seq(Nat)
    BY <1>1, EmptySeq
  <2>6. Len(l2m) = 0 /\ Len(m2l) = 0 /\ PIPE_PACKETS \in Nat
    BY <1>1, ImageAssumption
  <2>7. Len(l2m) <= PIPE_PACKETS /\ Len(m2l) <= 1
    BY <2>6
  <2> QED
    BY <2>2, <2>4, <2>5, <2>7 DEF PipesInv
<1>6. TablesTyped /\ FunctionsInv /\ ControlInv
  <2>1. T!ModuleIds = {}
    BY <1>1 DEF T!ModuleIds
  <2> QED
    BY <2>1, <1>1 DEF TablesTyped, FunctionsInv, ControlInv
<1>7. InStep
  <2>1. Sent(nb_modules) = <<>>
    BY <1>1 DEF Sent
  <2>2. At(0)
    BY <2>1, <1>1 DEF At, Alive
  <2> QED
    BY <2>2 DEF InStep
<1>8. Owed = Expects
  BY <1>1 DEF Owed, Expects
<1> QED
  BY <1>1, <1>4, <1>5, <1>6, <1>7, <1>8 DEF LoadInv

LEMMA NextLoadInv ==
  ASSUME LoadInv, [Next]_vars
  PROVE  LoadInv'
<1>1. CASE SendPacket
  BY <1>1, SendStep
<1>2. CASE ReceiveId
  BY <1>2, ReceiveIdStep
<1>3. CASE ConstructorEnds
  BY <1>3, ConstructorEndsStep
<1>4. CASE ClientAborts
  BY <1>4, ClientAbortsStep
<1>5. CASE ClientDies
  BY <1>5, ClientDiesStep
<1>6. CASE ReadFails
  BY <1>6, ReadFailsStep
<1>7. CASE FirstPacket
  BY <1>7, FirstPacketStep
<1>8. CASE SectionPacket
  BY <1>8, SectionPacketStep
<1>9. CASE LoadEntry
  BY <1>9, LoadEntryStep
<1>10. CASE NoRow
  BY <1>10, NoRowStep
<1>11. CASE NoName
  BY <1>11, NoNameStep
<1>12. CASE SectionEnds
  BY <1>12, SectionEndsStep
<1>13. CASE Relocate
  BY <1>13, RelocateStep
<1>14. CASE InitRun
  BY <1>14, InitRunStep
<1>15. CASE InitsEnd
  BY <1>15, InitsEndStep
<1>16. CASE RunFindsNoClient
  BY <1>16, RunFindsNoClientStep
<1>17. CASE FinalRelocation
  BY <1>17, FinalRelocationStep
<1>18. CASE MainRuns
  BY <1>18, MainRunsStep
<1>19. CASE Kill
  BY <1>19, KillStep
<1>20. CASE monitor_data_free
  BY <1>20, FreeStep
<1>21. CASE UNCHANGED vars
  BY <1>21, StutterStep
<1> QED
  BY <1>1, <1>2, <1>3, <1>4, <1>5, <1>6, <1>7, <1>8, <1>9, <1>10, <1>11, <1>12, <1>13,
     <1>14, <1>15, <1>16, <1>17, <1>18, <1>19, <1>20, <1>21 DEF Next, Terminated

(* The loading phase keeps the client, the pipe and the tables in step:    *)
(* whatever the program, whatever fails, the monitor works on the sections *)
(* of one module in their order and fills the tables from them alone.      *)
THEOREM LoadInvariant == Spec => []LoadInv
<1>1. Init => LoadInv
  BY InitLoadInv
<1>2. LoadInv /\ [Next]_vars => LoadInv'
  BY NextLoadInv
<1> QED
  BY <1>1, <1>2, PTL DEF Spec

(* The control variables keep their types: in particular the pipes are     *)
(* never fuller than they can be, and the client never has two identifiers *)
(* to read.                                                                *)
THEOREM TypeTheorem == Spec => []TypeOK
<1>1. LoadInv => TypeOK
  <2> SUFFICES ASSUME LoadInv PROVE TypeOK
    OBVIOUS
  <2>1. ClientInv /\ PipesInv
    BY DEF LoadInv
  <2>2. nb_modules \in 0 .. Len(Image)
    <3>1. Image \in Programs /\ Len(Image) \in Nat /\ cmod \in 1 .. Len(Image)
      BY <2>1, ImageFacts DEF ClientInv
    <3> QED
      BY <3>1, <2>1 DEF PipesInv
  <2> QED
    BY <2>1, <2>2 DEF LoadInv, TypeOK, ClientInv, PipesInv, Stopped
<1> QED
  BY <1>1, LoadInvariant, PTL

(* Whenever monitor_run is called, to watch an initialiser or main, every  *)
(* identifier in the tables is in range.  This is the assumption from      *)
(* which MonitorRun and its theorems start.                                *)
THEOREM TablesTheorem == Spec => []TablesReady
<1>1. LoadInv => TablesReady
  <2> SUFFICES ASSUME LoadInv, mpc = "inits" \/ mpc = "loaded"
               PROVE  T!TablesSound
    BY DEF TablesReady
  <2>1. Loading /\ Whole
    BY DEF Loading, Stopped, Whole, MonitorUp
  <2>2. ClientInv /\ PipesInv /\ ControlInv /\ FunctionsInv /\ TablesTyped
    BY <2>1 DEF LoadInv
  <2>3. nb_modules \in Nat \ {0} /\ pkt.event \notin {"BEGIN", "FUNCTION_ID"}
    <3>1. cmod \in Nat
      BY <2>2, ImageFacts DEF ClientInv
    <3> QED
      BY <3>1, <2>2 DEF PipesInv, ControlInv
  <2>4. ASSUME NEW m \in T!ModuleIds
        PROVE  /\ modules[m].nb_functions \in Nat \ {0}
               /\ \A f \in T!FunctionIds(m) :
                    /\ modules[m].functions[f].flags \in T!Flags
                    /\ modules[m].functions[f].nb_blocks \in Nat
                    /\ T!CallRow(m, f) = NULL \/ T!CallRow(m, f) \subseteq T!FunctionIds(m)
                    /\ modules[m].relocations[f].module \in T!ModuleIds
                    /\ modules[m].relocations[f].function
                         \in T!FunctionIds(modules[m].relocations[f].module)
                    /\ \A b \in T!BlockIds(m, f) :
                         /\ \/ T!FlowRow(m, f, b) = NULL
                            \/ T!FlowRow(m, f, b) \subseteq T!BlockIds(m, f)
                         /\ T!Ipd(m, f, b) \in Nat
    <3> DEFINE d == modules[m]
    <3>1. d \in Module /\ d.nb_functions > 0
      BY <2>2, <2>3 DEF TablesTyped, FunctionsInv
    <3>2. d.nb_functions \in Nat /\ d.nb_functions # 0
      BY <3>1, ModuleFacts
    <3>3. /\ d.call_graph \in [0 .. d.nb_functions - 1 -> Rows(d.nb_functions)]
          /\ d.functions \in [0 .. d.nb_functions - 1 -> Function]
      BY <3>1, <3>2, ModuleFacts
    <3>4. ASSUME NEW f \in T!FunctionIds(m)
          PROVE  /\ d.functions[f].flags \in T!Flags
                 /\ d.functions[f].nb_blocks \in Nat
                 /\ T!CallRow(m, f) = NULL \/ T!CallRow(m, f) \subseteq T!FunctionIds(m)
                 /\ Leads(d.relocations[f])
                 /\ \A b \in T!BlockIds(m, f) :
                      /\ \/ T!FlowRow(m, f, b) = NULL
                         \/ T!FlowRow(m, f, b) \subseteq T!BlockIds(m, f)
                      /\ T!Ipd(m, f, b) \in Nat
      <4> DEFINE g == d.functions[f]
      <4>1. f \in 0 .. d.nb_functions - 1 /\ T!FunctionIds(m) = 0 .. d.nb_functions - 1
        BY DEF T!FunctionIds
      <4>2. g \in Function /\ d.call_graph[f] \in Rows(d.nb_functions)
        BY <4>1, <3>3
      <4>3. /\ g.flags \in T!Flags /\ g.nb_blocks \in Nat
            /\ g.nb_blocks # 0 =>
                 /\ g.control_flow_graph \in [0 .. g.nb_blocks - 1 -> Rows(g.nb_blocks)]
                 /\ g.immediate_post_dominator \in [0 .. g.nb_blocks - 1 -> Nat]
        BY <4>2, FunctionFacts
      <4>4. T!CallRow(m, f) = NULL \/ T!CallRow(m, f) \subseteq T!FunctionIds(m)
        BY <4>1, <4>2 DEF T!CallRow, Rows
      <4>5. Leads(d.relocations[f])
        BY <2>2, <2>3 DEF TablesTyped
      <4>6. ASSUME NEW b \in T!BlockIds(m, f)
            PROVE  /\ \/ T!FlowRow(m, f, b) = NULL
                      \/ T!FlowRow(m, f, b) \subseteq T!BlockIds(m, f)
                   /\ T!Ipd(m, f, b) \in Nat
        <5>1. T!BlockIds(m, f) = 0 .. g.nb_blocks - 1
          BY DEF T!BlockIds
        <5> DEFINE n == g.nb_blocks
        <5>2. b \in 0 .. n - 1 /\ n \in Nat
          BY <5>1, <4>3
        <5>3. n # 0
          <6> HIDE DEF n
          <6> QED
            BY <5>2
        <5>4. g.control_flow_graph[b] \in Rows(n) /\ g.immediate_post_dominator[b] \in Nat
          BY <5>2, <5>3, <4>3
        <5> QED
          BY <5>1, <5>4 DEF T!FlowRow, T!Ipd, Rows
      <4> QED
        BY <4>3, <4>4, <4>5, <4>6
    <3> QED
      BY <3>2, <3>4 DEF Leads
  <2> QED
    BY <2>3, <2>4 DEF T!TablesSound
<1> QED
  BY <1>1, LoadInvariant, PTL

(* When the monitor waits for an initialiser, the client is in the same    *)
(* module and about to call as many of them: no run is watched with the    *)
(* tables of another module, and none is missed.                           *)
THEOREM InitsTheorem == Spec => []InitsInStep
<1>1. LoadInv => InitsInStep
  <2> SUFFICES ASSUME LoadInv, mpc = "inits", inits > 0, cpc # "dead"
               PROVE  /\ cmod = nb_modules
                      /\ cpc \in {"send", "inits"}
                      /\ cpc = "inits" => inits = Cardinality(cinits)
    BY DEF InitsInStep
  <2>1. Loading
    BY DEF Loading, Stopped
  <2>2. ClientInv /\ PipesInv /\ ControlInv
    BY <2>1 DEF LoadInv
  <2>3. Alive
    BY <2>1, <2>2 DEF Alive, ClientInv
  <2>4. Owed = inits /\ inits \in Nat
    BY <2>1, <2>2, <2>3 DEF LoadInv, Expects, PipesInv
  <2>5. cmod = nb_modules
    BY <2>4 DEF Owed
  <2>6. cpc = "inits" => inits = Cardinality(cinits)
    BY <2>4, <2>5 DEF Owed
  <2>7. cpc # "main"
    <3>1. cpc = "main" => Owed = 0
      BY <2>2, <2>5, FS_EmptySet DEF Owed, ClientInv
    <3> QED
      BY <3>1, <2>4
  <2>8. cpc # "id"
    <3> SUFFICES ASSUME cpc = "id" PROVE FALSE
      OBVIOUS
    <3>1. PICK r \in Nat : At(r)
      BY <2>1 DEF LoadInv, InStep
    <3>2. r + Len(l2m) = 1 /\ Len(l2m) \in Nat
      <4>1. cpos = 2 /\ Len(l2m) \in Nat
        BY <2>2 DEF ClientInv, PipesInv
      <4>2. r + Len(l2m) = cpos - 1
        BY <3>1, <2>3, <2>5 DEF At
      <4> QED
        BY <4>1, <4>2
    <3>3. nb_modules # 0 /\ pkt.event = "END" /\ Image \in Programs
      BY <2>2 DEF ControlInv, ClientInv
    <3>4. r = EndAt(Image[nb_modules]) /\ nb_modules \in 1 .. Len(Image)
      BY <3>1, <3>3, <2>2, PktAt
    <3>5. EndAt(Image[nb_modules]) >= 4
      BY <3>3, <3>4, PacketFacts
    <3> QED
      BY <3>2, <3>4, <3>5
  <2>9. cpc \in {"send", "inits"}
    BY <2>2, <2>3, <2>7, <2>8 DEF ClientInv, Alive
  <2> QED
    BY <2>5, <2>6, <2>9
<1> QED
  BY <1>1, LoadInvariant, PTL
-----------------------------------------------------------------------------
(* No crash.  Every function identifier of a module that was read to its   *)
(* end has a name: the identifiers are as many as functions and different, *)
(* so none is left out.                                                    *)
Numbered(fcts) == \A f \in 0 .. Len(fcts) - 1 : \E x \in 1 .. Len(fcts) : fcts[x].f_id = f

LEMMA AllNumbered ==
  ASSUME NEW p \in Programs, NEW k \in 1 .. Len(p), NEW d,
         d.nb_functions = Len(p[k].fcts), FilledFrom(d, p[k].fcts, Len(p[k].fcts), TRUE)
  PROVE  Numbered(p[k].fcts)
<1> DEFINE fcts == p[k].fcts
           n == Len(fcts)
           D == 1 .. n
           R == 0 .. n - 1
           F == [x \in D |-> fcts[x].f_id]
<1>1. fcts \in Seq(FctEntry) /\ n \in Nat
  BY ImageFacts
<1>2. \A x, y \in D : fcts[x].f_id = fcts[y].f_id => x = y
  BY ImageAssumption
<1>3. \A x \in D : fcts[x].f_id \in Nat
  <2>1. \A x \in D : fcts[x] \in FctEntry
    BY <1>1
  <2> QED
    BY <2>1 DEF FctEntry
<1>4. \A x \in D : fcts[x].f_id < n
  BY DEF FilledFrom
<1> HIDE DEF fcts
<1>5. F \in [D -> R]
  BY <1>1, <1>3, <1>4
<1>6. F \in Injection(D, R)
  BY <1>2, <1>5, Fun_IsInj
<1>7. F \in Surjection(D, R)
  <2>1. IsFiniteSet(R) /\ Cardinality(R) = n /\ Cardinality(D) = n
    <3>1. n \in Int /\ n - 1 \in Int /\ 0 \in Int /\ 1 \in Int
      BY <1>1
    <3>2. IsFiniteSet(R) /\ Cardinality(R) = IF 0 > n - 1 THEN 0 ELSE (n - 1) - 0 + 1
      BY <3>1, FS_Interval
    <3>3. Cardinality(D) = IF 1 > n THEN 0 ELSE n - 1 + 1
      BY <3>1, FS_Interval
    <3> QED
      BY <3>2, <3>3, <1>1
  <2> QED
    BY <2>1, <1>6, FS_Injection
<1>8. ASSUME NEW f \in R
      PROVE  \E x \in D : fcts[x].f_id = f
  <2>1. PICK x \in D : F[x] = f
    BY <1>7 DEF Surjection
  <2> QED
    BY <2>1
<1> QED
  BY <1>8 DEF fcts, Numbered

LEMMA AllNamed ==
  ASSUME NEW p \in Programs, NEW k \in 1 .. Len(p), NEW d \in Module,
         d.nb_functions = Len(p[k].fcts), FilledFrom(d, p[k].fcts, Len(p[k].fcts), TRUE)
  PROVE  \A f \in 0 .. d.nb_functions - 1 : d.functions[f].name # NULL
<1>1. \A x \in 1 .. Len(p[k].fcts) : p[k].fcts[x].f_name # NULL
  BY ImageAssumption
<1>2. \A x \in 1 .. Len(p[k].fcts) :
        d.functions[p[k].fcts[x].f_id].name = p[k].fcts[x].f_name
  BY DEF FilledFrom
<1>3. Numbered(p[k].fcts)
  BY AllNumbered
<1> SUFFICES ASSUME NEW f \in 0 .. d.nb_functions - 1
             PROVE  d.functions[f].name # NULL
  OBVIOUS
<1>4. PICK x \in 1 .. Len(p[k].fcts) : p[k].fcts[x].f_id = f
  BY <1>3 DEF Numbered
<1> QED
  BY <1>1, <1>2, <1>4

LEMMA NamesKnown ==
  ASSUME LoadInv, mpc \in {"relocate", "final"}, ~oom, NEW m \in T!ModuleIds,
         NEW f \in T!FunctionIds(m)
  PROVE  Name(m, f) # NULL
<1>1. Loading /\ Whole
  BY DEF Loading, Stopped, Whole, MonitorUp
<1>2. ClientInv /\ PipesInv /\ ControlInv /\ FunctionsInv /\ TablesTyped
  BY <1>1 DEF LoadInv
<1>3. pkt.event \in {"END", "TERMINATED"} /\ nb_modules \in Nat \ {0}
  <2>1. cmod \in Nat
    BY <1>2, ImageFacts DEF ClientInv
  <2> QED
    BY <2>1, <1>2 DEF ControlInv, PipesInv
<1>4. Image \in Programs /\ m \in Nat /\ m + 1 \in 1 .. Len(Image)
  <2>1. Image \in Programs /\ Len(Image) \in Nat /\ nb_modules <= Len(Image)
    BY <1>2, <1>3, ImageFacts DEF ClientInv, PipesInv
  <2> QED
    BY <2>1, <1>3 DEF T!ModuleIds
<1>5. modules[m] \in Module
  BY <1>2, <1>3 DEF TablesTyped
<1>6. Filled(m) = Len(Image[m + 1].fcts)
  BY <1>3 DEF Filled
<1>7. modules[m].nb_functions = Len(Image[m + 1].fcts)
  BY <1>2, <1>3 DEF FunctionsInv
<1>8. FilledFrom(modules[m], Image[m + 1].fcts, Len(Image[m + 1].fcts), TRUE)
  <2>1. FilledFrom(modules[m], Image[m + 1].fcts, Filled(m), ~oom)
    BY <1>2 DEF FunctionsInv
  <2> QED
    BY <2>1, <1>6 DEF FilledFrom
<1>9. \A g \in 0 .. modules[m].nb_functions - 1 : modules[m].functions[g].name # NULL
  BY <1>4, <1>5, <1>7, <1>8, AllNamed
<1> QED
  BY <1>9 DEF Name, T!FunctionIds

LEMMA NoNullName ==
  ASSUME LoadInv, mpc \in {"relocate", "final"}, ~oom, NEW m \in T!ModuleIds,
         NEW fatal \in BOOLEAN
  PROVE  ~NullName(m, fatal)
<1> SUFFICES ASSUME NEW j \in Visited(m, fatal), NEW c \in Compared(m, j),
                    NULL \in {Name(m, j), Name(c[1], c[2])}
             PROVE  FALSE
  BY DEF NullName
<1>1. j \in T!FunctionIds(m)
  BY DEF Visited, Externals
<1>2. PICK k \in T!ModuleIds : \E l \in T!FunctionIds(k) : c = <<k, l>>
  BY DEF Compared, Candidates
<1>3. PICK l \in T!FunctionIds(k) : c = <<k, l>>
  BY <1>2
<1>4. Name(m, j) # NULL /\ Name(c[1], c[2]) # NULL
  BY <1>1, <1>3, NamesKnown
<1> QED
  BY <1>4

(* What monitor_data_free walks is there. *)
LEMMA TablesWalkable ==
  ASSUME \A S, R : NULL \notin [S -> R], NEW d \in Module
  PROVE  Walkable(d)
<1> SUFFICES ASSUME d.nb_functions > 0
             PROVE  /\ d.functions # NULL /\ d.call_graph # NULL
                    /\ \A f \in 0 .. d.nb_functions - 1 :
                         d.functions[f].nb_blocks > 0 =>
                           d.functions[f].control_flow_graph # NULL
  BY DEF Walkable
<1> DEFINE n == d.nb_functions
<1>1. n \in Nat
  BY ModuleFacts
<1>2. n # 0
  <2> HIDE DEF n
  <2>1. n > 0
    BY DEF n
  <2> QED
    BY <2>1, <1>1
<1>3. /\ d.call_graph \in [0 .. n - 1 -> Rows(n)]
      /\ d.functions \in [0 .. n - 1 -> Function]
  BY <1>2, ModuleFacts
<1>4. d.functions # NULL /\ d.call_graph # NULL
  <2>1. \A S, R : \A t \in [S -> R] : t # NULL
    OBVIOUS
  <2> HIDE DEF n
  <2>2. d.functions # NULL
    BY <2>1, <1>3, Zenon
  <2>3. d.call_graph # NULL
    BY <2>1, <1>3, Zenon
  <2> QED
    BY <2>2, <2>3
<1>5. ASSUME NEW f \in 0 .. n - 1, d.functions[f].nb_blocks > 0
      PROVE  d.functions[f].control_flow_graph # NULL
  <2> DEFINE g == d.functions[f]
             b == g.nb_blocks
  <2>1. g \in Function
    BY <1>3
  <2>2. b \in Nat
    BY <2>1, FunctionFacts
  <2>3. b # 0
    <3>1. b > 0
      BY <1>5
    <3> HIDE DEF b
    <3> QED
      BY <2>2, <3>1
  <2>4. g.control_flow_graph \in [0 .. b - 1 -> Rows(b)]
    BY <2>1, <2>3, FunctionFacts
  <2> QED
    BY <2>4, Zenon
<1> QED
  BY <1>4, <1>5

(* Wherever loading stops, for a refused packet, a dead client or a failed *)
(* run, the monitor does not crash while it resolves names or frees the    *)
(* tables, as long as memory has not run out.  NULL is no table.           *)
THEOREM FreeTheorem ==
  ASSUME \A S, R : NULL \notin [S -> R]
  PROVE  Spec => []FreeSafe
<1>1. Init => FreeSafe
  BY DEF Init, FreeSafe
<1>2. LoadInv /\ FreeSafe /\ [Next]_vars => FreeSafe'
  <2> SUFFICES ASSUME LoadInv, FreeSafe, [Next]_vars, mpc' = "segv", ~oom'
               PROVE  FALSE
    BY DEF FreeSafe
  <2>1. CASE Relocate
    <3>1. mpc = "relocate" /\ NullName(current, FALSE) /\ ~oom
      BY <2>1 DEF Relocate
    <3>2. current \in T!ModuleIds
      <4>1. ControlInv /\ PipesInv /\ ClientInv
        BY <3>1 DEF LoadInv, Loading, Stopped
      <4>2. nb_modules \in Nat \ {0}
        BY <4>1, <3>1, ImageFacts DEF ControlInv, PipesInv, ClientInv
      <4> QED
        BY <4>2 DEF current, T!ModuleIds
    <3> QED
      BY <3>1, <3>2, NoNullName
  <2>2. CASE FinalRelocation
    <3>1. mpc = "final" /\ UNCHANGED oom
      BY <2>2 DEF FinalRelocation
    <3>2. nb_modules \in Nat /\ i \in Nat
      <4>1. PipesInv /\ ClientInv
        BY DEF LoadInv
      <4> QED
        BY <4>1, ImageFacts DEF PipesInv, ClientInv
    <3>3. i < nb_modules /\ NullName(i, TRUE)
      BY <2>2, <3>2 DEF FinalRelocation
    <3>4. i \in T!ModuleIds
      BY <3>2, <3>3 DEF T!ModuleIds
    <3> QED
      BY <3>1, <3>3, <3>4, NoNullName
  <2>3. CASE monitor_data_free
    <3>1. mpc = "free" /\ nb_modules > 0 /\ UNCHANGED oom
          /\ (modules = NULL \/ \E m \in T!ModuleIds : ~Walkable(modules[m]))
      BY <2>3 DEF monitor_data_free
    <3>2. Whole
      BY <3>1 DEF Whole, MonitorUp
    <3>3. modules \in [T!ModuleIds -> Module]
      BY <3>1, <3>2 DEF LoadInv, TablesTyped
    <3>4. modules # NULL
      BY <3>3, Zenon
    <3>5. \A m \in T!ModuleIds : Walkable(modules[m])
      BY <3>3, TablesWalkable
    <3> QED
      BY <3>1, <3>4, <3>5
  <2>4. CASE UNCHANGED <<mpc, oom>>
    BY <2>4 DEF FreeSafe
  <2>5. CASE FirstPacket
    BY <2>5 DEF FirstPacket, ModuleBegin
  <2>6. CASE SectionPacket
    BY <2>6 DEF SectionPacket
  <2>7. CASE LoadEntry
    BY <2>7 DEF LoadEntry
  <2>8. CASE NoRow \/ NoName \/ SectionEnds \/ InitRun \/ InitsEnd
    BY <2>8 DEF NoRow, NoName, SectionEnds, InitRun, InitsEnd
  <2>9. CASE ReadFails \/ RunFindsNoClient \/ MainRuns \/ Kill
    BY <2>9 DEF ReadFails, RunFindsNoClient, MainRuns, Kill
  <2>10. SendPacket \/ ReceiveId \/ ConstructorEnds \/ ClientAborts \/ ClientDies
           => UNCHANGED <<mpc, oom>>
    BY DEF SendPacket, ReceiveId, ConstructorEnds, ClientAborts, ClientDies, monitor
  <2>11. Terminated \/ UNCHANGED vars => UNCHANGED <<mpc, oom>>
    BY DEF Terminated, vars, monitor
  <2> QED
    BY <2>1, <2>2, <2>3, <2>4, <2>5, <2>6, <2>7, <2>8, <2>9, <2>10, <2>11 DEF Next
<1> QED
  BY <1>1, <1>2, LoadInvariant, PTL DEF Spec
=============================================================================
