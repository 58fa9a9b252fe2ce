--------------------------- MODULE StructureProofs ---------------------------
(***************************************************************************)
(* Proofs about the parts of the library that one thread uses at a time:   *)
(* socket addresses in every build, for any addresses and ports; lookups   *)
(* in the hash table, for any keys and number of buckets; the INI parser   *)
(* and the trimming of strings, for any file and string.                   *)
(***************************************************************************)
EXTENDS PSocketAddress, PHashTable, PIniFile, SequenceTheorems, WellFoundedInduction, TLAPS

------------------------------------------------------------------------------
(* Numbers.                                                                 *)

LEMMA LeastExists ==
  ASSUME NEW S, S \subseteq Nat, S # {}
  PROVE  \E i \in S : \A j \in S : i <= j
<1>1. PICK i \in S : \A j \in S : ~(<<j, i>> \in OpToRel(<, Nat))
  BY NatLessThanWellFounded, WFMin, Zenon
<1>2. ASSUME NEW j \in S, j < i PROVE FALSE
  <2>1. <<j, i>> \in Nat \X Nat /\ <<j, i>>[1] < <<j, i>>[2]
    BY <1>2
  <2>. QED  BY <1>1, <2>1, Zenon DEF OpToRel
<1>3. \A j \in S : i <= j
  BY <1>2
<1>. QED  BY <1>3

------------------------------------------------------------------------------
(* Socket addresses: the order of bytes.                                    *)

LEMMA ReversedTwice ==
  ASSUME NEW s \in Seq(Int)
  PROVE  Reverse(Reverse(s)) = s
<1>1. PICK n \in Nat : n = Len(s)
  OBVIOUS
<1>2. s \in [1 .. n -> Int]
  BY <1>1
<1>3. PICK r : r = [i \in 1 .. n |-> s[(n - i) + 1]]
  OBVIOUS
<1>4. r \in [1 .. n -> Int]
  BY <1>2, <1>3
<1>5. r \in Seq(Int) /\ Len(r) = n
  BY <1>4
<1>6. Reverse(s) = r
  BY <1>1, <1>3 DEF Reverse
<1>7. Reverse(r) = [i \in 1 .. n |-> r[(n - i) + 1]]
  BY <1>5 DEF Reverse
<1>8. \A i \in 1 .. n : r[(n - i) + 1] = s[i]
  BY <1>1, <1>3
<1>9. Reverse(r) = [i \in 1 .. n |-> s[i]]
  BY <1>7, <1>8
<1>. QED  BY <1>2, <1>6, <1>9

LEMMA TurnedTwice ==
  ASSUME NEW s \in Seq(Int)
  PROVE  /\ NetworkOrder(NetworkOrder(s)) = s
         /\ NetworkOrder(Load(s)) = s
         /\ Load(NetworkOrder(s)) = s
BY ReversedTwice DEF NetworkOrder, Load

LEMMA AddressBytes ==
  /\ Ports \subseteq Seq(Int) /\ Hosts4 \subseteq Seq(Int)
  /\ \A h \in Hosts4 : Head(h) = h[1] /\ h # Any6 /\ h # Loopback6
  /\ \A h \in Hosts6 : h # Any4
<1>1. ASSUME NEW p \in Ports PROVE p \in Seq(Int)
  <2>1. p \in (0 .. 255) \X (0 .. 255)
    BY AddressAssumption
  <2>2. p[1] \in Int /\ p[2] \in Int /\ p = <<p[1], p[2]>>
    BY <2>1
  <2>3. <<p[1], p[2]>> \in Seq(Int)
    BY <2>2
  <2>. QED  BY <2>2, <2>3
<1>2. ASSUME NEW h \in Hosts4 PROVE h \in Seq(Int)
  <2>1. PICK x \in Octets, y \in Octets, z \in Octets, w \in Octets : h = <<x, y, z, w>>
    BY DEF Hosts4
  <2>2. <<x, y, z, w>> \in Seq(Int)
    BY AddressAssumption
  <2>. QED  BY <2>1, <2>2
<1>3. \A h \in Hosts4 : Head(h) = h[1] /\ h # Any6 /\ h # Loopback6
  BY DEF Hosts4, Any6, Loopback6
<1>4. \A h \in Hosts6 : h # Any4
  BY AddressAssumption DEF Any4
<1>. QED  BY <1>1, <1>2, <1>3, <1>4

------------------------------------------------------------------------------
(* An address the build can hold.                                           *)

Addresses ==
  [family : {"inet", "inet6"}, host : Hosts4 \cup Hosts6, port : Ports, flow : Extras, scope : Extras]
Held(a) ==
  /\ a \in Addresses
  /\ a.family = "inet" => a.host \in Hosts4 /\ a.flow = 0 /\ a.scope = 0
  /\ a.family = "inet6" => /\ a.host \in Hosts6 /\ addrBuild.ipv6 = TRUE
                           /\ a.flow # 0 => addrBuild.flow = TRUE
                           /\ a.scope # 0 => addrBuild.scope = TRUE

(* What the system has of it.                                               *)
Sent(n) == \E a \in Addresses : Held(a) /\ n = [a EXCEPT !.port = NetworkOrder(a.port)]

AddressInv ==
  /\ addrBuild \in AddressBuilds
  /\ addr = NoAddress \/ Held(addr)
  /\ wire = NoAddress \/ Sent(wire)

LEMMA AddressIsRecord ==
  ASSUME NEW a \in Addresses
  PROVE  a = [family |-> a.family, host |-> a.host, port |-> a.port, flow |-> a.flow, scope |-> a.scope]
BY DEF Addresses

LEMMA AddressHeld ==
  ASSUME NEW family \in {"inet", "inet6"}, NEW host, NEW port \in Ports, addrBuild \in AddressBuilds,
         family = "inet" => host \in Hosts4,
         family = "inet6" => host \in Hosts6 /\ addrBuild.ipv6 = TRUE
  PROVE  Held(Address(family, host, port))
BY AddressAssumption DEF Held, Addresses, Address

(* To the system and back.                                                  *)
LEMMA ToNativeSends ==
  ASSUME NEW a, addrBuild \in AddressBuilds, Held(a)
  PROVE  /\ NativeSize(a) = Sizes[a.family]
         /\ ToNative(a, NativeSize(a)) = [a EXCEPT !.port = NetworkOrder(a.port)]
<1>1. NativeSize(a) = Sizes[a.family]
  BY DEF NativeSize, Held, Addresses, Sizes
<1>2. CASE a.family = "inet"
  <2>1. ToNative(a, NativeSize(a)) =
          [family |-> "inet", host |-> a.host, port |-> NetworkOrder(a.port), flow |-> 0, scope |-> 0]
    BY <1>1, <1>2 DEF ToNative, Sizes
  <2>. QED  BY <1>1, <1>2, <2>1 DEF Held, Addresses
<1>3. CASE a.family = "inet6"
  <2>1. ToNative(a, NativeSize(a)) =
          [family |-> "inet6", host |-> a.host, port |-> NetworkOrder(a.port),
           flow |-> Supported(addrBuild.flow, a.flow), scope |-> Supported(addrBuild.scope, a.scope)]
    BY <1>1, <1>3 DEF ToNative, Sizes, Held
  <2>2. Supported(addrBuild.flow, a.flow) = a.flow /\ Supported(addrBuild.scope, a.scope) = a.scope
    BY <1>3 DEF Supported, Held
  <2>. QED  BY <1>1, <1>3, <2>1, <2>2 DEF Held, Addresses
<1>. QED  BY <1>2, <1>3 DEF Held, Addresses

LEMMA FromNativeReturns ==
  ASSUME NEW a, addrBuild \in AddressBuilds, Held(a), NEW n, n = [a EXCEPT !.port = NetworkOrder(a.port)]
  PROVE  n.family = a.family /\ NewFromNative(n, Sizes[a.family]) = a
<1>1. /\ n.family = a.family /\ n.host = a.host /\ n.port = NetworkOrder(a.port)
      /\ n.flow = a.flow /\ n.scope = a.scope
  BY DEF Held, Addresses
<1>2. NetworkOrder(n.port) = a.port
  BY <1>1, AddressBytes, TurnedTwice DEF Held, Addresses
<1>3. CASE a.family = "inet"
  <2>1. NewFromNative(n, Sizes[a.family]) = Address("inet", a.host, a.port)
    BY <1>1, <1>2, <1>3 DEF NewFromNative, Sizes
  <2>. QED  BY <1>1, <1>3, <2>1 DEF Held, Addresses, Address
<1>4. CASE a.family = "inet6"
  <2>1. NewFromNative(n, Sizes[a.family]) =
          [family |-> "inet6", host |-> a.host, port |-> a.port,
           flow |-> Supported(addrBuild.flow, a.flow), scope |-> Supported(addrBuild.scope, a.scope)]
    BY <1>1, <1>2, <1>4 DEF NewFromNative, Sizes, Held
  <2>2. Supported(addrBuild.flow, a.flow) = a.flow /\ Supported(addrBuild.scope, a.scope) = a.scope
    BY <1>4 DEF Supported, Held
  <2>. QED  BY <1>1, <1>4, <2>1, <2>2, AddressIsRecord DEF Held
<1>. QED  BY <1>3, <1>4 DEF Held, Addresses

(* From text.                                                               *)
LEMMA NewFromText ==
  ASSUME addrBuild \in AddressBuilds, NEW t \in Texts, NEW port \in Ports
  PROVE  /\ New(t, port) = NoAddress \/ Held(New(t, port))
         /\ t.kind = "inet" => New(t, port) = Address("inet", t.host, port)
         /\ t.kind = "inet6" /\ addrBuild.ipv6 /\ t.zone = 0 => New(t, port) = Address("inet6", t.host, port)
<1>1. /\ t.kind \in {"inet", "inet6", "bad"} /\ (t.kind = "inet" => t.host \in Hosts4)
      /\ (t.kind = "inet6" => t.host \in Hosts6 /\ t.zone \in Extras)
  BY DEF Texts
<1>2. NetworkOrder(NetworkOrder(port)) = port
  BY AddressBytes, TurnedTwice
<1>3. CASE t.kind = "inet"
  BY <1>1, <1>3, AddressHeld DEF New
<1>4. CASE t.kind = "bad"
  BY <1>4 DEF New
<1>5. CASE t.kind = "inet6" /\ addrBuild.info = FALSE
  BY <1>1, <1>5, AddressHeld DEF New, AddressBuilds
<1>6. CASE t.kind = "inet6" /\ addrBuild.info = TRUE
  <2>1. addrBuild.ipv6 = TRUE /\ addrBuild.scope = TRUE /\ addrBuild.flow \in BOOLEAN
    BY <1>6 DEF AddressBuilds
  <2>2. New(t, port) =
          [family |-> "inet6", host |-> t.host, port |-> port, flow |-> 0, scope |-> t.zone]
    <3>1. PICK n : n = [family |-> "inet6", host |-> t.host, port |-> NetworkOrder(port),
                        flow |-> 0, scope |-> t.zone]
      OBVIOUS
    <3>2. New(t, port) = NewFromNative(n, Sizes.inet6)
      BY <1>6, <3>1 DEF New
    <3>3. /\ n.family = "inet6" /\ n.host = t.host /\ n.port = NetworkOrder(port)
          /\ n.flow = 0 /\ n.scope = t.zone
      BY <3>1
    <3>4. Supported(addrBuild.flow, n.flow) = 0 /\ Supported(addrBuild.scope, n.scope) = t.zone
      BY <2>1, <3>3 DEF Supported
    <3>. QED  BY <1>2, <2>1, <3>2, <3>3, <3>4 DEF NewFromNative, Sizes
  <2>3. PICK b : b = [family |-> "inet6", host |-> t.host, port |-> port, flow |-> 0, scope |-> t.zone]
    OBVIOUS
  <2>4. New(t, port) = b
    BY <2>2, <2>3
  <2>5. Held(b)
    BY <1>1, <1>6, <2>1, <2>3, AddressAssumption DEF Held, Addresses
  <2>6. t.zone = 0 => b = Address("inet6", t.host, port)
    BY <2>3 DEF Address
  <2>. QED  BY <1>6, <2>4, <2>5, <2>6
<1>. QED  BY <1>1, <1>3, <1>4, <1>5, <1>6 DEF AddressBuilds

------------------------------------------------------------------------------
(* The steps.                                                               *)

LEMMA AddressStart ==
  ASSUME AddressInit
  PROVE  AddressInv
BY DEF AddressInit, AddressInv

LEMMA AddressKept ==
  ASSUME AddressInv, UNCHANGED addrBuild, addr' = NoAddress \/ Held(addr'), wire' = NoAddress \/ Sent(wire')
  PROVE  AddressInv'
<1>1. PICK b : b = addrBuild /\ b = addrBuild'
  OBVIOUS
<1>2. ASSUME NEW a, Held(a) PROVE Held(a)'
  BY <1>1, <1>2 DEF Held
<1>3. addr' = NoAddress \/ Held(addr)'
  BY <1>1 DEF Held
<1>4. ASSUME NEW a \in Addresses, Held(a), wire' = [a EXCEPT !.port = NetworkOrder(a.port)] PROVE Sent(wire)'
  <2>1. NetworkOrder(a.port)' = NetworkOrder(a.port)
    BY <1>1 DEF NetworkOrder
  <2>2. wire' = [a EXCEPT !.port = NetworkOrder(a.port)']
    BY <1>4, <2>1
  <2>. QED  BY <1>2, <1>4, <2>2 DEF Sent
<1>5. wire' = NoAddress \/ Sent(wire)'
  BY <1>4 DEF Sent
<1>. QED  BY <1>1, <1>3, <1>5 DEF AddressInv

LEMMA MadeKeeps ==
  ASSUME AddressInv, NEW a, Made(a), a = NoAddress \/ Held(a)
  PROVE  AddressInv'
BY AddressKept DEF AddressInv, Made

LEMMA AddressStep ==
  ASSUME AddressInv, [AddressNext]_addressVars
  PROVE  AddressInv'
<1>1. addrBuild \in AddressBuilds
  BY DEF AddressInv
<1>2. CASE AddressNew
  BY <1>1, <1>2, NewFromText, MadeKeeps DEF AddressNew
<1>3. ASSUME NEW f \in {"inet", "inet6"}, NEW port \in Ports,
             Made(NewAny(f, port)) \/ Made(NewLoopback(f, port))
      PROVE  AddressInv'
  <2>1. {Any4, <<127, 0, 0, 0>>} \subseteq Hosts4 /\ {Any6, Loopback6} \subseteq Hosts6
    BY AddressAssumption DEF Any4, Any6, Loopback6, Hosts4
  <2>2. /\ NewAny(f, port) = NoAddress \/ Held(NewAny(f, port))
        /\ NewLoopback(f, port) = NoAddress \/ Held(NewLoopback(f, port))
    <3>1. CASE f = "inet"
      BY <1>1, <2>1, <3>1, AddressHeld DEF NewAny, NewLoopback
    <3>2. CASE f = "inet6"
      BY <1>1, <2>1, <3>2, AddressHeld DEF NewAny, NewLoopback, AddressBuilds
    <3>. QED  BY <3>1, <3>2
  <2>. QED  BY <1>3, <2>2, MadeKeeps
<1>4. ASSUME NEW v \in Extras, SetFlowInfo(v) \/ SetScopeId(v) PROVE AddressInv'
  <2>1. Held(addr)
    BY <1>4 DEF SetFlowInfo, SetScopeId, AddressInv
  <2>2. /\ addrBuild.flow /\ addr.family = "inet6" => Held([addr EXCEPT !.flow = v])
        /\ addrBuild.scope /\ addr.family = "inet6" => Held([addr EXCEPT !.scope = v])
    BY <1>1, <2>1 DEF Held, Addresses, AddressBuilds
  <2>. QED  BY <1>4, <2>1, <2>2, MadeKeeps DEF SetFlowInfo, SetScopeId
<1>5. CASE AddressSend
  <2>1. Held(addr) /\ wire' = ToNative(addr, NativeSize(addr)) /\ addr' = NoAddress /\ UNCHANGED addrBuild
    BY <1>5 DEF AddressSend, AddressInv
  <2>2. Sent(ToNative(addr, NativeSize(addr)))
    BY <1>1, <2>1, ToNativeSends DEF Sent, Held
  <2>3. Sent(wire')
    BY <2>1, <2>2
  <2>. QED  BY <2>1, <2>3, AddressKept
<1>6. CASE AddressReceive
  <2>1. Sent(wire) /\ addr' = NewFromNative(wire, Sizes[wire.family]) /\ wire' = NoAddress
        /\ UNCHANGED addrBuild
    BY <1>6 DEF AddressReceive, AddressInv
  <2>2. PICK a \in Addresses : Held(a) /\ wire = [a EXCEPT !.port = NetworkOrder(a.port)]
    BY <2>1 DEF Sent
  <2>3. addr' = a
    BY <1>1, <2>1, <2>2, FromNativeReturns
  <2>. QED  BY <2>1, <2>2, <2>3, AddressKept
<1>7. CASE UNCHANGED addressVars
  BY <1>7, AddressKept DEF AddressInv, addressVars
<1>. QED  BY <1>2, <1>3, <1>4, <1>5, <1>6, <1>7 DEF AddressNext, AddressNewAny, AddressNewLoopback

------------------------------------------------------------------------------
LEMMA HeldSurvives ==
  ASSUME AddressInv
  PROVE  AddressSurvives
<1>. SUFFICES ASSUME addr # NoAddress
              PROVE  LET native == ToNative(addr, NativeSize(addr)) IN
                     /\ native # NoAddress
                     /\ Load(native.port) = addr.port
                     /\ NewFromNative(native, NativeSize(addr)) = addr
                     /\ New(GetAddress(addr), addr.port) = Address(addr.family, addr.host, addr.port)
  BY DEF AddressSurvives
<1>1. Held(addr) /\ addrBuild \in AddressBuilds
  BY DEF AddressInv
<1>2. PICK n : n = [addr EXCEPT !.port = NetworkOrder(addr.port)]
  OBVIOUS
<1>3. n = ToNative(addr, NativeSize(addr)) /\ NativeSize(addr) = Sizes[addr.family]
  BY <1>1, <1>2, ToNativeSends
<1>4. NewFromNative(n, NativeSize(addr)) = addr
  BY <1>1, <1>2, <1>3, FromNativeReturns
<1>5. n.port = NetworkOrder(addr.port) /\ n # NoAddress
  BY <1>1, <1>2 DEF Held, Addresses, NoAddress
<1>6. Load(n.port) = addr.port
  BY <1>1, <1>5, AddressBytes, TurnedTwice DEF Held, Addresses
<1>7. New(GetAddress(addr), addr.port) = Address(addr.family, addr.host, addr.port)
  <2>1. PICK t : t = [kind |-> addr.family, host |-> addr.host, zone |-> 0] /\ t = GetAddress(addr)
    BY DEF GetAddress
  <2>2. t \in Texts /\ t.kind = addr.family /\ t.host = addr.host /\ t.zone = 0
    BY <1>1, <2>1, AddressAssumption DEF Texts, Held, Addresses
  <2>3. New(t, addr.port) = Address(addr.family, addr.host, addr.port)
    <3>1. addr.port \in Ports /\ (addr.family = "inet" \/ (addr.family = "inet6" /\ addrBuild.ipv6 = TRUE))
      BY <1>1 DEF Held, Addresses
    <3>2. /\ t.kind = "inet" => New(t, addr.port) = Address("inet", t.host, addr.port)
          /\ t.kind = "inet6" /\ addrBuild.ipv6 /\ t.zone = 0 =>
               New(t, addr.port) = Address("inet6", t.host, addr.port)
      BY <1>1, <2>2, <3>1, NewFromText
    <3>. QED  BY <2>2, <3>1, <3>2
  <2>. QED  BY <2>1, <2>3
<1>. QED  BY <1>3, <1>4, <1>5, <1>6, <1>7

LEMMA HeldTold ==
  ASSUME AddressInv
  PROVE  KindsTold
<1>. SUFFICES ASSUME addr # NoAddress
              PROVE  /\ IsLoopback(addr) <=> addr.host = Loopback6 \/ (addr.family = "inet" /\ addr.host[1] = 127)
                     /\ IsAny(addr) <=> addr.host \in {Any4, Any6}
  BY DEF KindsTold
<1>1. Held(addr)
  BY DEF AddressInv
<1>2. CASE addr.family = "inet"
  <2>1. addr.host \in Hosts4 /\ NetworkOrder(Load(addr.host)) = addr.host
    BY <1>1, <1>2, AddressBytes, TurnedTwice DEF Held
  <2>. QED  BY <1>2, <2>1, AddressBytes DEF IsLoopback, IsAny
<1>3. CASE addr.family = "inet6"
  <2>1. addr.host \in Hosts6 /\ addrBuild.ipv6 = TRUE
    BY <1>1, <1>3 DEF Held
  <2>. QED  BY <1>3, <2>1, AddressBytes DEF IsLoopback, IsAny
<1>. QED  BY <1>1, <1>2, <1>3 DEF Held, Addresses

(* Whatever the build and the machine's order of bytes, and whatever        *)
(* addresses are made from text, from a family or from what a peer sent,    *)
(* zsocket_address_to_native() and zsocket_address_new_from_native() lose   *)
(* nothing, the text gives the address back, and an address is told to be   *)
(* loopback or any by its octets alone.                                     *)
THEOREM AddressesSurvive == AddressSpec => []AddressesAgree
<1>1. AddressInv => AddressesAgree
  BY HeldSurvives, HeldTold DEF AddressesAgree
<1>. QED  BY <1>1, AddressStart, AddressStep, PTL DEF AddressSpec

------------------------------------------------------------------------------
(* The hash table: a chain of pairs, and where a key is in it.              *)

Nodes == [key : Pointers, value : Values]
Found(chain, key) == SelectInSeq(chain, LAMBDA e : e.key = key)

(* What a key has in a chain, and a chain with every key once.              *)
Has(chain, key, v) == \E i \in DOMAIN chain : chain[i].key = key /\ chain[i].value = v
KeysOnce(chain) == \A i, j \in DOMAIN chain : chain[i].key = chain[j].key => i = j
Chains == {c \in Seq(Nodes) : KeysOnce(c)}

Prepended(chain, key, v) == <<[key |-> key, value |-> v]>> \o chain
Updated(chain, n, v) == [chain EXCEPT ![n].value = v]

LEMMA FoundIs ==
  ASSUME NEW c \in Seq(Nodes), NEW key
  PROVE  \/ Found(c, key) = 0 /\ \A i \in DOMAIN c : c[i].key # key
         \/ Found(c, key) \in DOMAIN c /\ c[Found(c, key)].key = key
<1>. DEFINE I == {i \in 1 .. Len(c) : c[i].key = key}
<1>1. Found(c, key) = IF I # {} THEN Min(I) ELSE 0
  BY DEF Found, SelectInSeq
<1>2. CASE I = {}
  BY <1>1, <1>2
<1>3. CASE I # {}
  <2>1. \E i \in I : \A j \in I : i <= j
    <3>1. I \subseteq Nat
      OBVIOUS
    <3>. HIDE DEF I
    <3>. QED  BY <1>3, <3>1, LeastExists
  <2>2. Min(I) \in I
    <3>. HIDE DEF I
    <3>. QED  BY <2>1 DEF Min
  <2>. QED  BY <1>1, <1>3, <2>2
<1>. QED  BY <1>2, <1>3

LEMMA ChainPrepended ==
  ASSUME NEW c \in Chains, NEW key \in Pointers, NEW v \in Values, \A i \in DOMAIN c : c[i].key # key,
         NEW d, d = Prepended(c, key, v)
  PROVE  /\ d \in Chains
         /\ \A w : Has(d, key, w) <=> w = v
         /\ \A k, w : k # key => (Has(d, k, w) <=> Has(c, k, w))
<1>1. PICK e : e = [key |-> key, value |-> v]
  OBVIOUS
<1>2. e \in Nodes /\ e.key = key /\ e.value = v
  BY <1>1 DEF Nodes
<1>3. c \in Seq(Nodes) /\ KeysOnce(c) /\ Len(c) \in Nat /\ DOMAIN c = 1 .. Len(c)
  BY DEF Chains
<1>4. d \in Seq(Nodes) /\ DOMAIN d = 1 .. Len(c) + 1 /\ d[1] = e
  BY <1>1, <1>2, <1>3 DEF Prepended
<1>5. \A i \in 1 .. Len(c) : d[i + 1] = c[i]
  BY <1>1, <1>2, <1>3 DEF Prepended
<1>6. \A i \in DOMAIN d : i = 1 \/ (i - 1 \in DOMAIN c /\ d[i] = c[i - 1])
  BY <1>3, <1>4, <1>5
<1>7. KeysOnce(d)
  <2>. SUFFICES ASSUME NEW i \in DOMAIN d, NEW j \in DOMAIN d, d[i].key = d[j].key PROVE i = j
    BY DEF KeysOnce
  <2>1. CASE i = 1 \/ j = 1
    BY <1>2, <1>4, <1>6, <2>1
  <2>2. CASE i # 1 /\ j # 1
    <3>1. i - 1 = j - 1
      BY <1>3, <1>6, <2>2 DEF KeysOnce
    <3>. QED  BY <1>3, <1>4, <3>1
  <2>. QED  BY <2>1, <2>2
<1>8. \A w : Has(d, key, w) <=> w = v
  BY <1>2, <1>3, <1>4, <1>6 DEF Has
<1>9. ASSUME NEW k, NEW w, k # key PROVE Has(d, k, w) <=> Has(c, k, w)
  <2>1. ASSUME Has(d, k, w) PROVE Has(c, k, w)
    BY <1>2, <1>4, <1>6, <1>9, <2>1 DEF Has
  <2>2. ASSUME Has(c, k, w) PROVE Has(d, k, w)
    <3>1. PICK i \in DOMAIN c : c[i].key = k /\ c[i].value = w
      BY <2>2 DEF Has
    <3>2. i + 1 \in DOMAIN d /\ d[i + 1] = c[i]
      BY <1>3, <1>4, <1>5
    <3>. QED  BY <3>1, <3>2 DEF Has
  <2>. QED  BY <2>1, <2>2
<1>. QED  BY <1>4, <1>7, <1>8, <1>9 DEF Chains

LEMMA ChainUpdated ==
  ASSUME NEW c \in Chains, NEW key, NEW v \in Values, NEW n \in DOMAIN c, c[n].key = key,
         NEW d, d = Updated(c, n, v)
  PROVE  /\ d \in Chains
         /\ \A w : Has(d, key, w) <=> w = v
         /\ \A k, w : k # key => (Has(d, k, w) <=> Has(c, k, w))
<1>1. c \in Seq(Nodes) /\ KeysOnce(c) /\ Len(c) \in Nat /\ DOMAIN c = 1 .. Len(c)
  BY DEF Chains
<1>2. PICK e : e = [c[n] EXCEPT !.value = v]
  OBVIOUS
<1>3. e \in Nodes /\ e.key = key /\ e.value = v
  <2>1. c[n] \in Nodes
    BY <1>1
  <2>. QED  BY <1>2, <2>1 DEF Nodes
<1>4. d = [c EXCEPT ![n] = e]
  BY <1>2 DEF Updated
<1>5. d \in Seq(Nodes) /\ DOMAIN d = DOMAIN c
  BY <1>1, <1>3, <1>4
<1>6. d[n] = e /\ \A i \in DOMAIN c \ {n} : d[i] = c[i]
  BY <1>1, <1>4
<1>7. \A i \in DOMAIN c : d[i].key = c[i].key
  BY <1>3, <1>6
<1>8. KeysOnce(d)
  BY <1>1, <1>5, <1>7 DEF KeysOnce
<1>9. \A i \in DOMAIN c : c[i].key = key => i = n
  BY <1>1 DEF KeysOnce
<1>10. \A w : Has(d, key, w) <=> w = v
  BY <1>3, <1>5, <1>6, <1>7, <1>9 DEF Has
<1>11. \A k, w : k # key => (Has(d, k, w) <=> Has(c, k, w))
  BY <1>3, <1>5, <1>6, <1>7, <1>9 DEF Has
<1>. QED  BY <1>5, <1>8, <1>10, <1>11 DEF Chains

LEMMA ChainUnlinked ==
  ASSUME NEW c \in Chains, NEW key, NEW n \in DOMAIN c, c[n].key = key, NEW d, d = RemoveAt(c, n)
  PROVE  /\ d \in Chains
         /\ \A w : ~Has(d, key, w)
         /\ \A k, w : k # key => (Has(d, k, w) <=> Has(c, k, w))
<1>1. c \in Seq(Nodes) /\ KeysOnce(c) /\ Len(c) \in Nat /\ DOMAIN c = 1 .. Len(c) /\ n \in 1 .. Len(c)
  BY DEF Chains
<1>2. PICK l, r : l = SubSeq(c, 1, n - 1) /\ r = SubSeq(c, n + 1, Len(c))
  OBVIOUS
<1>3. l \in Seq(Nodes) /\ Len(l) = n - 1 /\ \A i \in 1 .. n - 1 : l[i] = c[i]
  BY <1>1, <1>2
<1>4. r \in Seq(Nodes) /\ Len(r) = Len(c) - n /\ \A i \in 1 .. Len(c) - n : r[i] = c[n + i]
  BY <1>1, <1>2
<1>5. d = l \o r
  BY <1>2 DEF RemoveAt
<1>6. d \in Seq(Nodes) /\ DOMAIN d = 1 .. Len(c) - 1
  <2>1. l \o r \in Seq(Nodes) /\ Len(l \o r) = Len(l) + Len(r)
    BY <1>3, <1>4
  <2>2. Len(d) = Len(c) - 1
    BY <1>1, <1>3, <1>4, <1>5, <2>1
  <2>. QED  BY <1>5, <2>1, <2>2
<1>7. \A i \in 1 .. Len(c) - 1 : d[i] = c[IF i < n THEN i ELSE i + 1]
  <2>. SUFFICES ASSUME NEW i \in 1 .. Len(c) - 1 PROVE d[i] = c[IF i < n THEN i ELSE i + 1]
    OBVIOUS
  <2>1. CASE i < n
    BY <1>1, <1>3, <1>4, <1>5, <2>1
  <2>2. CASE ~(i < n)
    <3>1. d[i] = r[i - (n - 1)] /\ i - (n - 1) \in 1 .. Len(c) - n
      <4>1. i \in 1 .. Len(l) + Len(r) /\ i > Len(l) /\ i - (n - 1) \in 1 .. Len(c) - n
        BY <1>1, <1>3, <1>4, <2>2
      <4>2. (l \o r)[i] = r[i - Len(l)]
        <5>1. \A j \in 1 .. Len(l) + Len(r) : (l \o r)[j] = IF j <= Len(l) THEN l[j] ELSE r[j - Len(l)]
          BY <1>3, <1>4, ConcatProperties
        <5>. QED  BY <4>1, <5>1
      <4>. QED  BY <1>3, <1>5, <4>1, <4>2
    <3>2. n + (i - (n - 1)) = i + 1
      BY <1>1
    <3>. QED  BY <1>4, <2>2, <3>1, <3>2
  <2>. QED  BY <2>1, <2>2
<1>8. KeysOnce(d)
  <2>. SUFFICES ASSUME NEW i \in DOMAIN d, NEW j \in DOMAIN d, d[i].key = d[j].key PROVE i = j
    BY DEF KeysOnce
  <2>1. PICK x \in DOMAIN c, y \in DOMAIN c : /\ x = (IF i < n THEN i ELSE i + 1) /\ d[i] = c[x]
                                              /\ y = (IF j < n THEN j ELSE j + 1) /\ d[j] = c[y]
    BY <1>1, <1>6, <1>7
  <2>2. x = y
    BY <1>1, <2>1 DEF KeysOnce
  <2>. QED  BY <1>1, <1>6, <2>1, <2>2
<1>9. \A i \in DOMAIN c : c[i].key = key => i = n
  BY <1>1 DEF KeysOnce
<1>10. \A w : ~Has(d, key, w)
  <2>. SUFFICES ASSUME NEW i \in DOMAIN d, d[i].key = key PROVE FALSE
    BY DEF Has
  <2>1. PICK x \in DOMAIN c : x # n /\ d[i] = c[x]
    BY <1>1, <1>6, <1>7
  <2>. QED  BY <1>9, <2>1
<1>11. ASSUME NEW k, NEW w, k # key PROVE Has(d, k, w) <=> Has(c, k, w)
  <2>1. ASSUME NEW i \in DOMAIN d PROVE \E x \in DOMAIN c : d[i] = c[x]
    BY <1>1, <1>6, <1>7
  <2>2. ASSUME NEW x \in DOMAIN c, c[x].key = k PROVE \E i \in DOMAIN d : d[i] = c[x]
    <3>1. CASE x < n
      BY <1>1, <1>6, <1>7, <3>1
    <3>2. CASE x > n
      <4>1. x - 1 \in DOMAIN d /\ ~(x - 1 < n) /\ (x - 1) + 1 = x
        BY <1>1, <1>6, <3>2
      <4>. QED  BY <1>6, <1>7, <4>1
    <3>. QED  BY <1>1, <1>11, <2>2, <3>1, <3>2
  <2>. QED  BY <2>1, <2>2 DEF Has
<1>. QED  BY <1>6, <1>8, <1>10, <1>11 DEF Chains

------------------------------------------------------------------------------
(* The table.                                                               *)

HashInv ==
  /\ table \in [Buckets -> Chains]
  /\ DOMAIN stored \subseteq Pointers /\ stored = [k \in DOMAIN stored |-> stored[k]]
  /\ \A k \in Pointers : \A v : Has(table[CalcHash(k)], k, v) <=> k \in DOMAIN stored /\ stored[k] = v

LEMMA Hashed ==
  ASSUME NEW key \in Pointers
  PROVE  CalcHash(key) \in Buckets
BY TableSizePositive DEF CalcHash, Buckets

LEMMA EmptyTable ==
  ASSUME NEW T, T = [b \in Buckets |-> <<>>]
  PROVE  T \in [Buckets -> Chains] /\ \A k \in Pointers : \A v : ~Has(T[CalcHash(k)], k, v)
BY Hashed DEF Chains, KeysOnce, Has

LEMMA HashStart ==
  ASSUME HashInit
  PROVE  HashInv
BY EmptyTable DEF HashInit, HashInv

LEMMA HashInsertKeeps ==
  ASSUME HashInv, NEW key \in Pointers, NEW v \in Values, HashInsert(key, v)
  PROVE  HashInv'
<1>1. PICK b \in Buckets, c \in Chains : b = CalcHash(key) /\ c = table[b]
  BY Hashed DEF HashInv
<1>2. FindNode(key) = Found(c, key)
  BY <1>1 DEF FindNode, Found
<1>3. PICK d : d = IF Found(c, key) = 0 THEN <<[key |-> key, value |-> v]>> \o c
                   ELSE [c EXCEPT ![Found(c, key)].value = v]
  OBVIOUS
<1>4. table' = [table EXCEPT ![b] = d]
  BY <1>1, <1>2, <1>3 DEF HashInsert
<1>5. /\ d \in Chains
      /\ \A w : Has(d, key, w) <=> w = v
      /\ \A k, w : k # key => (Has(d, k, w) <=> Has(c, k, w))
  <2>1. CASE Found(c, key) = 0
    <3>1. \A i \in DOMAIN c : c[i].key # key
      BY <2>1, FoundIs DEF Chains
    <3>2. d = Prepended(c, key, v)
      BY <1>3, <2>1 DEF Prepended
    <3>. QED  BY <3>1, <3>2, ChainPrepended
  <2>2. CASE Found(c, key) # 0
    <3>1. PICK n \in DOMAIN c : n = Found(c, key) /\ c[n].key = key
      BY <2>2, FoundIs DEF Chains
    <3>2. d = Updated(c, n, v)
      BY <1>3, <2>2, <3>1 DEF Updated
    <3>. QED  BY <3>1, <3>2, ChainUpdated
  <2>. QED  BY <2>1, <2>2
<1>6. stored' = [k \in DOMAIN stored \cup {key} |-> IF k = key THEN v ELSE stored[k]]
  BY DEF HashInsert
<1>7. table' \in [Buckets -> Chains]
  BY <1>4, <1>5 DEF HashInv
<1>8. ASSUME NEW k \in Pointers, NEW w
      PROVE  Has(table'[CalcHash(k)], k, w) <=> k \in DOMAIN stored' /\ stored'[k] = w
  <2>1. CASE k = key
    <3>1. table'[CalcHash(k)] = d
      BY <1>1, <1>4, <2>1 DEF HashInv
    <3>. QED  BY <1>5, <1>6, <2>1, <3>1
  <2>2. CASE k # key /\ CalcHash(k) = b
    <3>1. table'[CalcHash(k)] = d
      BY <1>1, <1>4, <2>2 DEF HashInv
    <3>2. Has(c, k, w) <=> k \in DOMAIN stored /\ stored[k] = w
      BY <1>1, <2>2 DEF HashInv
    <3>. QED  BY <1>5, <1>6, <2>2, <3>1, <3>2
  <2>3. CASE CalcHash(k) # b
    <3>1. table'[CalcHash(k)] = table[CalcHash(k)] /\ k # key
      BY <1>1, <1>4, <2>3, Hashed DEF HashInv
    <3>. QED  BY <1>6, <3>1 DEF HashInv
  <2>. QED  BY <2>1, <2>2, <2>3
<1>. QED  BY <1>6, <1>7, <1>8 DEF HashInv, Has

LEMMA HashRemovalKeeps ==
  ASSUME HashInv, NEW key, HashRemoval(key)
  PROVE  HashInv'
<1>1. stored' = [k \in DOMAIN stored \ {key} |-> stored[k]]
  BY DEF HashRemoval
<1>2. CASE CalcHash(key) \in Buckets
  <2>1. PICK b \in Buckets, c \in Chains : b = CalcHash(key) /\ c = table[b]
    BY <1>2 DEF HashInv
  <2>2. FindNode(key) = Found(c, key)
    BY <2>1 DEF FindNode, Found
  <2>3. PICK d : d = IF Found(c, key) = 0 THEN c ELSE RemoveAt(c, Found(c, key))
    OBVIOUS
  <2>4. table' = [table EXCEPT ![b] = d]
    BY <2>1, <2>2, <2>3 DEF HashRemoval
  <2>5. /\ d \in Chains
        /\ \A w : ~Has(d, key, w)
        /\ \A k, w : k # key => (Has(d, k, w) <=> Has(c, k, w))
    <3>1. CASE Found(c, key) = 0
      <4>1. \A i \in DOMAIN c : c[i].key # key
        BY <3>1, FoundIs DEF Chains
      <4>. QED  BY <2>3, <3>1, <4>1 DEF Has
    <3>2. CASE Found(c, key) # 0
      <4>1. Found(c, key) \in DOMAIN c /\ c[Found(c, key)].key = key
        BY <3>2, FoundIs DEF Chains
      <4>2. d = RemoveAt(c, Found(c, key))
        BY <2>3, <3>2
      <4>. QED  BY <4>1, <4>2, ChainUnlinked, Zenon
    <3>. QED  BY <3>1, <3>2
  <2>6. table' \in [Buckets -> Chains]
    BY <2>4, <2>5 DEF HashInv
  <2>7. ASSUME NEW k \in Pointers, NEW w
        PROVE  Has(table'[CalcHash(k)], k, w) <=> k \in DOMAIN stored' /\ stored'[k] = w
    <3>1. CASE k = key
      <4>1. table'[CalcHash(k)] = d
        BY <2>1, <2>4, <3>1 DEF HashInv
      <4>. QED  BY <1>1, <2>5, <3>1, <4>1
    <3>2. CASE k # key /\ CalcHash(k) = b
      <4>1. table'[CalcHash(k)] = d
        BY <2>1, <2>4, <3>2 DEF HashInv
      <4>2. Has(c, k, w) <=> k \in DOMAIN stored /\ stored[k] = w
        BY <2>1, <3>2 DEF HashInv
      <4>. QED  BY <1>1, <2>5, <3>2, <4>1, <4>2
    <3>3. CASE CalcHash(k) # b
      <4>1. table'[CalcHash(k)] = table[CalcHash(k)] /\ k # key
        BY <2>1, <2>4, <3>3, Hashed DEF HashInv
      <4>. QED  BY <1>1, <4>1 DEF HashInv
    <3>. QED  BY <3>1, <3>2, <3>3
  <2>. QED  BY <1>1, <2>6, <2>7 DEF HashInv, Has
<1>3. CASE CalcHash(key) \notin Buckets
  <2>1. key \notin Pointers
    BY <1>3, Hashed
  <2>2. table' = table
    BY <1>3 DEF HashRemoval, HashInv
  <2>3. stored' = stored
    BY <1>1, <2>1 DEF HashInv
  <2>. QED  BY <2>2, <2>3 DEF HashInv, Has
<1>. QED  BY <1>2, <1>3

LEMMA HashStep ==
  ASSUME HashInv, [HashNext]_hashVars
  PROVE  HashInv'
<1>1. ASSUME NEW key \in Pointers, NEW v \in Values, HashInsert(key, v) PROVE HashInv'
  BY <1>1, HashInsertKeeps
<1>2. ASSUME NEW key \in Pointers, HashRemove(key) PROVE HashInv'
  BY <1>2, HashRemovalKeeps DEF HashRemove
<1>3. CASE HashFree
  <2>1. table' = [b \in Buckets |-> <<>>] /\ stored' = <<>>
    BY <1>3 DEF HashFree
  <2>2. table' \in [Buckets -> Chains] /\ \A k \in Pointers : \A v : ~Has(table'[CalcHash(k)], k, v)
    BY <2>1, EmptyTable
  <2>. QED  BY <2>1, <2>2 DEF HashInv, Has
<1>4. CASE RemoveListed
  BY <1>4, HashRemovalKeeps DEF RemoveListed
<1>5. CASE UNCHANGED <<table, stored>>
  BY <1>5 DEF HashInv, Has
<1>6. ASSUME NEW key \in Pointers, ChangeList(key) PROVE UNCHANGED <<table, stored>>
  BY <1>6 DEF ChangeList
<1>7. CASE TakeKeys
  BY <1>5, <1>7 DEF TakeKeys
<1>8. CASE UNCHANGED hashVars
  BY <1>5, <1>8 DEF hashVars
<1>. QED  BY <1>1, <1>2, <1>3, <1>4, <1>5, <1>6, <1>7, <1>8 DEF HashNext

LEMMA HashFinds ==
  ASSUME HashInv
  PROVE  LookupIsLast
<1>. SUFFICES ASSUME NEW key \in Pointers
              PROVE  HashLookup(key) = IF key \in DOMAIN stored THEN stored[key] ELSE -1
  BY DEF LookupIsLast
<1>1. PICK c \in Chains : c = table[CalcHash(key)]
  BY Hashed DEF HashInv
<1>2. FindNode(key) = Found(c, key)
  BY <1>1 DEF FindNode, Found
<1>3. CASE Found(c, key) = 0
  <2>1. \A v : ~Has(c, key, v)
    BY <1>3, FoundIs DEF Chains, Has
  <2>2. key \notin DOMAIN stored
    BY <1>1, <2>1 DEF HashInv
  <2>. QED  BY <1>2, <1>3, <2>2 DEF HashLookup
<1>4. CASE Found(c, key) # 0
  <2>1. Found(c, key) \in DOMAIN c /\ c[Found(c, key)].key = key
    BY <1>4, FoundIs DEF Chains
  <2>2. Has(c, key, c[Found(c, key)].value)
    BY <2>1 DEF Has
  <2>3. key \in DOMAIN stored /\ stored[key] = c[Found(c, key)].value
    BY <1>1, <2>2 DEF HashInv
  <2>. QED  BY <1>1, <1>2, <1>4, <2>3 DEF HashLookup
<1>. QED  BY <1>3, <1>4

(* For any number of buckets, any keys and values, and any order of         *)
(* insertions, replacements and removals, those of the keys a caller was    *)
(* given in a list too: zhash_table_lookup() gives what was stored last for *)
(* the key, whatever else is in its bucket.                                 *)
THEOREM LookupsFindTheLast == HashSpec => []LookupIsLast
BY HashStart, HashStep, HashFinds, PTL DEF HashSpec

------------------------------------------------------------------------------
(* The INI parser: the ends of a set of positions.                          *)

LEMMA LeastIs ==
  ASSUME NEW S, S \subseteq Int, NEW x \in S, \A j \in S : x <= j
  PROVE  Least(S) = x
<1>1. \A i \in S : (\A j \in S : i <= j) => i = x
  OBVIOUS
<1>. QED  BY <1>1 DEF Least

LEMMA MostIs ==
  ASSUME NEW S, S \subseteq Int, NEW x \in S, \A j \in S : x >= j
  PROVE  Most(S) = x
<1>1. \A i \in S : (\A j \in S : i >= j) => i = x
  OBVIOUS
<1>. QED  BY <1>1 DEF Most

LEMMA MostExists ==
  ASSUME NEW n \in Nat, NEW S, S \subseteq 1 .. n, S # {}
  PROVE  \E i \in S : \A j \in S : i >= j
<1>. DEFINE D == {n - i : i \in S}
<1>1. D \subseteq Nat /\ D # {}
  <2>1. \A i \in S : n - i \in Nat
    OBVIOUS
  <2>2. PICK i : i \in S
    OBVIOUS
  <2>3. n - i \in D
    BY <2>2
  <2>. QED  BY <2>1, <2>3
<1>2. PICK d \in D : \A e \in D : d <= e
  <2>. HIDE DEF D
  <2>. QED  BY <1>1, LeastExists
<1>3. PICK i \in S : d = n - i
  OBVIOUS
<1>4. ASSUME NEW j \in S PROVE i >= j
  <2>1. n - j \in D
    OBVIOUS
  <2>2. n - i <= n - j
    BY <1>2, <1>3, <2>1
  <2>. QED  BY <2>2
<1>. QED  BY <1>4

(* zstrchomp() of any string.                                               *)
LEMMA ChompOf ==
  ASSUME NEW s \in Seq(Characters), NEW K, K = {i \in DOMAIN s : ~IsSpace(s[i])}
  PROVE  Chomp(s) = IF K = {} THEN <<>> ELSE SubSeq(s, Least(K), Most(K))
<1>1. PICK n \in Nat : n = Len(s) /\ DOMAIN s = 1 .. n
  OBVIOUS
<1>2. PICK A : A = {i \in 0 .. n : i >= n - 1 \/ ~IsSpace(s[i + 1])}
  OBVIOUS
<1>3. ChompStart(s) = Least(A) /\ A \subseteq Int
  BY <1>1, <1>2 DEF ChompStart
<1>4. PICK B : B = {i \in 0 .. n - 1 : i = 0 \/ ~IsSpace(s[i + 1])}
  OBVIOUS
<1>5. B \subseteq Int /\ ChompEnd(s) = IF n = 0 THEN -1 ELSE Most(B)
  BY <1>1, <1>4 DEF ChompEnd
<1>6. CASE n = 0
  <2>1. 0 \in A /\ \A j \in A : 0 <= j
    BY <1>2, <1>6
  <2>2. ChompStart(s) = 0 /\ ChompEnd(s) = -1
    BY <1>3, <1>5, <1>6, <2>1, LeastIs
  <2>3. K = {}
    BY <1>1, <1>6
  <2>. QED  BY <2>2, <2>3 DEF Chomp
<1>7. CASE n # 0 /\ K = {}
  <2>1. \A i \in 1 .. n : IsSpace(s[i])
    BY <1>1, <1>7
  <2>2. n - 1 \in A /\ \A j \in A : n - 1 <= j
    BY <1>2, <1>7, <2>1
  <2>3. 0 \in B /\ \A j \in B : 0 >= j
    BY <1>4, <1>7, <2>1
  <2>4. ChompStart(s) = n - 1 /\ ChompEnd(s) = 0
    BY <1>3, <1>5, <1>7, <2>2, <2>3, LeastIs, MostIs
  <2>. QED  BY <1>7, <2>1, <2>4 DEF Chomp
<1>8. CASE n # 0 /\ K # {}
  <2>1. K \subseteq Nat /\ K \subseteq 1 .. n
    BY <1>1
  <2>2. PICK a \in K : \A j \in K : a <= j
    BY <1>8, <2>1, LeastExists
  <2>3. PICK b \in K : \A j \in K : b >= j
    BY <1>8, <2>1, MostExists
  <2>4. Least(K) = a /\ Most(K) = b
    <3>1. K \subseteq Int
      BY <2>1
    <3>2. Least(K) = a
      BY <2>2, <3>1, LeastIs, Zenon
    <3>3. Most(K) = b
      BY <2>3, <3>1, MostIs, Zenon
    <3>. QED  BY <3>2, <3>3
  <2>5. a - 1 \in A /\ \A j \in A : a - 1 <= j
    <3>1. a \in 1 .. n /\ ~IsSpace(s[a]) /\ (a - 1) + 1 = a
      BY <1>1, <2>1, <2>2
    <3>2. a - 1 \in A
      BY <1>2, <3>1
    <3>3. ASSUME NEW j \in A, j < a - 1 PROVE FALSE
      <4>1. j \in 0 .. n /\ j + 1 \in 1 .. n /\ j + 1 < a /\ ~(j >= n - 1)
        BY <1>2, <3>1, <3>3
      <4>2. j + 1 \in K
        BY <1>1, <1>2, <4>1
      <4>. QED  BY <2>1, <2>2, <4>1, <4>2
    <3>. QED  BY <1>3, <3>1, <3>2, <3>3
  <2>6. b - 1 \in B /\ \A j \in B : b - 1 >= j
    <3>1. b \in 1 .. n /\ ~IsSpace(s[b]) /\ (b - 1) + 1 = b
      BY <1>1, <2>1, <2>3
    <3>2. b - 1 \in B
      BY <1>4, <3>1
    <3>3. ASSUME NEW j \in B, j > b - 1 PROVE FALSE
      <4>1. j \in 0 .. n - 1 /\ j # 0 /\ j + 1 \in 1 .. n /\ j + 1 > b
        BY <1>4, <3>1, <3>3
      <4>2. j + 1 \in K
        BY <1>1, <1>4, <4>1
      <4>. QED  BY <2>1, <2>3, <4>1, <4>2
    <3>. QED  BY <1>5, <3>1, <3>2, <3>3
  <2>7. ChompStart(s) = a - 1 /\ ChompEnd(s) = b - 1
    BY <1>3, <1>5, <1>8, <2>5, <2>6, LeastIs, MostIs
  <2>8. a \in Int /\ b \in Int /\ a <= b /\ ~IsSpace(s[b])
    BY <2>1, <2>2, <2>3
  <2>9. /\ ~(b - 1 < a - 1) /\ ~(b - 1 = a - 1 /\ IsSpace(s[(b - 1) + 1]))
        /\ (a - 1) + 1 = a /\ (b - 1) + 1 = b
    BY <2>8
  <2>10. Chomp(s) = SubSeq(s, a, b)
    BY <2>7, <2>9 DEF Chomp
  <2>. QED  BY <1>8, <2>4, <2>10
<1>. QED  BY <1>6, <1>7, <1>8

StringTyped == iniString \in Seq(Characters)

LEMMA StringStart ==
  ASSUME IniInit
  PROVE  StringTyped
BY DEF IniInit, StringTyped

LEMMA StringStep ==
  ASSUME StringTyped, [IniNext]_iniVars
  PROVE  StringTyped'
<1>1. ASSUME NEW c \in Characters, IniExtend(c) PROVE StringTyped'
  BY <1>1 DEF IniExtend, StringTyped
<1>. QED  BY <1>1 DEF IniNext, IniReadLine, IniEndOfFile, IniDone, iniVars, StringTyped

(* zstrchomp() removes the blanks around a string and nothing else, for     *)
(* strings of any characters and any length.                                *)
THEOREM StringsTrimmed == IniSpec => []ChompTrims
<1>1. StringTyped => ChompTrims
  BY ChompOf DEF ChompTrims, StringTyped
<1>. QED  BY <1>1, StringStart, StringStep, PTL DEF IniSpec

------------------------------------------------------------------------------
(* The lines r of a file: a header, the parameters below it, and whether it *)
(* is the latest one.                                                       *)

Parameters == [name : ParameterNames, value : ParameterValues]
SectionRecords == [name : SectionNames, keys : Seq(Parameters)]

IsHeader(r, h) == h \in DOMAIN r /\ r[h].kind = "section"
NoneSince(r, h) == \A j \in h + 1 .. Len(r) : r[j].kind # "section"
BodyOf(r, h) ==
  {i \in h + 1 .. Len(r) : r[i].kind = "parameter" /\ \A j \in h + 1 .. i - 1 : r[j].kind # "section"}
AssignedIn(r, h, k) == {i \in BodyOf(r, h) : r[i].name = k}

(* A section holds what is below its header: of several equal keys, the     *)
(* first in its list is the last in the file.                               *)
Newest(r, S, keys, k) ==
  \E i \in DOMAIN keys : \E l \in S :
    /\ keys[i].name = k /\ keys[i].value = r[l].value
    /\ \A j \in 1 .. i - 1 : keys[j].name # k
    /\ \A m \in S : l >= m
KeyMatches(r, S, keys, k) ==
  \/ S = {} /\ \A i \in DOMAIN keys : keys[i].name # k
  \/ Newest(r, S, keys, k)
Matches(r, sec, h) ==
  /\ IsHeader(r, h) /\ r[h].name = sec.name
  /\ \A k \in ParameterNames : KeyMatches(r, AssignedIn(r, h, k), sec.keys, k)

(* The section being filled belongs to the latest header, and the finished  *)
(* ones to the others: all of them that have parameters.                    *)
FillsLatest(r, cur, parsed) ==
  \/ cur = <<>> /\ (parsed = TRUE \/ \A h \in DOMAIN r : r[h].kind # "section")
  \/ /\ parsed = FALSE
     /\ \E sec \in SectionRecords, h \in DOMAIN r :
          cur = <<sec>> /\ NoneSince(r, h) /\ Matches(r, sec, h)
AllMatch(r, secs, parsed) ==
  \A n \in DOMAIN secs : \E h \in DOMAIN r : Matches(r, secs[n], h) /\ (parsed = TRUE \/ ~NoneSince(r, h))
AllListed(r, secs, parsed) ==
  \A h \in DOMAIN r : IsHeader(r, h) /\ BodyOf(r, h) # {} /\ (parsed = TRUE \/ ~NoneSince(r, h)) =>
    \E n \in DOMAIN secs : secs[n].name = r[h].name

Parsing(r, cur, secs, parsed) ==
  /\ r \in Seq(IniLines) /\ secs \in Seq(SectionRecords) /\ parsed \in BOOLEAN
  /\ FillsLatest(r, cur, parsed) /\ AllMatch(r, secs, parsed) /\ AllListed(r, secs, parsed)
IniInv == Parsing(iniRead, iniSection, iniSections, iniParsed)

(* One more line.                                                           *)
LEMMA LinesAre ==
  ASSUME NEW line \in IniLines
  PROVE  /\ line.kind \in {"section", "parameter", "other"}
         /\ line.kind = "section" => line.name \in SectionNames
         /\ line.kind = "parameter" => line.name \in ParameterNames /\ line.value \in ParameterValues
BY DEF IniLines

LEMMA OneMore ==
  ASSUME NEW r \in Seq(IniLines), NEW line \in IniLines, NEW q, q = Append(r, line)
  PROVE  /\ q \in Seq(IniLines) /\ Len(q) = Len(r) + 1 /\ q[Len(r) + 1] = line
         /\ Len(r) \in Nat /\ DOMAIN r = 1 .. Len(r) /\ DOMAIN q = 1 .. Len(r) + 1
         /\ \A i \in 1 .. Len(r) : q[i] = r[i]
OBVIOUS

LEMMA SinceExtends ==
  ASSUME NEW r \in Seq(IniLines), NEW line \in IniLines, NEW q, q = Append(r, line), NEW h \in DOMAIN r
  PROVE  NoneSince(q, h) <=> NoneSince(r, h) /\ line.kind # "section"
<1>1. /\ Len(r) \in Nat /\ h \in 1 .. Len(r) /\ Len(q) = Len(r) + 1 /\ q[Len(r) + 1] = line
      /\ \A i \in 1 .. Len(r) : q[i] = r[i]
  BY OneMore
<1>2. \A j \in h + 1 .. Len(q) : j = Len(r) + 1 \/ (j \in h + 1 .. Len(r) /\ q[j] = r[j])
  BY <1>1
<1>3. /\ Len(r) + 1 \in h + 1 .. Len(q)
      /\ \A j \in h + 1 .. Len(r) : j \in h + 1 .. Len(q) /\ q[j] = r[j]
  BY <1>1
<1>. QED  BY <1>1, <1>2, <1>3 DEF NoneSince

LEMMA BodyExtends ==
  ASSUME NEW r \in Seq(IniLines), NEW line \in IniLines, NEW q, q = Append(r, line), NEW h \in DOMAIN r
  PROVE  BodyOf(q, h) =
           IF line.kind = "parameter" /\ NoneSince(r, h) THEN BodyOf(r, h) \cup {Len(r) + 1} ELSE BodyOf(r, h)
<1>1. /\ Len(r) \in Nat /\ h \in 1 .. Len(r) /\ Len(q) = Len(r) + 1 /\ q[Len(r) + 1] = line
      /\ \A i \in 1 .. Len(r) : q[i] = r[i]
  BY OneMore
<1>2. ASSUME NEW i \in h + 1 .. Len(r) PROVE i \in BodyOf(q, h) <=> i \in BodyOf(r, h)
  <2>1. i \in h + 1 .. Len(q) /\ q[i] = r[i] /\ \A j \in h + 1 .. i - 1 : q[j] = r[j]
    BY <1>1
  <2>. QED  BY <2>1 DEF BodyOf
<1>3. Len(r) + 1 \in BodyOf(q, h) <=> line.kind = "parameter" /\ NoneSince(r, h)
  <2>1. /\ Len(r) + 1 \in h + 1 .. Len(q) /\ (Len(r) + 1) - 1 = Len(r)
        /\ \A j \in h + 1 .. Len(r) : q[j] = r[j]
    BY <1>1
  <2>. QED  BY <1>1, <2>1 DEF BodyOf, NoneSince
<1>4. \A i \in BodyOf(q, h) : i = Len(r) + 1 \/ i \in h + 1 .. Len(r)
  BY <1>1 DEF BodyOf
<1>5. \A i \in BodyOf(r, h) : i \in h + 1 .. Len(r)
  BY DEF BodyOf
<1>6. PICK B, C : B = BodyOf(q, h) /\ C = BodyOf(r, h)
  OBVIOUS
<1>7. (\A i \in B : i = Len(r) + 1 \/ i \in C) /\ \A i \in C : i \in B
  BY <1>2, <1>4, <1>5, <1>6
<1>8. CASE line.kind = "parameter" /\ NoneSince(r, h)
  <2>1. B = C \cup {Len(r) + 1}
    BY <1>3, <1>6, <1>7, <1>8
  <2>. QED  BY <1>6, <1>8, <2>1
<1>9. CASE ~(line.kind = "parameter" /\ NoneSince(r, h))
  <2>1. B = C
    BY <1>3, <1>6, <1>7, <1>9
  <2>. QED  BY <1>6, <1>9, <2>1
<1>. QED  BY <1>8, <1>9

LEMMA MatchesOthers ==
  ASSUME NEW r \in Seq(IniLines), NEW line \in IniLines, NEW q, q = Append(r, line), NEW h \in DOMAIN r,
         NEW sec, Matches(r, sec, h), line.kind # "parameter" \/ ~NoneSince(r, h)
  PROVE  Matches(q, sec, h)
<1>1. /\ DOMAIN q = 1 .. Len(r) + 1 /\ DOMAIN r = 1 .. Len(r) /\ Len(r) \in Nat
      /\ \A i \in 1 .. Len(r) : q[i] = r[i]
  BY OneMore
<1>2. BodyOf(q, h) = BodyOf(r, h)
  BY BodyExtends
<1>3. \A i \in BodyOf(r, h) : i \in 1 .. Len(r)
  BY <1>1 DEF BodyOf
<1>4. ASSUME NEW k \in ParameterNames PROVE KeyMatches(q, AssignedIn(q, h, k), sec.keys, k)
  <2>1. AssignedIn(q, h, k) = AssignedIn(r, h, k) /\ \A l \in AssignedIn(r, h, k) : q[l] = r[l]
    BY <1>1, <1>2, <1>3 DEF AssignedIn
  <2>2. KeyMatches(r, AssignedIn(r, h, k), sec.keys, k)
    BY DEF Matches
  <2>. QED  BY <2>1, <2>2 DEF KeyMatches, Newest
<1>5. IsHeader(q, h) /\ q[h].name = sec.name
  BY <1>1 DEF Matches, IsHeader
<1>. QED  BY <1>4, <1>5 DEF Matches

LEMMA MatchesFilled ==
  ASSUME NEW r \in Seq(IniLines), NEW line \in IniLines, NEW q, q = Append(r, line), NEW h \in DOMAIN r,
         NEW sec \in SectionRecords, Matches(r, sec, h), line.kind = "parameter", NoneSince(r, h),
         NEW full, full = WithParameter(sec, line)
  PROVE  full \in SectionRecords /\ Matches(q, full, h)
<1>1. /\ DOMAIN q = 1 .. Len(r) + 1 /\ DOMAIN r = 1 .. Len(r) /\ Len(r) \in Nat
      /\ q[Len(r) + 1] = line /\ \A i \in 1 .. Len(r) : q[i] = r[i]
  BY OneMore
<1>2. BodyOf(q, h) = BodyOf(r, h) \cup {Len(r) + 1}
  BY BodyExtends
<1>3. \A i \in BodyOf(r, h) : i \in 1 .. Len(r)
  BY <1>1 DEF BodyOf
<1>4. PICK old, p, new : /\ old = sec.keys /\ p = ParameterNew(line.name, line.value) /\ new = <<p>> \o old
  OBVIOUS
<1>5. old \in Seq(Parameters) /\ p \in Parameters /\ p.name = line.name /\ p.value = line.value
  BY <1>4, LinesAre DEF SectionRecords, Parameters, ParameterNew
<1>6. /\ new \in Seq(Parameters) /\ new[1] = p /\ Len(old) \in Nat /\ DOMAIN old = 1 .. Len(old)
      /\ DOMAIN new = 1 .. Len(old) + 1 /\ \A i \in 1 .. Len(old) : new[i + 1] = old[i]
  BY <1>4, <1>5
<1>7. full = [sec EXCEPT !.keys = new]
  BY <1>4 DEF WithParameter
<1>8. full \in SectionRecords /\ full.name = sec.name /\ full.keys = new
  BY <1>6, <1>7 DEF SectionRecords
<1>9. ASSUME NEW k \in ParameterNames PROVE KeyMatches(q, AssignedIn(q, h, k), new, k)
  <2>1. PICK S : S = AssignedIn(r, h, k)
    OBVIOUS
  <2>2. KeyMatches(r, S, old, k)
    BY <1>4, <2>1 DEF Matches
  <2>3. \A l \in S : l \in 1 .. Len(r) /\ q[l] = r[l]
    BY <1>1, <1>3, <2>1 DEF AssignedIn
  <2>4. CASE line.name = k
    <3>1. Len(r) + 1 \in AssignedIn(q, h, k)
      BY <1>1, <1>2, <2>4 DEF AssignedIn
    <3>2. \A m \in AssignedIn(q, h, k) : Len(r) + 1 >= m
      BY <1>1, <1>2, <1>3 DEF AssignedIn
    <3>3. 1 \in DOMAIN new /\ new[1].name = k /\ new[1].value = q[Len(r) + 1].value
          /\ \A j \in 1 .. 1 - 1 : new[j].name # k
      BY <1>1, <1>5, <1>6, <2>4
    <3>4. Newest(q, AssignedIn(q, h, k), new, k)
      BY <3>1, <3>2, <3>3 DEF Newest
    <3>. QED  BY <3>4 DEF KeyMatches
  <2>5. CASE line.name # k
    <3>1. AssignedIn(q, h, k) = S
      BY <1>1, <1>2, <1>3, <2>1, <2>5 DEF AssignedIn
    <3>2. CASE S = {} /\ \A i \in DOMAIN old : old[i].name # k
      <4>1. ASSUME NEW i \in DOMAIN new PROVE new[i].name # k
        <5>1. i = 1 \/ (i - 1 \in 1 .. Len(old) /\ (i - 1) + 1 = i)
          BY <1>6
        <5>. QED  BY <1>5, <1>6, <2>5, <3>2, <5>1
      <4>. QED  BY <3>1, <3>2, <4>1 DEF KeyMatches
    <3>3. CASE Newest(r, S, old, k)
      <4>1. PICK i \in DOMAIN old, l \in S : /\ old[i].name = k /\ old[i].value = r[l].value
                                             /\ \A j \in 1 .. i - 1 : old[j].name # k
                                             /\ \A m \in S : l >= m
        BY <3>3 DEF Newest
      <4>2. /\ i + 1 \in DOMAIN new /\ new[i + 1] = old[i] /\ q[l] = r[l]
        BY <1>6, <2>3
      <4>3. ASSUME NEW j \in 1 .. (i + 1) - 1 PROVE new[j].name # k
        <5>1. j = 1 \/ (j - 1 \in 1 .. i - 1 /\ j - 1 \in 1 .. Len(old) /\ (j - 1) + 1 = j)
          BY <1>6
        <5>. QED  BY <1>5, <1>6, <2>5, <4>1, <5>1
      <4>4. Newest(q, S, new, k)
        <5>1. PICK n \in DOMAIN new : n = i + 1
          BY <4>2
        <5>2. new[n].name = k /\ new[n].value = q[l].value
          BY <4>1, <4>2, <5>1
        <5>3. \A j \in 1 .. n - 1 : new[j].name # k
          BY <4>3, <5>1
        <5>4. \A m \in S : l >= m
          BY <4>1
        <5>. QED  BY <5>2, <5>3, <5>4 DEF Newest
      <4>. QED  BY <3>1, <4>4 DEF KeyMatches
    <3>. QED  BY <2>2, <3>2, <3>3 DEF KeyMatches
  <2>. QED  BY <2>4, <2>5
<1>10. IsHeader(q, h) /\ q[h].name = full.name
  BY <1>1, <1>8 DEF Matches, IsHeader
<1>. QED  BY <1>8, <1>9, <1>10 DEF Matches

LEMMA MatchesOpened ==
  ASSUME NEW r \in Seq(IniLines), NEW line \in IniLines, NEW q, q = Append(r, line), line.kind = "section",
         NEW sec, sec = SectionNew(line.name)
  PROVE  sec \in SectionRecords /\ Matches(q, sec, Len(r) + 1) /\ NoneSince(q, Len(r) + 1)
<1>1. DOMAIN q = 1 .. Len(r) + 1 /\ Len(q) = Len(r) + 1 /\ Len(r) \in Nat /\ q[Len(r) + 1] = line
  BY OneMore
<1>2. sec \in SectionRecords /\ sec.name = line.name /\ sec.keys = <<>>
  BY LinesAre DEF SectionRecords, SectionNew
<1>3. (Len(r) + 1) + 1 .. Len(q) = {}
  BY <1>1
<1>4. BodyOf(q, Len(r) + 1) = {} /\ NoneSince(q, Len(r) + 1)
  BY <1>3 DEF BodyOf, NoneSince
<1>5. \A k \in ParameterNames : KeyMatches(q, AssignedIn(q, Len(r) + 1, k), sec.keys, k)
  BY <1>2, <1>4 DEF KeyMatches, AssignedIn
<1>. QED  BY <1>1, <1>2, <1>4, <1>5 DEF Matches, IsHeader

(* The steps of zini_file_parse().                                          *)
LEMMA FilledListed ==
  ASSUME NEW r \in Seq(IniLines), NEW sec \in SectionRecords, NEW h, Matches(r, sec, h), BodyOf(r, h) # {}
  PROVE  sec.keys # <<>>
<1>1. PICK l \in BodyOf(r, h) : TRUE
  OBVIOUS
<1>2. IsHeader(r, h)
  BY DEF Matches
<1>3. l \in DOMAIN r /\ r[l] \in IniLines /\ r[l].kind = "parameter"
  BY <1>1, <1>2 DEF BodyOf, IsHeader
<1>4. r[l].name \in ParameterNames
  BY <1>3, LinesAre
<1>5. l \in AssignedIn(r, h, r[l].name)
  BY <1>1 DEF AssignedIn
<1>6. Newest(r, AssignedIn(r, h, r[l].name), sec.keys, r[l].name)
  BY <1>4, <1>5 DEF Matches, KeyMatches
<1>7. PICK i : i \in DOMAIN sec.keys
  BY <1>6 DEF Newest
<1>. QED  BY <1>7

Finished(cur) == IF cur = <<>> \/ cur[1].keys = <<>> THEN <<>> ELSE cur

LEMMA LatestIsOne ==
  ASSUME NEW r \in Seq(IniLines), NEW g, NEW h, IsHeader(r, g), IsHeader(r, h), NoneSince(r, g), NoneSince(r, h)
  PROVE  h = g
<1>1. Len(r) \in Nat /\ DOMAIN r = 1 .. Len(r) /\ g \in 1 .. Len(r) /\ h \in 1 .. Len(r)
  BY DEF IsHeader
<1>2. g < h => h \in g + 1 .. Len(r)
  BY <1>1
<1>3. h < g => g \in h + 1 .. Len(r)
  BY <1>1
<1>4. ~(g < h) /\ ~(h < g)
  BY <1>2, <1>3 DEF NoneSince, IsHeader
<1>. QED  BY <1>1, <1>4

(* A section is finished before or behind the others.                       *)
LEMMA SectionsJoined ==
  ASSUME NEW r, NEW cur, NEW secs, Parsing(r, cur, secs, FALSE), NEW all,
         all = Finished(cur) \o secs \/ all = secs \o Finished(cur)
  PROVE  /\ all \in Seq(SectionRecords)
         /\ AllMatch(r, all, TRUE) /\ AllListed(r, all, TRUE)
<1>1. /\ r \in Seq(IniLines) /\ secs \in Seq(SectionRecords) /\ FillsLatest(r, cur, FALSE)
      /\ AllMatch(r, secs, FALSE) /\ AllListed(r, secs, FALSE)
  BY DEF Parsing
<1>2. CASE Finished(cur) = <<>>
  <2>1. all = secs
    BY <1>1, <1>2
  <2>2. AllListed(r, secs, TRUE)
    <3>. SUFFICES ASSUME NEW h \in DOMAIN r, IsHeader(r, h), BodyOf(r, h) # {}, NoneSince(r, h) PROVE FALSE
      BY <1>1 DEF AllListed
    <3>1. PICK sec \in SectionRecords, g \in DOMAIN r : cur = <<sec>> /\ NoneSince(r, g) /\ Matches(r, sec, g)
      BY <1>1 DEF FillsLatest, IsHeader
    <3>2. sec.keys = <<>>
      BY <1>2, <3>1 DEF Finished
    <3>3. h = g
      BY <1>1, <3>1, LatestIsOne DEF Matches
    <3>. QED  BY <1>1, <3>1, <3>2, <3>3, FilledListed
  <2>. QED  BY <1>1, <2>1, <2>2 DEF AllMatch
<1>3. CASE Finished(cur) # <<>>
  <2>1. PICK sec \in SectionRecords, g \in DOMAIN r :
          cur = <<sec>> /\ Finished(cur) = <<sec>> /\ NoneSince(r, g) /\ Matches(r, sec, g)
    BY <1>1, <1>3 DEF FillsLatest, Finished
  <2>2. all = <<sec>> \o secs \/ all = secs \o <<sec>>
    BY <2>1
  <2>3. /\ all \in Seq(SectionRecords)
        /\ \A n \in DOMAIN all : all[n] = sec \/ \E m \in DOMAIN secs : all[n] = secs[m]
        /\ \A m \in DOMAIN secs : \E n \in DOMAIN all : all[n] = secs[m]
        /\ \E n \in DOMAIN all : all[n] = sec
    <3>1. secs \in Seq(SectionRecords) /\ Len(secs) \in Nat /\ DOMAIN secs = 1 .. Len(secs)
      BY <1>1
    <3>2. CASE all = <<sec>> \o secs
      <4>1. /\ all \in Seq(SectionRecords) /\ DOMAIN all = 1 .. Len(secs) + 1 /\ all[1] = sec
            /\ \A m \in 1 .. Len(secs) : all[m + 1] = secs[m]
        BY <3>1, <3>2
      <4>2. \A n \in DOMAIN all : n = 1 \/ (n - 1 \in DOMAIN secs /\ all[n] = secs[n - 1])
        BY <3>1, <4>1
      <4>3. \A m \in DOMAIN secs : m + 1 \in DOMAIN all /\ all[m + 1] = secs[m]
        BY <3>1, <4>1
      <4>4. 1 \in DOMAIN all
        BY <3>1, <4>1
      <4>. QED  BY <4>1, <4>2, <4>3, <4>4
    <3>3. CASE all = secs \o <<sec>>
      <4>1. /\ all \in Seq(SectionRecords) /\ DOMAIN all = 1 .. Len(secs) + 1 /\ all[Len(secs) + 1] = sec
            /\ \A m \in 1 .. Len(secs) : all[m] = secs[m]
        BY <3>1, <3>3
      <4>2. \A n \in DOMAIN all : n = Len(secs) + 1 \/ n \in DOMAIN secs
        BY <3>1, <4>1
      <4>. QED  BY <3>1, <4>1, <4>2
    <3>. QED  BY <2>2, <3>2, <3>3
  <2>4. AllMatch(r, all, TRUE)
    BY <1>1, <2>1, <2>3 DEF AllMatch
  <2>5. AllListed(r, all, TRUE)
    <3>. SUFFICES ASSUME NEW h \in DOMAIN r, IsHeader(r, h), BodyOf(r, h) # {}
                  PROVE  \E n \in DOMAIN all : all[n].name = r[h].name
      BY DEF AllListed
    <3>1. CASE NoneSince(r, h)
      <4>1. h = g
        BY <1>1, <2>1, <3>1, LatestIsOne DEF Matches
      <4>. QED  BY <2>1, <2>3, <4>1 DEF Matches
    <3>2. CASE ~NoneSince(r, h)
      <4>1. PICK m \in DOMAIN secs : secs[m].name = r[h].name
        BY <1>1, <3>2 DEF AllListed
      <4>. QED  BY <2>3, <4>1
    <3>. QED  BY <3>1, <3>2
  <2>. QED  BY <2>3, <2>4, <2>5
<1>. QED  BY <1>2, <1>3

LEMMA SectionOpened ==
  ASSUME NEW r, NEW cur, NEW secs, Parsing(r, cur, secs, FALSE), NEW line \in IniLines, line.kind = "section",
         NEW q, q = Append(r, line), NEW all, all = Finished(cur) \o secs
  PROVE  Parsing(q, <<SectionNew(line.name)>>, all, FALSE)
<1>1. r \in Seq(IniLines)
  BY DEF Parsing
<1>2. /\ q \in Seq(IniLines) /\ DOMAIN q = 1 .. Len(r) + 1 /\ DOMAIN r = 1 .. Len(r) /\ Len(r) \in Nat
      /\ \A i \in 1 .. Len(r) : q[i] = r[i]
  BY <1>1, OneMore
<1>3. all \in Seq(SectionRecords) /\ AllMatch(r, all, TRUE) /\ AllListed(r, all, TRUE)
  BY SectionsJoined
<1>4. PICK sec \in SectionRecords :
        sec = SectionNew(line.name) /\ Matches(q, sec, Len(r) + 1) /\ NoneSince(q, Len(r) + 1)
  BY <1>1, MatchesOpened
<1>5. \A h \in DOMAIN r : ~NoneSince(q, h) /\ BodyOf(q, h) = BodyOf(r, h)
  <2>. TAKE h \in DOMAIN r
  <2>1. NoneSince(q, h) <=> NoneSince(r, h) /\ line.kind # "section"
    BY <1>1, SinceExtends
  <2>2. BodyOf(q, h) = BodyOf(r, h)
    BY <1>1, BodyExtends
  <2>. QED  BY <2>1, <2>2
<1>6. FillsLatest(q, <<sec>>, FALSE)
  BY <1>2, <1>4 DEF FillsLatest
<1>7. AllMatch(q, all, FALSE)
  <2>. SUFFICES ASSUME NEW n \in DOMAIN all
                PROVE  \E h \in DOMAIN q : Matches(q, all[n], h) /\ ~NoneSince(q, h)
    BY DEF AllMatch
  <2>1. PICK h \in DOMAIN r : Matches(r, all[n], h)
    BY <1>3 DEF AllMatch
  <2>2. Matches(q, all[n], h)
    BY <1>1, <2>1, MatchesOthers
  <2>. QED  BY <1>2, <1>5, <2>2
<1>8. AllListed(q, all, FALSE)
  <2>. SUFFICES ASSUME NEW h \in DOMAIN q, IsHeader(q, h), BodyOf(q, h) # {}, ~NoneSince(q, h)
                PROVE  \E n \in DOMAIN all : all[n].name = q[h].name
    BY DEF AllListed
  <2>1. h \in DOMAIN r /\ q[h] = r[h]
    BY <1>2, <1>4
  <2>2. IsHeader(r, h) /\ BodyOf(r, h) # {}
    BY <1>5, <2>1 DEF IsHeader
  <2>. QED  BY <1>3, <2>1, <2>2 DEF AllListed
<1>. QED  BY <1>2, <1>3, <1>4, <1>6, <1>7, <1>8 DEF Parsing

LEMMA OthersStay ==
  ASSUME NEW r, NEW cur, NEW secs, Parsing(r, cur, secs, FALSE), NEW line \in IniLines, line.kind # "section",
         NEW q, q = Append(r, line)
  PROVE  /\ q \in Seq(IniLines) /\ AllMatch(q, secs, FALSE) /\ AllListed(q, secs, FALSE)
         /\ \A h \in DOMAIN r : h \in DOMAIN q /\ (NoneSince(q, h) <=> NoneSince(r, h))
<1>1. r \in Seq(IniLines) /\ AllMatch(r, secs, FALSE) /\ AllListed(r, secs, FALSE)
  BY DEF Parsing
<1>2. /\ q \in Seq(IniLines) /\ DOMAIN q = 1 .. Len(r) + 1 /\ DOMAIN r = 1 .. Len(r) /\ Len(r) \in Nat
      /\ q[Len(r) + 1] = line /\ \A i \in 1 .. Len(r) : q[i] = r[i]
  BY <1>1, OneMore
<1>3. \A h \in DOMAIN r : h \in DOMAIN q /\ (NoneSince(q, h) <=> NoneSince(r, h))
  <2>. TAKE h \in DOMAIN r
  <2>1. NoneSince(q, h) <=> NoneSince(r, h) /\ line.kind # "section"
    BY <1>1, SinceExtends
  <2>. QED  BY <1>2, <2>1
<1>4. AllMatch(q, secs, FALSE)
  <2>. SUFFICES ASSUME NEW n \in DOMAIN secs
                PROVE  \E h \in DOMAIN q : Matches(q, secs[n], h) /\ ~NoneSince(q, h)
    BY DEF AllMatch
  <2>1. PICK h \in DOMAIN r : Matches(r, secs[n], h) /\ ~NoneSince(r, h)
    BY <1>1 DEF AllMatch
  <2>2. Matches(q, secs[n], h)
    BY <1>1, <2>1, MatchesOthers
  <2>. QED  BY <1>3, <2>1, <2>2
<1>5. AllListed(q, secs, FALSE)
  <2>. SUFFICES ASSUME NEW h \in DOMAIN q, IsHeader(q, h), BodyOf(q, h) # {}, ~NoneSince(q, h)
                PROVE  \E n \in DOMAIN secs : secs[n].name = q[h].name
    BY DEF AllListed
  <2>1. h \in DOMAIN r /\ q[h] = r[h] /\ IsHeader(r, h)
    BY <1>2 DEF IsHeader
  <2>2. ~NoneSince(r, h)
    BY <1>3, <2>1
  <2>3. BodyOf(q, h) = BodyOf(r, h)
    BY <1>1, <2>1, <2>2, BodyExtends
  <2>. QED  BY <1>1, <2>1, <2>2, <2>3 DEF AllListed
<1>. QED  BY <1>2, <1>3, <1>4, <1>5

LEMMA ParameterAdded ==
  ASSUME NEW r, NEW cur, NEW secs, Parsing(r, cur, secs, FALSE), cur # <<>>,
         NEW line \in IniLines, line.kind = "parameter", NEW q, q = Append(r, line)
  PROVE  Parsing(q, <<WithParameter(cur[1], line)>>, secs, FALSE)
<1>1. r \in Seq(IniLines) /\ secs \in Seq(SectionRecords)
  BY DEF Parsing
<1>2. PICK sec \in SectionRecords, h \in DOMAIN r : cur = <<sec>> /\ NoneSince(r, h) /\ Matches(r, sec, h)
  BY DEF Parsing, FillsLatest
<1>3. PICK full : full = WithParameter(sec, line) /\ full = WithParameter(cur[1], line)
  BY <1>2
<1>4. full \in SectionRecords /\ Matches(q, full, h)
  BY <1>1, <1>2, <1>3, MatchesFilled
<1>5. /\ q \in Seq(IniLines) /\ AllMatch(q, secs, FALSE) /\ AllListed(q, secs, FALSE)
      /\ h \in DOMAIN q /\ NoneSince(q, h)
  BY <1>2, OthersStay
<1>6. FillsLatest(q, <<full>>, FALSE)
  BY <1>4, <1>5 DEF FillsLatest
<1>. QED  BY <1>1, <1>3, <1>5, <1>6 DEF Parsing

LEMMA LineSkipped ==
  ASSUME NEW r, NEW cur, NEW secs, Parsing(r, cur, secs, FALSE), NEW line \in IniLines, line.kind # "section",
         line.kind # "parameter" \/ cur = <<>>, NEW q, q = Append(r, line)
  PROVE  Parsing(q, cur, secs, FALSE)
<1>1. r \in Seq(IniLines) /\ secs \in Seq(SectionRecords) /\ FillsLatest(r, cur, FALSE)
  BY DEF Parsing
<1>2. /\ q \in Seq(IniLines) /\ AllMatch(q, secs, FALSE) /\ AllListed(q, secs, FALSE)
      /\ \A h \in DOMAIN r : h \in DOMAIN q /\ (NoneSince(q, h) <=> NoneSince(r, h))
  BY OthersStay
<1>3. CASE cur = <<>>
  <2>1. \A h \in DOMAIN r : r[h].kind # "section"
    BY <1>1, <1>3 DEF FillsLatest
  <2>2. \A h \in DOMAIN q : q[h] = line \/ (h \in DOMAIN r /\ q[h] = r[h])
    BY <1>1, OneMore
  <2>3. FillsLatest(q, cur, FALSE)
    BY <1>3, <2>1, <2>2 DEF FillsLatest
  <2>. QED  BY <1>1, <1>2, <2>3 DEF Parsing
<1>4. CASE cur # <<>>
  <2>1. PICK sec \in SectionRecords, h \in DOMAIN r : cur = <<sec>> /\ NoneSince(r, h) /\ Matches(r, sec, h)
    BY <1>1, <1>4 DEF FillsLatest
  <2>2. Matches(q, sec, h)
    BY <1>1, <1>4, <2>1, MatchesOthers
  <2>3. h \in DOMAIN q /\ NoneSince(q, h)
    BY <1>2, <2>1
  <2>4. FillsLatest(q, cur, FALSE)
    BY <2>1, <2>2, <2>3 DEF FillsLatest
  <2>. QED  BY <1>1, <1>2, <2>4 DEF Parsing
<1>. QED  BY <1>3, <1>4

LEMMA FileEnded ==
  ASSUME NEW r, NEW cur, NEW secs, Parsing(r, cur, secs, FALSE)
  PROVE  Parsing(r, <<>>, secs \o Finished(cur), TRUE)
<1>1. PICK all : all = secs \o Finished(cur)
  OBVIOUS
<1>2. all \in Seq(SectionRecords) /\ AllMatch(r, all, TRUE) /\ AllListed(r, all, TRUE)
  BY <1>1, SectionsJoined
<1>3. r \in Seq(IniLines) /\ FillsLatest(r, <<>>, TRUE)
  BY DEF Parsing, FillsLatest
<1>. QED  BY <1>1, <1>2, <1>3 DEF Parsing

LEMMA IniStart ==
  ASSUME IniInit
  PROVE  IniInv
<1>1. iniRead = <<>> /\ iniSection = <<>> /\ iniSections = <<>> /\ iniParsed = FALSE
  BY DEF IniInit
<1>2. <<>> \in Seq(IniLines) /\ <<>> \in Seq(SectionRecords) /\ DOMAIN <<>> = {}
  OBVIOUS
<1>3. FillsLatest(<<>>, <<>>, FALSE) /\ AllMatch(<<>>, <<>>, FALSE) /\ AllListed(<<>>, <<>>, FALSE)
  BY <1>2 DEF FillsLatest, AllMatch, AllListed
<1>. QED  BY <1>1, <1>2, <1>3 DEF IniInv, Parsing

LEMMA IniStep ==
  ASSUME IniInv, [IniNext]_iniVars
  PROVE  IniInv'
<1>1. iniParsed \in BOOLEAN
  BY DEF IniInv, Parsing
<1>2. CASE UNCHANGED <<iniRead, iniSection, iniSections, iniParsed>>
  BY <1>2 DEF IniInv
<1>3. ASSUME NEW line \in IniLines, IniReadLine(line) PROVE IniInv'
  <2>1. PICK r, cur, secs, q, cur2, secs2 :
          /\ r = iniRead /\ cur = iniSection /\ secs = iniSections
          /\ q = iniRead' /\ cur2 = iniSection' /\ secs2 = iniSections'
    OBVIOUS
  <2>2. /\ iniParsed = FALSE /\ iniParsed' = FALSE /\ q = Append(r, line)
        /\ Parsing(r, cur, secs, FALSE)
    BY <1>1, <1>3, <2>1 DEF IniReadLine, IniInv
  <2>3. CASE line.kind = "section"
    <3>1. secs2 = Finished(cur) \o secs /\ cur2 = <<SectionNew(line.name)>>
      BY <1>3, <2>1, <2>3 DEF IniReadLine, SectionDone, Finished
    <3>2. Parsing(q, cur2, secs2, FALSE)
      BY <2>2, <2>3, <3>1, SectionOpened
    <3>. QED  BY <2>1, <2>2, <3>2 DEF IniInv
  <2>4. CASE line.kind = "parameter" /\ cur # <<>>
    <3>1. secs2 = secs /\ cur2 = <<WithParameter(cur[1], line)>>
      BY <1>3, <2>1, <2>4 DEF IniReadLine
    <3>2. Parsing(q, cur2, secs2, FALSE)
      BY <2>2, <2>4, <3>1, ParameterAdded
    <3>. QED  BY <2>1, <2>2, <3>2 DEF IniInv
  <2>5. CASE line.kind # "section" /\ ~(line.kind = "parameter" /\ cur # <<>>)
    <3>1. secs2 = secs /\ cur2 = cur
      BY <1>3, <2>1, <2>5 DEF IniReadLine
    <3>2. Parsing(q, cur2, secs2, FALSE)
      BY <2>2, <2>5, <3>1, LineSkipped
    <3>. QED  BY <2>1, <2>2, <3>2 DEF IniInv
  <2>. QED  BY <2>3, <2>4, <2>5
<1>4. CASE IniEndOfFile
  <2>1. PICK r, cur, secs : r = iniRead /\ cur = iniSection /\ secs = iniSections
    OBVIOUS
  <2>2. /\ Parsing(r, cur, secs, FALSE) /\ iniRead' = r /\ iniSection' = <<>> /\ iniParsed' = TRUE
        /\ iniSections' = secs \o Finished(cur)
    BY <1>1, <1>4, <2>1 DEF IniEndOfFile, IniInv, SectionDone, Finished
  <2>3. Parsing(r, <<>>, secs \o Finished(cur), TRUE)
    BY <2>2, FileEnded
  <2>. QED  BY <2>2, <2>3 DEF IniInv
<1>. QED  BY <1>2, <1>3, <1>4 DEF IniNext, IniExtend, IniDone, iniVars

(* pzini_file_find_parameter(): the first of a list that has a name.        *)
LEMMA FirstNamedIs ==
  ASSUME NEW R, NEW l \in Seq(R), NEW name
  PROVE  \/ FirstNamed(l, name) = <<>> /\ \A i \in DOMAIN l : l[i].name # name
         \/ \E i \in DOMAIN l : /\ FirstNamed(l, name) = <<l[i]>> /\ l[i].name = name
                                /\ \A j \in 1 .. i - 1 : l[j].name # name
<1>. DEFINE I == {i \in DOMAIN l : l[i].name = name}
<1>1. CASE I = {}
  BY <1>1 DEF FirstNamed
<1>2. CASE I # {}
  <2>1. PICK x \in I : \A j \in I : x <= j
    <3>1. I \subseteq Nat
      OBVIOUS
    <3>. HIDE DEF I
    <3>. QED  BY <1>2, <3>1, LeastExists
  <2>2. x \in DOMAIN l /\ l[x].name = name /\ \A j \in 1 .. x - 1 : l[j].name # name
    BY <2>1
  <2>3. PICK y : y = CHOOSE i \in DOMAIN l : l[i].name = name /\ \A j \in 1 .. i - 1 : l[j].name # name
    OBVIOUS
  <2>4. y \in DOMAIN l /\ l[y].name = name /\ \A j \in 1 .. y - 1 : l[j].name # name
    BY <2>2, <2>3
  <2>5. FirstNamed(l, name) = <<l[y]>>
    BY <2>2, <2>3 DEF FirstNamed
  <2>. QED  BY <2>4, <2>5
<1>. QED  BY <1>1, <1>2

LEMMA IniFinds ==
  ASSUME IniInv
  PROVE  ParametersFound
<1>. SUFFICES ASSUME iniParsed, HeadersOnce, NEW s \in SectionNames, NEW k \in ParameterNames, NEW lines,
                     lines = UNION {Assigned(h, k) : h \in Headers(s)}
              PROVE  /\ FindParameter(s, k) =
                          IF lines = {} THEN <<>> ELSE <<iniRead[Most(lines)].value>>
                     /\ IsKeyExists(s, k) <=> lines # {}
  BY DEF ParametersFound
<1>1. PICK r, secs : r = iniRead /\ secs = iniSections
  OBVIOUS
<1>2. /\ r \in Seq(IniLines) /\ secs \in Seq(SectionRecords)
      /\ AllMatch(r, secs, TRUE) /\ AllListed(r, secs, TRUE)
  BY <1>1 DEF IniInv, Parsing
<1>3. \A h : h \in Headers(s) <=> IsHeader(r, h) /\ r[h].name = s
  BY <1>1 DEF Headers, IsHeader
<1>4. \A h : Assigned(h, k) = AssignedIn(r, h, k)
  BY <1>1 DEF Assigned, AssignedIn, Body, BodyOf
<1>5. CASE \A n \in DOMAIN secs : secs[n].name # s
  <2>1. FirstNamed(iniSections, s) = <<>>
    BY <1>1, <1>5 DEF FirstNamed
  <2>2. \A h \in Headers(s) : AssignedIn(r, h, k) = {}
    <3>. SUFFICES ASSUME NEW h \in Headers(s), BodyOf(r, h) # {} PROVE FALSE
      BY DEF AssignedIn
    <3>1. IsHeader(r, h) /\ r[h].name = s /\ h \in DOMAIN r
      BY <1>3 DEF IsHeader
    <3>. QED  BY <1>2, <1>5, <3>1 DEF AllListed
  <2>3. lines = {}
    BY <1>4, <2>2
  <2>4. FindParameter(s, k) = <<>> /\ ~IsKeyExists(s, k)
    BY <2>1 DEF FindParameter, IsKeyExists
  <2>. QED  BY <2>3, <2>4
<1>6. CASE \E n \in DOMAIN secs : secs[n].name = s
  <2>1. PICK n \in DOMAIN secs : FirstNamed(secs, s) = <<secs[n]>> /\ secs[n].name = s
    BY <1>2, <1>6, FirstNamedIs
  <2>2. PICK sec \in SectionRecords : sec = secs[n] /\ FirstNamed(iniSections, s) = <<sec>> /\ sec.name = s
    BY <1>1, <1>2, <2>1
  <2>3. PICK h \in DOMAIN r : Matches(r, sec, h)
    BY <1>2, <2>2 DEF AllMatch
  <2>4. Headers(s) = {h}
    BY <1>3, <2>2, <2>3 DEF Matches, HeadersOnce
  <2>5. lines = AssignedIn(r, h, k) /\ lines \subseteq Int
    BY <1>2, <1>4, <2>3, <2>4 DEF AssignedIn, BodyOf
  <2>6. PICK keys \in Seq(Parameters) : keys = sec.keys
    BY DEF SectionRecords
  <2>7. KeyMatches(r, lines, keys, k)
    BY <2>3, <2>5, <2>6 DEF Matches
  <2>8. PICK param : param = FirstNamed(keys, k)
    OBVIOUS
  <2>9. /\ FindParameter(s, k) = IF param = <<>> THEN <<>> ELSE <<param[1].value>>
        /\ IsKeyExists(s, k) <=> \E i \in DOMAIN keys : keys[i].name = k
    BY <2>2, <2>6, <2>8 DEF FindParameter, IsKeyExists
  <2>10. CASE lines = {} /\ \A i \in DOMAIN keys : keys[i].name # k
    <3>1. param = <<>>
      BY <2>8, <2>10 DEF FirstNamed
    <3>. QED  BY <2>9, <2>10, <3>1
  <2>11. CASE Newest(r, lines, keys, k)
    <3>1. PICK i \in DOMAIN keys, l \in lines :
            /\ keys[i].name = k /\ keys[i].value = r[l].value
            /\ \A j \in 1 .. i - 1 : keys[j].name # k
            /\ \A m \in lines : l >= m
      BY <2>11 DEF Newest
    <3>2. PICK f \in DOMAIN keys : /\ param = <<keys[f]>> /\ keys[f].name = k
                                   /\ \A j \in 1 .. f - 1 : keys[j].name # k
      BY <2>6, <2>8, <3>1, FirstNamedIs
    <3>3. f = i
      BY <2>6, <3>1, <3>2
    <3>4. Most(lines) = l
      BY <2>5, <3>1, MostIs
    <3>5. FindParameter(s, k) = <<r[l].value>>
      BY <2>9, <3>1, <3>2, <3>3
    <3>6. IsKeyExists(s, k)
      BY <2>9, <3>1
    <3>. QED  BY <1>1, <3>1, <3>4, <3>5, <3>6
  <2>. QED  BY <2>7, <2>10, <2>11 DEF KeyMatches
<1>. QED  BY <1>5, <1>6

(* For a file of any length that begins each section once, whatever its     *)
(* names and values: a parameter is found exactly if the file has it, and   *)
(* the value is the one of its last line in that section.                   *)
THEOREM FilesAreRead == IniSpec => []ParametersFound
BY IniStart, IniStep, IniFinds, PTL DEF IniSpec
==============================================================================
