----------------------------- MODULE SubnetProofs -----------------------------
(***************************************************************************)
(* Proofs about Subnet, for addresses of any width, any split into network  *)
(* and last part, any pool and anything that is typed.                      *)
(***************************************************************************)
EXTENDS Subnet, WellFoundedInduction, TLAPS

-----------------------------------------------------------------------------
(* Masks and prefixes.                                                      *)

\* A set of numbers that is not empty has a least one.
LEMMA Least ==
    ASSUME NEW S \in SUBSET Nat, S # {}
    PROVE  \E x \in S : \A y \in S : x <= y
<1>. DEFINE R == OpToRel(<, Nat)
<1>1. IsWellFoundedOn(R, Nat)
  BY NatLessThanWellFounded
<1>. HIDE DEF R
<1>2. PICK x \in S : \A y \in S : ~(<<y, x>> \in R)
  BY <1>1, WFMin
<1>. USE DEF R
<1>3. ASSUME NEW y \in S PROVE x <= y
  <2>1. ~(<<y, x>> \in {ss \in Nat \X Nat : ss[1] < ss[2]})
    BY <1>2 DEF OpToRel
  <2>2. <<y, x>> \in Nat \X Nat /\ <<y, x>>[1] = y /\ <<y, x>>[2] = x
    BY SMT
  <2>. QED  BY <2>1, <2>2
<1>. QED  BY <1>3

\* Some places of an address, if any, have a lowest one.
LEMMA MinExists ==
    ASSUME NEW m \in Addr, m # {}
    PROVE  Min(m) \in m /\ \A i \in m : Min(m) <= i
<1>1. m \subseteq Nat
  BY WidthAssumption DEF Addr
<1>2. \E x \in m : \A y \in m : x <= y
  BY <1>1, Least
<1>. QED  BY <1>2 DEF Min

\* Some prefix lengths, if any, have a longest one.
LEMMA MaxExists ==
    ASSUME NEW S \in SUBSET (0 .. W), S # {}
    PROVE  Max(S) \in S /\ \A b \in S : b <= Max(S)
<1>. DEFINE T == {n \in Nat : W - n \in S}
<1>1. PICK c \in S : TRUE
  OBVIOUS
<1>2. W - c \in T /\ T \in SUBSET Nat
  BY WidthAssumption
<1>3. PICK x \in T : \A y \in T : x <= y
  BY <1>2, Least
<1>4. ASSUME NEW b \in S PROVE W - x >= b
  BY <1>3, WidthAssumption
<1>5. \E b \in S : \A d \in S : b >= d
  BY <1>3, <1>4
<1>. QED  BY <1>5, WidthAssumption DEF Max

\* The one that is not exceeded is the longest.
LEMMA MaxIs ==
    ASSUME NEW S \in SUBSET (0 .. W), NEW b \in S, \A c \in S : c <= b
    PROVE  Max(S) = b
<1>1. Max(S) \in S /\ b <= Max(S)
  BY MaxExists
<1>2. Max(S) <= b
  BY <1>1
<1>3. Max(S) \in 0 .. W /\ b \in 0 .. W
  BY <1>1, Zenon
<1>. QED  BY <1>1, <1>2, <1>3, WidthAssumption

\* add_config finds a prefix of at most the width.
LEMMA LeadingOnesType ==
    ASSUME NEW m \in Addr
    PROVE  LeadingOnes(m) \in 0 .. W
<1>. DEFINE S == {b \in 0 .. W : (W - b) .. (W - 1) \subseteq m}
<1>1. 0 \in S
  BY WidthAssumption
<1>2. Max(S) \in S
  BY <1>1, MaxExists
<1>. QED  BY <1>2 DEF LeadingOnes

\* So does edit_config.
LEMMA BitLengthFormType ==
    ASSUME NEW m \in Addr
    PROVE  BitLengthForm(m) \in 0 .. W
<1>1. CASE m = {}
  BY <1>1, WidthAssumption DEF BitLengthForm
<1>2. CASE m # {}
  <2>1. Min(m) \in 0 .. W - 1
    BY <1>2, MinExists DEF Addr
  <2>. QED  BY <1>2, <2>1, WidthAssumption DEF BitLengthForm
<1>. QED  BY <1>1, <1>2

\* add_config finds the prefix that a contiguous mask was made of.
LEMMA LeadingOnesExact ==
    ASSUME NEW b \in 0 .. W
    PROVE  LeadingOnes(Netmask(b)) = b
<1>. DEFINE S == {c \in 0 .. W : (W - c) .. (W - 1) \subseteq Netmask(b)}
<1>1. b \in S
  BY WidthAssumption DEF Netmask
<1>2. ASSUME NEW c \in S PROVE c <= b
  <2>. SUFFICES ASSUME c > b PROVE FALSE
    BY WidthAssumption
  <2>1. W - b - 1 \in (W - c) .. (W - 1) /\ W - b - 1 \notin Netmask(b)
    BY WidthAssumption DEF Netmask
  <2>. QED  BY <2>1
<1>3. Max(S) = b
  BY <1>1, <1>2, MaxIs
<1>. QED  BY <1>3 DEF LeadingOnes

\* edit_config loses one bit of every contiguous mask but 0.0.0.0, at any width: the
\* defect that subnet_edit shows for one width.
THEOREM EditIsOneShort ==
    ASSUME NEW b \in 1 .. W
    PROVE  BitLengthForm(Netmask(b)) = b - 1
<1>1. Netmask(b) \in Addr /\ W - b \in Netmask(b)
  BY WidthAssumption DEF Netmask, Addr
<1>2. Min(Netmask(b)) \in Netmask(b) /\ Min(Netmask(b)) <= W - b
  BY <1>1, MinExists
<1>3. Min(Netmask(b)) = W - b
  BY <1>2, WidthAssumption DEF Netmask
<1>. QED  BY <1>1, <1>3, WidthAssumption DEF BitLengthForm

-----------------------------------------------------------------------------
(* What the pages store and what apply_config generates.                    *)

\* The directive comes from the row, and a row of the add page from its mask.
Follows ==
    /\ fresh => row # None /\ line = IF mode = "tun" THEN TunLine(row) ELSE BridgeLine(row)
    /\ row # None /\ mode = "tun" /\ page = "add" =>
          row = TunSubnet(asked, LeadingOnes(asked.sub.addr))

\* Every directive there is was generated from some row that the pages accept.
Generated ==
    line # None =>
       IF mode = "tun" THEN \E r \in Cidrs : IsCidr(r) /\ line = TunLine(r)
       ELSE \E r \in Inputs : line = BridgeLine(r)

IInv == TypeOK /\ Follows /\ Generated

\* What is typed is an address and one of three kinds of subnet.
LEMMA InputParts ==
    ASSUME NEW i \in Inputs
    PROVE  /\ i.ip \in Addr /\ i.sub.addr \in Addr
           /\ i.sub.kind \in {"mask", "cidr", "bad"}
           /\ i.sub.kind # "cidr" => i.sub.bits = 0
           /\ i.sub.kind = "cidr" => i.sub.bits \in 0 .. W + 1
           /\ i = [ip |-> i.ip, sub |-> i.sub]
           /\ i.sub = [kind |-> i.sub.kind, addr |-> i.sub.addr, bits |-> i.sub.bits]
  BY IpsAssumption, WidthAssumption DEF Inputs, Subnets, Addr

\* Directives are made of addresses and masks.
LEMMA LineTypes ==
    /\ \A r \in Cidrs : TunLine(r) \in TunLines
    /\ \A r \in Inputs : BridgeLine(r) \in BridgeLines
<1>1. \A b : Netmask(b) \in Addr
  BY DEF Netmask, Addr
<1>2. \A r \in Cidrs : TunLine(r) \in TunLines
  BY <1>1 DEF TunLine, TunLines, Cidrs
<1>3. ASSUME NEW r \in Inputs PROVE BridgeLine(r) \in BridgeLines
  <2>1. PoolLow \in Addr /\ PoolHigh \in Addr
    BY PoolAssumption, WidthAssumption DEF Addr
  <2>2. \A x, y, z \in Addr : (x \intersect y) \union z \in Addr
    BY DEF Addr
  <2>. QED  BY <1>1, <2>1, <2>2, InputParts DEF BridgeLine, BridgeLines
<1>. QED  BY <1>2, <1>3

\* The inductive invariant holds at the start.
LEMMA InitIInv == Init => IInv
  BY NoneAssumption DEF Init, IInv, TypeOK, Follows, Generated

\* A stored row has its type, and is there.
LEMMA StoreKeeps ==
    ASSUME IInv, NEW i \in Inputs, NEW name \in {"add", "edit"}, NEW bits \in 0 .. W,
           Store(i, name, bits),
           name = "add" => bits = LeadingOnes(i.sub.addr)
    PROVE  IInv'
<1>. USE DEF IInv
<1>1. asked' = i /\ page' = name /\ fresh' = FALSE /\ mode' = mode /\ line' = line
  BY DEF Store
<1>2. i # None /\ mode \in {"tun", "tap"}
  BY NoneAssumption DEF TypeOK
<1>3. CASE mode = "tun"
  <2>1. row' = TunSubnet(i, bits) /\ IsCidr(row')
    BY <1>3 DEF Store
  <2>2. row' \in Cidrs
    <3>1. CASE i.sub.kind = "mask"
      BY <2>1, <3>1, InputParts DEF TunSubnet, Cidrs
    <3>2. CASE i.sub.kind # "mask"
      <4>1. row' = [addr |-> i.sub.addr, bits |-> i.sub.bits]
        BY <2>1, <3>2 DEF TunSubnet
      <4>2. i.sub.addr \in Addr /\ i.sub.bits \in 0 .. W + 1
        <5>1. i.sub \in Subnets
          BY DEF Inputs
        <5>2. i.sub.bits = 0 \/ i.sub.bits \in 0 .. W + 1
          BY <5>1 DEF Subnets
        <5>3. i.sub.addr \in Addr
          BY InputParts
        <5>. QED  BY <5>2, <5>3, WidthAssumption
      <4>3. i.sub.bits <= W
        BY <2>1, <4>1 DEF IsCidr
      <4>. QED  BY <4>1, <4>2, <4>3, WidthAssumption DEF Cidrs
    <3>. QED  BY <3>1, <3>2
  <2>3. row' # None
    BY <2>2, NoneAssumption
  <2>. QED  BY <1>1, <1>2, <1>3, <2>1, <2>2, <2>3 DEF TypeOK, Follows, Generated
<1>4. CASE mode = "tap"
  <2>1. row' = [ip |-> i.ip, sub |-> TapSubnet(i)]
    BY <1>4 DEF Store
  <2>2. TapSubnet(i) \in Subnets
    BY DEF TapSubnet, Inputs, Subnets
  <2>3. row' \in Inputs
    BY <2>1, <2>2 DEF Inputs
  <2>4. row' # None
    BY <2>3, NoneAssumption
  <2>. QED  BY <1>1, <1>2, <1>4, <2>3, <2>4 DEF TypeOK, Follows, Generated
<1>. QED  BY <1>2, <1>3, <1>4

\* Every step keeps the inductive invariant.
LEMMA IInvStep == IInv /\ [Next]_vars => IInv'
<1>. SUFFICES ASSUME IInv, [Next]_vars PROVE IInv'
  OBVIOUS
<1>1. CASE Add
  <2>1. PICK i \in Inputs : Store(i, "add", LeadingOnes(i.sub.addr))
    BY <1>1 DEF Add
  <2>. QED  BY <2>1, StoreKeeps, InputParts, LeadingOnesType
<1>2. CASE Edit
  <2>1. PICK i \in Inputs : Store(i, "edit", BitLengthForm(i.sub.addr))
    BY <1>2 DEF Edit
  <2>. QED  BY <2>1, StoreKeeps, InputParts, BitLengthFormType
<1>3. CASE Apply
  <2>1. TypeOK'
    BY <1>3, LineTypes DEF IInv, TypeOK, Apply
  <2>2. Follows'
    BY <1>3 DEF IInv, Follows, Apply
  <2>3. Generated'
    BY <1>3 DEF IInv, TypeOK, Generated, Apply
  <2>. QED  BY <2>1, <2>2, <2>3 DEF IInv
<1>4. CASE UNCHANGED vars
  BY <1>4 DEF vars, IInv, TypeOK, Follows, Generated
<1>. QED  BY <1>1, <1>2, <1>3, <1>4 DEF Next

\* The inductive invariant holds in every reachable state.
LEMMA IInvAlways == Spec => []IInv
  BY InitIInv, IInvStep, PTL DEF Spec

\* Rows and directives are made of addresses, and a tun row is a network.
THEOREM TypeCorrect == Spec => []TypeOK
<1>1. IInv => TypeOK
  BY DEF IInv
<1>. QED  BY IInvAlways, <1>1, PTL

\* A contiguous mask typed into the add page is the mask of the server directive.
THEOREM AddIsAsAsked == Spec => []AddedAsAsked
<1>1. IInv => AddedAsAsked
  <2>. SUFFICES ASSUME IInv, page = "add", fresh, mode = "tun", Contiguous(AskedMask)
                PROVE  line.mask = AskedMask
    BY DEF AddedAsAsked, Served
  <2>1. row # None /\ line = TunLine(row)
    BY DEF IInv, Follows
  <2>2. asked \in Inputs
    BY <2>1 DEF IInv, TypeOK
  <2>3. line.mask = Netmask(TunSubnet(asked, LeadingOnes(asked.sub.addr)).bits)
    BY <2>1 DEF IInv, Follows, TunLine
  <2>4. CASE asked.sub.kind = "mask"
    <3>1. line.mask = Netmask(LeadingOnes(AskedMask)) /\ AskedMask = asked.sub.addr
      BY <2>3, <2>4 DEF TunSubnet, AskedMask
    <3>2. PICK b \in 0 .. W : AskedMask = Netmask(b)
      BY DEF Contiguous
    <3>. QED  BY <3>1, <3>2, LeadingOnesExact
  <2>5. CASE asked.sub.kind # "mask"
    BY <2>3, <2>5 DEF TunSubnet, AskedMask
  <2>. QED  BY <2>4, <2>5
<1>. QED  BY IInvAlways, <1>1, PTL

\* The server directive of a tun configuration names a network.
THEOREM LinesAreNetworks == Spec => []LineIsNetwork
<1>1. IInv => LineIsNetwork
  <2>. SUFFICES ASSUME IInv, mode = "tun", line # None PROVE line.net \subseteq line.mask
    BY DEF LineIsNetwork
  <2>1. PICK r \in Cidrs : IsCidr(r) /\ line = TunLine(r)
    BY DEF IInv, Generated
  <2>2. line.net = r.addr /\ line.mask = Netmask(r.bits) /\ r.addr \in Addr /\ r.bits \in 0 .. W
    BY <2>1 DEF TunLine, Cidrs
  <2>. QED  BY <2>1, <2>2, WidthAssumption DEF IsCidr, Netmask, Addr
<1>. QED  BY IInvAlways, <1>1, PTL

-----------------------------------------------------------------------------
(* The pool.                                                                *)

\* Between two addresses of one subnet there are only addresses of that subnet.
LEMMA Between ==
    ASSUME NEW b \in 0 .. W, NEW low \in Addr, NEW high \in Addr, NEW x \in Addr,
           low \intersect Netmask(b) = high \intersect Netmask(b),
           AtMost(low, x), AtMost(x, high)
    PROVE  x \intersect Netmask(b) = low \intersect Netmask(b)
<1>. SUFFICES ASSUME x # low, x # high
              PROVE  x \intersect Netmask(b) = low \intersect Netmask(b)
  OBVIOUS
<1>1. PICK i \in x \ low : \A j \in low \ x : j < i
  BY DEF AtMost, Less
<1>2. PICK k \in high \ x : \A j \in x \ high : j < k
  BY DEF AtMost, Less
<1>3. i \in Int /\ k \in Int /\ low \subseteq Int /\ x \subseteq Int
  BY WidthAssumption DEF Addr
<1>4. \A m \in Netmask(b), n \in low \union high \union x : m < n => n \in Netmask(b)
  BY WidthAssumption DEF Netmask, Addr
<1>5. ASSUME NEW m \in Netmask(b), m \in x, m \notin low PROVE FALSE
  <2>1. m \notin high /\ m < k
    BY <1>2, <1>5
  <2>2. k \in low \ x
    BY <1>2, <1>4, <2>1
  <2>3. k < i /\ i \in Netmask(b)
    BY <1>1, <1>3, <1>4, <1>5, <2>1, <2>2
  <2>4. i < k
    BY <1>1, <1>2, <2>3
  <2>. QED  BY <1>3, <2>3, <2>4
<1>6. ASSUME NEW m \in Netmask(b), m \in low, m \notin x PROVE FALSE
  <2>1. m < i
    BY <1>1, <1>6
  <2>2. i \in Netmask(b)
    BY <1>1, <1>4, <2>1
  <2>. QED  BY <1>1, <1>5, <2>2
<1>. QED  BY <1>5, <1>6

\* The pool of a bridge whose subnet leaves the last part to the hosts lies inside
\* that subnet, whatever the server's own address is.
THEOREM PoolIsInside == Spec => []PoolInSubnet
<1>1. IInv => PoolInSubnet
  <2>. SUFFICES ASSUME IInv, mode = "tap", line # None, Contiguous(line.mask),
                       line.mask \intersect (0 .. Byte - 1) = {}
                PROVE  /\ Less(line.low, line.high)
                       /\ \A x \in Addr :
                             AtMost(line.low, x) /\ AtMost(x, line.high)
                                => x \intersect line.mask = line.ip \intersect line.mask
    BY DEF PoolInSubnet
  <2>1. PICK r \in Inputs : line = BridgeLine(r)
    BY DEF IInv, Generated
  <2>2. /\ line.low = (line.ip \intersect line.mask) \union PoolLow
        /\ line.high = (line.ip \intersect line.mask) \union PoolHigh
    BY <2>1 DEF BridgeLine
  <2>3. line.low \in Addr /\ line.high \in Addr
    BY <2>1, LineTypes DEF BridgeLines
  <2>4. PoolLow \intersect line.mask = {} /\ PoolHigh \intersect line.mask = {}
    BY PoolAssumption
  <2>5. Less(line.low, line.high)
    BY <2>2, <2>4, PoolAssumption DEF Less
  <2>6. /\ line.low \intersect line.mask = line.ip \intersect line.mask
        /\ line.high \intersect line.mask = line.ip \intersect line.mask
    BY <2>2, <2>4
  <2>7. PICK b \in 0 .. W : line.mask = Netmask(b)
    BY DEF Contiguous
  <2>8. ASSUME NEW x \in Addr, AtMost(line.low, x), AtMost(x, line.high)
        PROVE  x \intersect line.mask = line.ip \intersect line.mask
    BY <2>3, <2>6, <2>7, <2>8, Between
  <2>. QED  BY <2>5, <2>8
<1>. QED  BY IInvAlways, <1>1, PTL
=============================================================================
