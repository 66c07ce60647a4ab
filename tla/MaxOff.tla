------------------------------- MODULE MaxOff -------------------------------
(***************************************************************************)
(* The MAX_OFFENSES blocks (maxoff.c): how many offenses an address is     *)
(* allowed, by address, or by the country it is in.  A map keeps every     *)
(* number stored under a key and finds the first (MultiMap); 0, stored in  *)
(* place of a pointer, cannot be told from nothing found.                  *)
(*                                                                         *)
(* The address space is cut down from 32 bits to Width, and the largest    *)
(* subnet from 16 bits to MinBits.                                         *)
(***************************************************************************)
EXTENDS Integers, Sequences, FiniteSets, SequencesExt, Functions

CONSTANTS Width,       \* bits of an IPv4 address
          MinBits,     \* fewest bits a CIDR prefix may have
          Quads,       \* how the addresses are written, from 0.0.0.0 up
          IpSpecs,     \* what sscanf() makes of those values of IP it takes
          Numbers,     \* and of the names of the blocks
          CountryOf    \* COUNTRY_get_code() of each address, or "unknown"

\* 1 shifted to the left, up to the width of an address.
Pow2[n \in 0 .. Width] == IF n = 0 THEN 1 ELSE Pow2[n - 1] * 2

ASSUME WidthAssumption == Width \in Nat \ {0} /\ MinBits \in 1 .. Width
ASSUME QuadsAssumption == Quads \in Seq(DOMAIN CountryOf) /\ Len(Quads) = Pow2[Width]
ASSUME SpecsAssumption ==
  \A val \in DOMAIN IpSpecs :
    IpSpecs[val] \in [kind : {"address"}, addr : DOMAIN CountryOf]
                       \cup [kind : {"cidr"}, base : 0 .. Pow2[Width] - 1, bits : Nat]
ASSUME NumbersAssumption == \A s \in DOMAIN Numbers : Numbers[s] \in Int

\* MAP_addStrKey() of one number under each of the keys.
AddKeys(m, keys, n) ==
  [k \in DOMAIN m \cup keys |-> IF k \in DOMAIN m THEN m[k] ELSE n]
\* MAP_findStrItem().
FindItem(m, k) == IF k \in DOMAIN m THEN m[k] ELSE 0

\* An IP value is an address, a prefix and a number of bits, or neither; in which
\* case it is refused, as are a CIDR of IPv6 and a subnet that is too large.
IsAddress(spec) == spec.kind = "address"
IsCidr(spec) == spec.kind = "cidr"
IsRefused(val) == \/ val \notin DOMAIN IpSpecs
                  \/ IsCidr(IpSpecs[val]) /\ IpSpecs[val].bits < MinBits

\* nAddr: all ones shifted to the right, so the last address of a block is left out.
\* Nothing refuses a prefix that is as long as an address, or longer, and a shift by
\* the whole width or more is undefined: the processor counts modulo the width, or
\* the compiler makes it 0.  Mutant: the bits of the prefix are counted.
NAddr_prefix(bits, shifts) == Pow2[bits % Width] - 1
NAddr(bits, shifts) ==
  IF bits >= Width /\ shifts THEN 0 ELSE (Pow2[Width] - 1) \div Pow2[bits % Width]

\* The addresses a block stands for: net | i for each i < nAddr.
Net(spec) == spec.base - (spec.base % Pow2[(Width - spec.bits) % Width])
HasBit(x, b) == (x \div Pow2[b]) % 2 = 1
IsOr(z, x, y) == \A b \in 0 .. Width - 1 : HasBit(z, b) <=> HasBit(x, b) \/ HasBit(y, b)
Listed(spec, shifts) ==
  IF IsAddress(spec) THEN {spec.addr}
  ELSE LET net == Net(spec)
           offsets == 0 .. NAddr(spec.bits, shifts) - 1
       IN  {Quads[z + 1] : z \in {y \in 0 .. Pow2[Width] - 1 : \E i \in offsets : IsOr(y, net, i)}}

\* MAXOFF_allowed().  Mutant: the country has the first word.
Allowed_country(addr_map, cntry_map, addr) ==
  LET n == FindItem(cntry_map, CountryOf[addr])
  IN  IF n = 0 THEN FindItem(addr_map, addr) ELSE n
Allowed(addr_map, cntry_map, addr) ==
  LET n == FindItem(addr_map, addr)
  IN  IF n = 0 THEN FindItem(cntry_map, CountryOf[addr]) ELSE n
=============================================================================
