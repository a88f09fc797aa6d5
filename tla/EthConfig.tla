----------------------------- MODULE EthConfig -----------------------------
(***************************************************************************)
(* trc_fs_cfg_eth.sh: the MAC and the IP address of the host, taken apart  *)
(* and checked, then written to the TSN Tracelink in six writes.           *)
(*                                                                         *)
(* A field of a MAC address is a byte, one of an IP address a sequence of  *)
(* digits; Bad stands for one of other characters or of a wrong length.    *)
(***************************************************************************)
EXTENDS Integers, Sequences, SequencesExt

CONSTANTS
  Arguments,     \* the MAC and IP addresses the script is called with
  Empty, Bad,    \* fields without characters, and with wrong ones
  Unread,        \* what becomes of a number printf cannot read, or of an address
                 \* with one that is too large for sh
  ShellMax,      \* 2^63 - 1: the largest number that [ reads
  Earlier        \* what the registers hold at first, from reset or an earlier call

ASSUME EthAssumption ==
  /\ ShellMax \in Nat
  /\ \A a \in Arguments :
       /\ a.mac \in Seq({Empty, Bad} \cup 0 .. 255)
       /\ a.ip \in Seq({Empty, Bad} \cup Seq(0 .. 9))

VARIABLES
  args,          \* the addresses, as sequences of fields
  ethStep,       \* the write that comes next, 0 before the checks
  ethRegs        \* the registers of the endpoint and of the TraceBus

ethVars == <<args, ethStep, ethRegs>>

\* sh drops an empty field at the end when it splits a word, not one in the middle.
Fields(word) == IF word # <<>> /\ Last(word) = Empty THEN Front(word) ELSE word

Number(base, digits) == FoldLeft(LAMBDA n, d : base * n + d, 0, digits)
IsDigits(field) == field \notin {Empty, Bad}

MacValid == Len(Fields(args.mac)) = 6 /\ \A i \in 1 .. 6 : Fields(args.mac)[i] \notin {Empty, Bad}

\* [ fails on such an octet, which is the same to the script as that it is in range.
Beyond(octet) == Number(10, octet) > ShellMax
IpValid ==
  /\ Len(Fields(args.ip)) = 4
  /\ \A i \in 1 .. 4 : LET octet == Fields(args.ip)[i]
                       IN  IsDigits(octet) /\ (Number(10, octet) <= 255 \/ Beyond(octet))

\* The checks compare decimal numbers, but printf reads octal after a zero.
LeadingZero(octet) == Len(octet) > 1 /\ octet[1] = 0
Hex(octet) ==
  IF ~LeadingZero(octet) THEN Number(10, octet)
  ELSE IF \E i \in DOMAIN octet : octet[i] > 7 THEN Unread ELSE Number(8, octet)

\* printf may make many digits of an octet Beyond, which leave the others no place.
OctetBeyond == \E i \in 1 .. 4 : Beyond(Fields(args.ip)[i])
IpReg == IF OctetBeyond THEN Unread ELSE [i \in 1 .. 4 |-> Hex(Fields(args.ip)[i])]

EthWrite(reg, val) == [reg |-> reg, val |-> val]

\* Mutant of the next definition: the bytes are in the order of the address.
MacRegsForward(mac) == << EthWrite("mac0", SubSeq(mac, 1, 4)), EthWrite("mac1", SubSeq(mac, 5, 6)) >>

\* Little endian: the first byte of the address is the lowest of mac0.
MacRegs(mac) ==
  << EthWrite("mac0", Reverse(SubSeq(mac, 1, 4))), EthWrite("mac1", Reverse(SubSeq(mac, 5, 6))) >>

\* The endpoint is enabled first.
EthScript ==
  << EthWrite("control", \h1936), EthWrite("bus1c", \h5a0), EthWrite("bus30", \h20) >>
  \o MacRegs(Fields(args.mac))
  \o << EthWrite("ip", IpReg) >>
EthEnd == 7
EthDone == ethStep = EthEnd

\* Mutant of the next definition: the IP address is not looked at.
EthCheckMac ==
  /\ ethStep = 0
  /\ ethStep' = IF MacValid THEN 1 ELSE EthEnd
  /\ UNCHANGED <<args, ethRegs>>

\* All checks come before the first write.
EthCheck ==
  /\ ethStep = 0
  /\ ethStep' = IF MacValid /\ IpValid THEN 1 ELSE EthEnd
  /\ UNCHANGED <<args, ethRegs>>

\* devmem may refuse the number OctetBeyond leads to.
EthStore ==
  /\ ethStep \in 1 .. EthEnd - 1
  /\ LET w == EthScript[ethStep]
     IN  \/ ethRegs' = [ethRegs EXCEPT ![w.reg] = w.val]
         \/ w.reg = "ip" /\ OctetBeyond /\ ethRegs' = ethRegs
  /\ ethStep' = ethStep + 1
  /\ UNCHANGED args
-----------------------------------------------------------------------------
EthInit ==
  /\ args \in Arguments /\ ethStep = 0
  /\ ethRegs = [r \in {"control", "bus1c", "bus30", "mac0", "mac1", "ip"} |-> Earlier]

EthNext == EthCheck \/ EthStore
-----------------------------------------------------------------------------
(***************************************************************************)
(* Properties.                                                             *)
(***************************************************************************)
\* "destination IP is ...": when the script ends, the frames go to the host it was
\* given, as a whole, or the call was refused and they go where they went before.
\* Two kinds of octets are the exceptions: those with a leading zero are checked as
\* decimal and written as octal, those beyond what [ reads are not refused.
DestinationWhole ==
  EthDone =>
    IF MacValid /\ IpValid
    THEN /\ Reverse(ethRegs.mac0) \o Reverse(ethRegs.mac1) = Fields(args.mac)
         /\ OctetBeyond \/
              \A i \in 1 .. 4 : LET octet == Fields(args.ip)[i]
                              IN  LeadingZero(octet) \/ ethRegs.ip[i] = Number(10, octet)
    ELSE \A r \in {"control", "mac0", "mac1", "ip"} : ethRegs[r] = Earlier
=============================================================================
