------------------------------- MODULE Sha256 -------------------------------
(***************************************************************************)
(* The digest that the installer computes of a file (sha256.hpp), for      *)
(* files that fit into one block.  A word of 32 bits is the set of the     *)
(* positions of its ones, so that the operators of the code are those of   *)
(* sets and + is addition modulo 2^32.                                     *)
(***************************************************************************)
EXTENDS Naturals, Sequences

CONSTANT Files  \* contents: sequences of at most 55 bytes

Bit == 0..31

BitsOf(n, shift) == {b + shift : b \in {c \in 0..15 : (n \div 2^c) % 2 = 1}}

Word(half) == BitsOf(half[1], 16) \cup BitsOf(half[2], 0)

Xor(x, y)  == (x \ y) \cup (y \ x)
Rotr(x, n) == {(b + 32 - n) % 32 : b \in x}
Shr(x, n)  == {b - n : b \in x \cap n..31}

\* A carry comes in where it was generated below and passed on ever since.
Carries[x, y \in SUBSET Bit] ==
  {b \in Bit : \E g \in x \cap y : g < b /\ (g + 1)..(b - 1) \subseteq x \cup y}

Plus[x, y \in SUBSET Bit] == Xor(Xor(x, y), Carries[x, y])

choose(e, f, g)   == Xor(e \cap f, g \ e)
majority(a, b, c) == Xor(Xor(a \cap b, a \cap c), b \cap c)
sig0(x) == Xor(Xor(Rotr(x, 2), Rotr(x, 13)), Rotr(x, 22))
sig1(x) == Xor(Xor(Rotr(x, 6), Rotr(x, 11)), Rotr(x, 25))

KHalves ==
  <<<<\h428a, \h2f98>>, <<\h7137, \h4491>>, <<\hb5c0, \hfbcf>>, <<\he9b5, \hdba5>>,
    <<\h3956, \hc25b>>, <<\h59f1, \h11f1>>, <<\h923f, \h82a4>>, <<\hab1c, \h5ed5>>,
    <<\hd807, \haa98>>, <<\h1283, \h5b01>>, <<\h2431, \h85be>>, <<\h550c, \h7dc3>>,
    <<\h72be, \h5d74>>, <<\h80de, \hb1fe>>, <<\h9bdc, \h06a7>>, <<\hc19b, \hf174>>,
    <<\he49b, \h69c1>>, <<\hefbe, \h4786>>, <<\h0fc1, \h9dc6>>, <<\h240c, \ha1cc>>,
    <<\h2de9, \h2c6f>>, <<\h4a74, \h84aa>>, <<\h5cb0, \ha9dc>>, <<\h76f9, \h88da>>,
    <<\h983e, \h5152>>, <<\ha831, \hc66d>>, <<\hb003, \h27c8>>, <<\hbf59, \h7fc7>>,
    <<\hc6e0, \h0bf3>>, <<\hd5a7, \h9147>>, <<\h06ca, \h6351>>, <<\h1429, \h2967>>,
    <<\h27b7, \h0a85>>, <<\h2e1b, \h2138>>, <<\h4d2c, \h6dfc>>, <<\h5338, \h0d13>>,
    <<\h650a, \h7354>>, <<\h766a, \h0abb>>, <<\h81c2, \hc92e>>, <<\h9272, \h2c85>>,
    <<\ha2bf, \he8a1>>, <<\ha81a, \h664b>>, <<\hc24b, \h8b70>>, <<\hc76c, \h51a3>>,
    <<\hd192, \he819>>, <<\hd699, \h0624>>, <<\hf40e, \h3585>>, <<\h106a, \ha070>>,
    <<\h19a4, \hc116>>, <<\h1e37, \h6c08>>, <<\h2748, \h774c>>, <<\h34b0, \hbcb5>>,
    <<\h391c, \h0cb3>>, <<\h4ed8, \haa4a>>, <<\h5b9c, \hca4f>>, <<\h682e, \h6ff3>>,
    <<\h748f, \h82ee>>, <<\h78a5, \h636f>>, <<\h84c8, \h7814>>, <<\h8cc7, \h0208>>,
    <<\h90be, \hfffa>>, <<\ha450, \h6ceb>>, <<\hbef9, \ha3f7>>, <<\hc671, \h78f2>>>>

StartHalves ==
  <<<<\h6a09, \he667>>, <<\hbb67, \hae85>>, <<\h3c6e, \hf372>>, <<\ha54f, \hf53a>>,
    <<\h510e, \h527f>>, <<\h9b05, \h688c>>, <<\h1f83, \hd9ab>>, <<\h5be0, \hcd19>>>>

VARIABLES
  file,   \* the content
  stray,  \* the byte behind the literal that final() takes its zeros from
  w,      \* the schedule as far as it is computed
  round,  \* rounds done
  regs,   \* a..h
  state   \* m_state

vars == <<file, stray, w, round, regs, state>>

K     == [i \in 1..64 |-> Word(KHalves[i])]
Start == [i \in 1..8 |-> Word(StartHalves[i])]

\* final(): 0x80, the bytes from "\0" on, of which two are its own, and the
\* number of bits.
Padded ==
  file \o <<128>>
       \o [i \in 1..(55 - Len(file)) |-> IF i <= 2 THEN 0 ELSE stray]
       \o <<0, 0, 0, 0, 0, 0, (Len(file) * 8) \div 256, (Len(file) * 8) % 256>>

Init ==
  /\ file \in Files
  /\ stray \in {0, 255}
  /\ w = [i \in 1..16 |->
            Word(<<256 * Padded[4 * i - 3] + Padded[4 * i - 2],
                   256 * Padded[4 * i - 1] + Padded[4 * i]>>)]
  /\ round = 0
  /\ regs = Start
  /\ state = Start

\* The next word of the schedule: + binds more tightly than ^.
Scheduled ==
  LET i == Len(w) + 1
  IN  Xor(Xor(Rotr(w[i - 2], 17), Rotr(w[i - 2], 19)),
          Plus[Plus[Plus[Shr(w[i - 2], 10), w[i - 7]], sig0(w[i - 15])], w[i - 16]])

Extend ==
  /\ Len(w) < 64
  /\ w' = Append(w, Scheduled)
  /\ UNCHANGED <<file, stray, round, regs, state>>

Round ==
  /\ Len(w) = 64
  /\ round < 64
  /\ round' = round + 1
  /\ LET t1 == Plus[Plus[Plus[Plus[regs[8], sig1(regs[5])],
                              choose(regs[5], regs[6], regs[7])], K[round']], w[round']]
         t2 == Plus[sig0(regs[1]), majority(regs[1], regs[2], regs[3])]
     IN  regs' = <<Plus[t1, t2], regs[1], regs[2], regs[3],
                   Plus[regs[4], t1], regs[5], regs[6], regs[7]>>
  /\ state' = IF round' = 64 THEN [i \in 1..8 |-> Plus[state[i], regs'[i]]] ELSE state
  /\ UNCHANGED <<file, stray, w>>

Next == Extend \/ Round

Spec == Init /\ [][Next]_vars
=============================================================================
