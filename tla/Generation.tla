----------------------------- MODULE Generation ------------------------------
(***************************************************************************)
(* The generated program (cbench_pkg/generation.py, the emitters of        *)
(* cbench_pkg/types.py) for fc functions of depth fd: fc chains of fd      *)
(* functions, each calling the one below it, and a main that calls the top *)
(* of every chain.  A language's syntax is left out.                       *)
(***************************************************************************)
EXTENDS Integers

NoHeight == -1     \* function_name without its third argument
RAND_POOL_SIZE == 4096

\* function_name: chain and height; the top of a chain has no height in its name.
FunctionName(findex, fheight) == <<findex, fheight>>

\* Mutant: the bottom of a chain is the one without a height.
DefinedNameBottom(findex, fheight, depth) ==
  FunctionName(findex, IF fheight = 0 THEN NoHeight ELSE fheight)

\* What the emitter calls the function it defines.
DefinedName(findex, fheight, depth) ==
  FunctionName(findex, IF fheight = depth - 1 THEN NoHeight ELSE fheight)

\* generate_function_definitions: one definition for each turn of its loops.
Slot(fc, fd) == (0 .. fc - 1) \X (0 .. fd - 1)
Defined(fc, fd) == {DefinedName(s[1], s[2], fd) : s \in Slot(fc, fd)}

\* The expressions call the height below, main calls every chain.
CalledInBodies(fc, fd) == {FunctionName(i, h - 1) : i \in 0 .. fc - 1, h \in 1 .. fd - 1}
CalledInMain(fc) == {FunctionName(i, NoHeight) : i \in 0 .. fc - 1}
Called(fc, fd) == CalledInBodies(fc, fd) \cup CalledInMain(fc)

\* rand_idx, and the entry of RAND_STR_POOL it selects: every file starts anew.
RandIdx(findex, fheight, fd) == findex * fd + fheight
NConst(findex, fheight, fd) == RandIdx(findex, fheight, fd) % RAND_POOL_SIZE

\* The program compiles as far as names go.
Closed(fc, fd) == Called(fc, fd) \subseteq Defined(fc, fd)
=============================================================================
