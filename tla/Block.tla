------------------------------- MODULE Block -------------------------------
(* The growable buffer of block.c: how many bytes are in use and how many    *)
(* are allocated.  The bytes themselves are left out, and so is the wrap of  *)
(* the two unsigned sizes: a request is limited by                           *)
(* THREAD_CLIENT_TCP_RECEIVED_MESSAGE_LENGTH and a file by                   *)
(* THREAD_CLIENT_TCP_MAX_FILE_SIZE.                                          *)
EXTENDS Naturals

CONSTANTS
    BLOCK_START_ALLOCATE_SIZE,
    BLOCK_MIN_FREE_ALLOCATE_SIZE,
    BLOCK_MIN_RE_ALLOC_MULTIPLY

ASSUME BlockAssumption ==
    {BLOCK_START_ALLOCATE_SIZE, BLOCK_MIN_FREE_ALLOCATE_SIZE, BLOCK_MIN_RE_ALLOC_MULTIPLY}
        \subseteq Nat \ {0}

Block == [size : Nat, allocated : Nat]

initBlock == [size |-> 0, allocated |-> BLOCK_START_ALLOCATE_SIZE]
resetBlock(block) == [block EXCEPT !.size = 0]

Larger(m, n) == IF m > n THEN m ELSE n

(* Mutant: no room is left for the \0 that follows. *)
reAllocBlockTight(block, requiredSpace) ==
    IF block.allocated >= block.size + requiredSpace
    THEN block
    ELSE [block EXCEPT !.allocated = @ + requiredSpace]

reAllocBlock(block, requiredSpace) ==
    IF block.allocated > block.size + requiredSpace
    THEN block
    ELSE [block EXCEPT !.allocated = Larger(@ + requiredSpace + BLOCK_MIN_FREE_ALLOCATE_SIZE,
                                            @ * BLOCK_MIN_RE_ALLOC_MULTIPLY)]

(* Make room for requiredSpace bytes, write length of them. *)
Added(block, requiredSpace, length) == [reAllocBlock(block, requiredSpace) EXCEPT !.size = @ + length]

addStringBlock(block, requiredSpace) == Added(block, requiredSpace, requiredSpace)
addFormatStringBlock(block, requiredSpace, length) == Added(block, requiredSpace, length)

(* A file that cannot be read as a whole leaves an error message of the      *)
(* given length.                                                             *)
addFileBlock(block, requiredSpace, read, length) ==
    IF read
    THEN Added(block, requiredSpace, requiredSpace)
    ELSE addFormatStringBlock(reAllocBlock(block, requiredSpace), 300, length)

(* checkSizeBlock: the bytes in use and the \0 after them are allocated. *)
checkSizeBlock(block) == block.size < block.allocated
=============================================================================
