---------------------------- MODULE MCBenchmarks ----------------------------
(* The fork-join programs in small, an instance for each case of interest. *)
EXTENDS SpawnSync

Fib == INSTANCE Fibonacci WITH N <- 4, HAND <- FALSE
HandFib == INSTANCE Fibonacci WITH N <- 3, HAND <- TRUE
Queens == INSTANCE NQueens WITH N <- 4, HAND <- FALSE, Placed <- <<1>>
HandQueens == INSTANCE NQueens WITH N <- 3, HAND <- TRUE, Placed <- <<>>
Mm == INSTANCE MatMul WITH N <- 4, THRESHOLD <- 3, TIMING_COUNT <- 1, HAND <- FALSE
HandMm == INSTANCE MatMul WITH N <- 2, THRESHOLD <- 2, TIMING_COUNT <- 2, HAND <- TRUE
Lu == INSTANCE LU WITH nBlocks <- 4, BLOCK_SIZE <- 1
LuBlocks == INSTANCE LU WITH nBlocks <- 2, BLOCK_SIZE <- 2
Str == INSTANCE Strassen WITH
  N <- 4, SizeAtWhichDivideAndConquerIsMoreEfficient <- 2,
  SizeAtWhichNaiveAlgorithmIsMoreEfficient <- 1
Jacobi == INSTANCE Heat WITH nx <- 5, ny <- 4, nt <- 3, leafmaxcol <- 2, TIMING_COUNT <- 2
Quad == INSTANCE QuadSort WITH
  size <- 29, MERGESIZE <- 2, QUICKSIZE <- 8, INSERTIONSIZE <- 2, TIMING_COUNT <- 1,
  HAND <- FALSE
HandQuad == INSTANCE QuadSort WITH
  size <- 14, MERGESIZE <- 2, QUICKSIZE <- 8, INSERTIONSIZE <- 1, TIMING_COUNT <- 2,
  HAND <- TRUE
Chol == INSTANCE Cholesky WITH
  Depth <- 3, BLOCK_DEPTH <- 0, OffDiagonal <- 6, WHOLE <- FALSE,
  Entries <- {<<1, 0>>, <<4, 0>>, <<6, 0>>, <<7, 3>>}
CholBlocks == INSTANCE Cholesky WITH
  Depth <- 2, BLOCK_DEPTH <- 1, OffDiagonal <- 6, WHOLE <- TRUE,
  Entries <- {<<1, 0>>, <<2, 0>>, <<3, 2>>}
Fft9 == INSTANCE FFT WITH
  N <- 9, Generator <- 5, CUTOFF <- 2, CUTOFF_UNSHUFFLE <- 2, CORRECTNESS <- FALSE
Fft12 == INSTANCE FFT WITH
  N <- 12, Generator <- 5, CUTOFF <- 2, CUTOFF_UNSHUFFLE <- 2, CORRECTNESS <- FALSE
Fft6 == INSTANCE FFT WITH
  N <- 6, Generator <- 5, CUTOFF <- 3, CUTOFF_UNSHUFFLE <- 2, CORRECTNESS <- TRUE
Fft16 == INSTANCE FFT WITH
  N <- 16, Generator <- 5, CUTOFF <- 3, CUTOFF_UNSHUFFLE <- 2, CORRECTNESS <- FALSE

Programs ==
  {"fib", "hand_fib", "nqueens", "hand_nqueens", "mm_dac", "hand_mm_dac", "lu",
   "lu_blocks", "strassen", "heat", "cilksort", "hand_cilksort", "cholesky",
   "cholesky_blocks", "fft_9", "fft_12", "fft_6", "fft_16"}

StartOf(p) ==
  CASE p = "fib" -> Fib!Start
    [] p = "hand_fib" -> HandFib!Start
    [] p = "nqueens" -> Queens!Start
    [] p = "hand_nqueens" -> HandQueens!Start
    [] p = "mm_dac" -> Mm!Start
    [] p = "hand_mm_dac" -> HandMm!Start
    [] p = "lu" -> Lu!Start
    [] p = "lu_blocks" -> LuBlocks!Start
    [] p = "strassen" -> Str!Start
    [] p = "heat" -> Jacobi!Start
    [] p = "cilksort" -> Quad!Start
    [] p = "hand_cilksort" -> HandQuad!Start
    [] p = "cholesky" -> Chol!Start
    [] p = "cholesky_blocks" -> CholBlocks!Start
    [] p = "fft_9" -> Fft9!Start
    [] p = "fft_12" -> Fft12!Start
    [] p = "fft_6" -> Fft6!Start
    [] p = "fft_16" -> Fft16!Start

MemoryOf(p) ==
  CASE p = "fib" -> Fib!Memory
    [] p = "hand_fib" -> HandFib!Memory
    [] p = "nqueens" -> Queens!Memory
    [] p = "hand_nqueens" -> HandQueens!Memory
    [] p = "mm_dac" -> Mm!Memory
    [] p = "hand_mm_dac" -> HandMm!Memory
    [] p = "lu" -> Lu!Memory
    [] p = "lu_blocks" -> LuBlocks!Memory
    [] p = "strassen" -> Str!Memory
    [] p = "heat" -> Jacobi!Memory
    [] p = "cilksort" -> Quad!Memory
    [] p = "hand_cilksort" -> HandQuad!Memory
    [] p = "cholesky" -> Chol!Memory
    [] p = "cholesky_blocks" -> CholBlocks!Memory
    [] p = "fft_9" -> Fft9!Memory
    [] p = "fft_12" -> Fft12!Memory
    [] p = "fft_6" -> Fft6!Memory
    [] p = "fft_16" -> Fft16!Memory

BodyOf(p, t, m) ==
  CASE p = "fib" -> Fib!Body(t, m)
    [] p = "hand_fib" -> HandFib!Body(t, m)
    [] p = "nqueens" -> Queens!Body(t, m)
    [] p = "hand_nqueens" -> HandQueens!Body(t, m)
    [] p = "mm_dac" -> Mm!Body(t, m)
    [] p = "hand_mm_dac" -> HandMm!Body(t, m)
    [] p = "lu" -> Lu!Body(t, m)
    [] p = "lu_blocks" -> LuBlocks!Body(t, m)
    [] p = "strassen" -> Str!Body(t, m)
    [] p = "heat" -> Jacobi!Body(t, m)
    [] p = "cilksort" -> Quad!Body(t, m)
    [] p = "hand_cilksort" -> HandQuad!Body(t, m)
    [] p = "cholesky" -> Chol!Body(t, m)
    [] p = "cholesky_blocks" -> CholBlocks!Body(t, m)
    [] p = "fft_9" -> Fft9!Body(t, m)
    [] p = "fft_12" -> Fft12!Body(t, m)
    [] p = "fft_6" -> Fft6!Body(t, m)
    [] p = "fft_16" -> Fft16!Body(t, m)

DoesOf(p, t, step, m) ==
  CASE p = "fib" -> Fib!Does(t, step, m)
    [] p = "hand_fib" -> HandFib!Does(t, step, m)
    [] p = "nqueens" -> Queens!Does(t, step, m)
    [] p = "hand_nqueens" -> HandQueens!Does(t, step, m)
    [] p = "mm_dac" -> Mm!Does(t, step, m)
    [] p = "hand_mm_dac" -> HandMm!Does(t, step, m)
    [] p = "lu" -> Lu!Does(t, step, m)
    [] p = "lu_blocks" -> LuBlocks!Does(t, step, m)
    [] p = "strassen" -> Str!Does(t, step, m)
    [] p = "heat" -> Jacobi!Does(t, step, m)
    [] p = "cilksort" -> Quad!Does(t, step, m)
    [] p = "hand_cilksort" -> HandQuad!Does(t, step, m)
    [] p = "cholesky" -> Chol!Does(t, step, m)
    [] p = "cholesky_blocks" -> CholBlocks!Does(t, step, m)
    [] p = "fft_9" -> Fft9!Does(t, step, m)
    [] p = "fft_12" -> Fft12!Does(t, step, m)
    [] p = "fft_6" -> Fft6!Does(t, step, m)
    [] p = "fft_16" -> Fft16!Does(t, step, m)

RightOf(p, m) ==
  CASE p = "fib" -> Fib!Right(m)
    [] p = "hand_fib" -> HandFib!Right(m)
    [] p = "nqueens" -> Queens!Right(m)
    [] p = "hand_nqueens" -> HandQueens!Right(m)
    [] p = "mm_dac" -> Mm!Right(m)
    [] p = "hand_mm_dac" -> HandMm!Right(m)
    [] p = "lu" -> Lu!Right(m)
    [] p = "lu_blocks" -> LuBlocks!Right(m)
    [] p = "strassen" -> Str!Right(m)
    [] p = "heat" -> Jacobi!Right(m)
    [] p = "cilksort" -> Quad!Right(m)
    [] p = "hand_cilksort" -> HandQuad!Right(m)
    [] p = "cholesky" -> Chol!Right(m)
    [] p = "cholesky_blocks" -> CholBlocks!Right(m)
    [] p = "fft_9" -> Fft9!Right(m)
    [] p = "fft_12" -> Fft12!Right(m)
    [] p = "fft_6" -> Fft6!Right(m)
    [] p = "fft_16" -> Fft16!Right(m)
=============================================================================
