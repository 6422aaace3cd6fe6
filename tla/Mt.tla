-------------------------------- MODULE Mt ----------------------------------
(***************************************************************************)
(* The multi-threaded matrix-multiply and vector-add tests                 *)
(* (riscv-tests/mt): 44 versions of matmul and 5 of vvadd, each a division *)
(* of the same arithmetic among the cores, run by the harnesses of         *)
(* benchmarks/mt-matmul and mt-vvadd with the barrier of common/util.h.    *)
(*                                                                         *)
(* C[j][i] is the sum over k of A[j][k] * B[k][i]; what a program can get  *)
(* wrong is WHICH products reach which element, and when.  So an element   *)
(* is the set of the k whose product was added, with a flag for a product  *)
(* added twice, and a program is a sequence of operations, each a loop     *)
(* nest over rows, columns and ks with no barrier inside.  An operation    *)
(* reads what it updates when it begins and writes when it ends, and the   *)
(* other core runs in between.  Elements are independent of each other:    *)
(* those of the rows and columns in Seen are followed.                     *)
(*                                                                         *)
(* The programs are written for lda = 32: half of them have it as a        *)
(* literal.                                                                *)
(***************************************************************************)
EXTENDS Integers, Sequences, FiniteSets

CONSTANTS
    lda,        \* the dimension of the matrices
    DATA_SIZE,  \* the length of the vectors
    MaxCores,
    Seen,       \* the rows and columns followed
    SeenElems   \* the vector elements followed

ASSUME LdaAssumption == lda = 32
ASSUME CoresAssumption == MaxCores \in Nat
ASSUME SeenAssumption == Seen \subseteq 0..(lda - 1) /\ SeenElems \subseteq 0..(DATA_SIZE - 1)

VARIABLES
    prog, ncores,       \* which program, on how many cores
    at, stage,          \* per core: next operation, and how far it is in it
    next,               \* per core: the elements as its operation will leave them
    C,                  \* the results
    buf,                \* the static copies of B: per owner and column, the ks filled
    count, sense, threadsense,          \* the barrier
    arrived, left,      \* per core: barriers entered and passed
    failed              \* a verify() found a wrong element

mtVars == <<prog, ncores, at, stage, next, C, buf, count, sense, threadsense,
          arrived, left, failed>>
barrierVars == <<count, sense, threadsense, arrived, left>>

----------------------------------------------------------------------------
(* Loops.  for (x = lo; x < hi; x += step) with a body that works on x + u *)
(* for every u of its unrolled lines.                                      *)

From(lo, hi, step) == {x \in lo..(hi - 1) : (x - lo) % step = 0}
Loop(lo, hi, step, unrolled) == From(lo, hi, step) \X unrolled
Each(lo, hi) == Loop(lo, hi, 1, {0})
All == Each(0, lda)
Visits(loop, x) == Cardinality({v \in loop : v[1] + v[2] = x})
Values(loop) == {v[1] + v[2] : v \in loop}

Range0(k) == 0..(k - 1)
None == -1

\* One loop nest: C[rows][cols] += (or =) the products of the ks, B taken from
\* the input or from a copy.
Visited(loop, seen) == [x \in Values(loop) \cap seen |-> Visits(loop, x)]
Nest(kind, rows, cols, ks, from) ==
    [kind |-> kind, from |-> from, sync |-> FALSE,
     rows |-> Visited(rows, Seen), cols |-> Visited(cols, Seen),
     ks |-> Values(ks), once |-> Cardinality(Values(ks)) = Cardinality(ks)]
Add(rows, cols, ks) == Nest("add", rows, cols, ks, None)
Set(rows, cols, ks) == Nest("set", rows, cols, ks, None)
AddFrom(owner, rows, cols, ks) == Nest("add", rows, cols, ks, owner)
SetFrom(owner, rows, cols, ks) == Nest("set", rows, cols, ks, owner)
\* copy[col][k] = B[k][col]
Fill(owner, cols, ks) == Nest("fill", {}, cols, ks, owner)
Nothing == Nest("add", {}, {}, {}, None)
Verify == [Nothing EXCEPT !.kind = "verify"]
\* Copying input: results_data[i] = input1_data[i].
Copy == [Nothing EXCEPT !.kind = "copy"]
\* The operation, then barrier(ncores).
Sync(op) == [op EXCEPT !.sync = TRUE]
Barrier == Sync(Nothing)

\* Iterations in which something is shared or separated by a barrier: one
\* operation each.  Op takes the loop variables, outermost first.
Iter(lo, hi, step, Op(_)) ==
    [x \in 1..((hi - lo + step - 1) \div step) |-> Op(lo + (x - 1) * step)]
Iter2(lo1, hi1, step1, lo2, hi2, step2, Op(_, _)) ==
    LET n2 == (hi2 - lo2 + step2 - 1) \div step2
        n1 == (hi1 - lo1 + step1 - 1) \div step1
    IN  [x \in 1..(n1 * n2) |-> Op(lo1 + ((x - 1) \div n2) * step1,
                                   lo2 + ((x - 1) % n2) * step2)]

\* coreid*(lda/ncores) .. (coreid+1)*(lda/ncores)
Own(c, nc, step) == Loop(c * (lda \div nc), (c + 1) * (lda \div nc), step,
                         Range0(step))
If(cond, ops) == IF cond THEN ops ELSE <<>>
\* if (coreid == 0) ...; if (coreid == 1 || ncores == 1) ...
Halves(c, nc, first, second) ==
    If(c = 0, first) \o If(c = 1 \/ nc = 1, second)

----------------------------------------------------------------------------
(* The matmul programs, matmul(coreid, ncores, ...). *)

ad_matmul(c, nc) ==
    Iter2(c * (lda \div nc), (c + 1) * (lda \div nc), 1, 0, 32, 2, LAMBDA j, k :
        Sync(Add(Each(j, j + 1), Loop(0, 32, 4, Range0(4)), Each(k, k + 2))))
\* BB is static: all cores fill it, column by column, and all read it.
ae_matmul(c, nc) ==
    Iter(0, lda, 1, LAMBDA k : Sync(Fill(0, Own(c, nc, 1), Each(k, k + 1))))
    \o Iter2(0, lda, 4, c * (lda \div nc), (c + 1) * (lda \div nc), 1, LAMBDA i, j :
           Sync(SetFrom(0, Each(j, j + 1), Each(i, i + 4), Loop(0, lda, 8, Range0(8)))))
af_matmul(c, nc) ==
    <<Set(Loop((c * lda) \div nc, (lda * (1 + c)) \div nc, 2, {0, 1}),
          Loop(0, lda, 4, Range0(4)), Loop(0, lda, 4, Range0(4)))>>
ag_matmul(c, nc) ==
    Iter2(0, lda, 2, 0, lda, 4, LAMBDA i, k :
        Sync(Add(Own(c, nc, 4), Each(i, i + 2), Each(k, k + 4))))
ai_matmul(c, nc) ==
    <<Barrier, Set(Each((c * lda) \div nc, (c * lda) \div nc + lda \div nc),
                   Loop(0, lda, 4, Range0(4)), All)>>
ak_matmul(c, nc) ==
    <<Add(Loop(16 * c, lda, 16 * nc, Range0(16)), Loop(0, lda, 8, Range0(8)),
          Loop(0, lda, 4, Range0(4)))>>
al_matmul(c, nc) ==
    If(c <= 1, Halves(c, nc, <<Add(Each(0, 32), Each(0, 16), Each(0, 32))>>,
                             <<Add(Each(0, 32), Each(16, 32), Each(0, 32))>>))
am_matmul(c, nc) ==
    <<Set(Loop((c * 32) \div nc, (32 * (1 + c)) \div nc, 2, {0, 1}),
          Loop(0, 32, 4, Range0(4)), Loop(0, lda, 4, Range0(4)))>>
an_matmul(c, nc) ==
    Iter2(c * (lda \div nc), (c + 1) * (lda \div nc), 1, 0, lda, 1, LAMBDA j, k :
        Sync(Add(Each(j, j + 1), All, Each(k, k + 1))))
ap_matmul(c, nc) ==
    LET block == lda \div nc
    IN  <<Add(Each(block * c, block * c + block), All, All)>>
aq_matmul(c, nc) == <<Add(All, Loop(c, lda, nc * 2, {0, nc}), All)>>
\* B_t is a local array: every core transposes all of B for itself.
ar_matmul(c, nc) == <<Fill(c, All, All), AddFrom(c, Own(c, nc, 1), All, All)>>
at_matmul(c, nc) ==
    <<Fill(c, All, All),
      AddFrom(c, All, Loop((c * lda) \div nc, ((c + 1) * lda) \div nc, 8, Range0(8)),
              Loop(0, lda, 16, Range0(16)))>>
ByEights == {<<8 * x, u>> : x \in 0..3, u \in 0..7}
\* Core 1 takes the upper rows first in the text.
av_matmul(c, nc) ==
    If(c = 1 \/ nc = 1, <<Add(Each(16, 32), ByEights, ByEights)>>)
    \o If(c = 0, <<Add(Each(0, 16), ByEights, ByEights)>>)
\* j runs over the elements of C: row j >> 5, column j % 32.
Linear(c, nc) == From(c * 512, (IF nc = 1 THEN 2 ELSE c + 1) * 512, 8)
LinearRows(c, nc) == {<<j \div 32, 0>> : j \in Linear(c, nc)}
LinearCols(c, nc) == {<<j % 32, u>> : j \in Linear(c, nc), u \in 0..7}
ay_matmul(c, nc) ==
    If(c <= 1, <<Set(LinearRows(c, nc), LinearCols(c, nc), Loop(0, lda, 2, {0, 1}))>>)
az_matmul(c, nc) ==
    If(c <= 1, <<Set(LinearRows(c, nc), LinearCols(c, nc), Loop(0, lda, 2, {0, 1}))>>)
bb_matmul(c, nc) == <<Set(Own(c, nc, 4), Loop(0, lda, 2, {0, 1}), All)>>
\* Compiled for two cores; on any other number core 0 does it all.
bc_matmul(c, nc) ==
    IF nc = 2 /\ lda = 32
      THEN Iter(0, 32, 16, LAMBDA kk :
             Add(Loop(c * 16, IF c = 1 THEN 32 ELSE (c + 1) * 16, 2, {0, 1}),
                 Loop(0, 32, 8, Range0(8)), Each(kk, kk + 16)))
      ELSE If(c = 0, <<Add(All, All, All)>>)
bf_matmul(c, nc) ==
    Halves(c, nc, <<Set(Each(0, 32), Each(0, 16), Each(0, 32))>>,
                  <<Set(Each(0, 32), Each(16, 32), Each(0, 32))>>)
\* Core 1 walks rows, columns and ks downwards; one operation per half of k.
HalfK(rows, m) == Add(rows, Loop(0, lda, 8, Range0(8)),
                      Loop((m * lda) \div 2, ((m + 1) * lda) \div 2, 2, {0, 1}))
bh_matmul(c, nc) ==
    If(c <= 1, Halves(c, nc,
        <<HalfK(Each(0, lda \div 2), 0), HalfK(Each(0, lda \div 2), 1)>>,
        <<HalfK(Each(lda \div 2, lda), 1), HalfK(Each(lda \div 2, lda), 0)>>))
bj_matmul(c, nc) ==
    If(c <= 1, Halves(c, nc,
        <<HalfK(Each(0, lda \div 2), 0), HalfK(Each(0, lda \div 2), 1)>>,
        <<HalfK(Each(lda \div 2, lda), 1), HalfK(Each(lda \div 2, lda), 0)>>))
Sixteens(rows) == Iter(0, 32, 16, LAMBDA kk :
                     Add(rows, Loop(0, 32, 8, Range0(8)), Each(kk, kk + 16)))
bk_matmul(c, nc) ==
    If(c <= 1, Halves(c, nc, Sixteens(Each(0, 16)), Sixteens(Each(16, 32))))
\* The last core takes the rows that are left.
Rest(c, nc) == Loop((lda \div nc) * c,
                    IF c # nc - 1 THEN (((lda \div nc) * (c + 1)) \div 4) * 4
                                  ELSE (lda \div 4) * 4, 4, Range0(4))
bm_matmul(c, nc) == <<Add(Rest(c, nc), Loop(0, lda, 4, Range0(4)), All)>>
\* B_trans is local; one column of it is filled and used at a time.
bo_matmul(c, nc) ==
    LET rows(lo) == <<Fill(c, Each(0, 32), Each(0, 32)),
                      SetFrom(c, Loop(lo, lo + 16, 2, {0, 1}), Each(0, 32),
                              Loop(0, 32, 8, Range0(8)))>>
    IN  Halves(c, nc, rows(0), rows(16))
\* tB is static, but one per thread; its barriers only order the cores.  The
\* products of every block of 2 rows and width columns end in a barrier: x
\* numbers the blocks of a strip of 16 columns, i2, row by row.
Transposed(c, nc, width) ==
    LET across == 16 \div width
    IN  Iter(0, lda, 2, LAMBDA i : Sync(Fill(c, Own(c, nc, 2), Each(i, i + 2))))
        \o Iter2(c * (lda \div nc), (c + 1) * (lda \div nc), 16,
                 0, (lda \div 2) * across, 1, LAMBDA i2, x :
               Sync(AddFrom(c, Each(2 * (x \div across), 2 * (x \div across) + 2),
                            Loop(i2 + width * (x % across), i2 + width * (x % across) + width,
                                 width, Range0(width)),
                            Loop(0, lda, 4, Range0(4)))))
br_matmul(c, nc) == Transposed(c, nc, 4)
bs_matmul(c, nc) ==
    <<Add(Loop(c, lda, 4 * nc, {0, nc, 2 * nc, 3 * nc}), All, All)>>
\* (The copy used without waiting for the other core's part of it.)
CeNoBarrier(c, nc) ==
    Iter(0, lda, 1, LAMBDA k : Fill(0, Own(c, nc, 1), Each(k, k + 1)))
    \o Iter(0, nc, 1, LAMBDA x :
           AddFrom(0, Own(c, nc, 1),
                   Loop(x * (32 \div nc), (x + 1) * (32 \div nc), 8, Range0(8)),
                   Loop(0, lda, 8, Range0(8))))
ce_matmul(c, nc) ==
    Iter(0, lda, 1, LAMBDA k : Sync(Fill(0, Own(c, nc, 1), Each(k, k + 1))))
    \o Iter(0, nc, 1, LAMBDA x :
           AddFrom(0, Own(c, nc, 1),
                   Loop(x * (32 \div nc), (x + 1) * (32 \div nc), 8, Range0(8)),
                   Loop(0, lda, 8, Range0(8))))
\* The cores divide the ks, not the elements, and walk the rows towards each
\* other: C[row] += temp of both, with no barrier.
cf_matmul(c, nc) ==
    If(c <= 1, Halves(c, nc,
        Iter(0, 32, 2, LAMBDA i : Add(Each(i, i + 2), Each(0, 32), Each(0, 16))),
        Iter(0, 32, 2, LAMBDA i : Add(Each(30 - i, 32 - i), Each(0, 32), Each(16, 32)))))
cg_matmul(c, nc) ==
    Iter2(0, lda, 2, 0, lda, 4, LAMBDA i, k :
        Sync(Add(Own(c, nc, 4), Each(i, i + 2), Each(k, k + 4))))
ci_matmul(c, nc) ==
    <<Barrier, Set(Each((c * lda) \div nc, (c * lda) \div nc + lda \div nc),
                   Loop(0, lda, 4, Range0(4)), All)>>
\* ii starts at the core's own block of columns and wraps around.
ck_matmul(c, nc) ==
    <<Add(Loop(16 * c, lda, 16 * nc, Range0(16)),
          {<<(16 * c + 16 * x) % lda, u>> : x \in 0..(lda \div 16 - 1), u \in Range0(16)},
          Loop(0, lda, 8, Range0(8)))>>
cl_matmul(c, nc) ==
    If(c <= 1, Halves(c, nc, <<Add(Each(0, 32), Each(0, 16), Each(0, 32))>>,
        <<Add(Each(16, 32), Each(16, 32), Each(0, 32)),
          Add(Each(0, 16), Each(16, 32), Each(0, 32))>>))
cm_matmul(c, nc) ==
    Halves(c, nc,
        Iter(0, lda, 2, LAMBDA i : Add(Each(i, i + 2), Each(0, 32), Each(0, 16))),
        Iter(0, 32, 2, LAMBDA i : Add(Each(30 - i, 32 - i), Each(0, 32), Each(16, 32))))
cs_matmul(c, nc) ==
    Iter2(c, lda, 2 * nc, 0, lda, 1, LAMBDA j, i :
        Sync(Set({<<j, 0>>, <<j, nc>>}, Each(i, i + 1), All)))
cv_matmul(c, nc) ==
    If(c = 1 \/ nc = 1, <<Add(Each(16, 32), ByEights, ByEights)>>)
    \o If(c = 0, <<Add(Each(0, 16), ByEights, ByEights)>>)
\* A1 and B1 are static, used by core 1 only.
cy_matmul(c, nc) ==
    LET ks == Loop(0, lda, 2, {0, 1})
    IN  If(c <= 1, IF c = 0
          THEN <<Set(LinearRows(c, nc), LinearCols(c, nc), ks)>>
          ELSE <<Fill(1, Each(0, 32), Each(0, 32)),
                 SetFrom(1, LinearRows(c, nc), LinearCols(c, nc), ks)>>)
\* Like bc, each core beginning with its own half of the ks.
dc_matmul(c, nc) ==
    LET half(lo) == Add(Loop(c * 16, IF c = 1 THEN 32 ELSE (c + 1) * 16, 2, {0, 1}),
                        Loop(0, 32, 8, Range0(8)), Each(lo, lo + 16))
    IN  IF nc = 2 /\ lda = 32
          THEN IF c = 0 THEN <<half(0), half(16)>> ELSE <<half(16), half(0)>>
          ELSE If(c = 0, <<Add(All, All, All)>>)
df_matmul(c, nc) ==
    LET block(rows, cols) == Add(Each(rows, rows + 16), Each(cols, cols + 16), Each(0, 32))
    IN  Halves(c, nc, <<block(0, 0), block(16, 0)>>, <<block(16, 16), block(0, 16)>>)
\* B1 is static: the last core copies the first part of B, the others the rest.
dm_matmul(c, nc) ==
    LET last == c = nc - 1
        cut  == lda \div nc
        cols == Loop(0, (lda \div 4) * 4, 4, Range0(4))
    IN  <<Sync(Fill(0, All, IF last THEN Each(0, cut) ELSE Each(cut, lda))),
          IF last THEN AddFrom(0, Rest(c, nc), cols, All)
                  ELSE Add(Rest(c, nc), cols, All)>>
do_matmul(c, nc) ==
    <<Set(Each(c * (32 \div nc), (c + 1) * (32 \div nc)), Each(0, 32), Each(0, 32))>>
dr_matmul(c, nc) == Transposed(c, nc, 8)
ds_matmul(c, nc) ==
    <<Add(Loop(c * 4, lda, 4 * nc, Range0(4)), All, Loop(0, lda, 2, {0, 1}))>>
du_matmul(c, nc) ==
    <<Set(Loop((c * 32) \div nc, (32 * (1 + c)) \div nc, 2, {0, 1}),
          Loop(0, 32, 4, Range0(4)), Loop(0, lda, 4, Range0(4)))>>
dv_matmul(c, nc) ==
    If(c <= 1, If(c # 0 \/ nc = 1, Sixteens(Each(0, 16)))
               \o If(c = 0, Sixteens(Each(16, 32))))

----------------------------------------------------------------------------
(* The vvadd programs: the elements each core adds, z[i] = x[i] + y[i]. *)

vvadd0(c, nc) ==
    LET leftover == DATA_SIZE % (DATA_SIZE \div nc)
    IN  Each(c * (DATA_SIZE \div nc), (c + 1) * (DATA_SIZE \div nc))
        \cup {<<i - DATA_SIZE, DATA_SIZE>> : i \in From((DATA_SIZE - leftover) + c, DATA_SIZE, nc)}
vvadd1(c, nc) == Loop(c * 4, DATA_SIZE, 8 * nc, (0..3) \cup (nc * 4)..(nc * 4 + 3))
vvadd2(c, nc) == Loop(c, DATA_SIZE, 2 * nc, {0, nc})
\* Duff's device: the switch enters the body of eight at case count % 8, and
\* the do loop runs (count + 7) / 8 times.
vvadd3(c, nc) ==
    LET size  == DATA_SIZE \div nc
        turns == (size + 7) \div 8
        first == IF size % 8 = 0 THEN 8 ELSE size % 8
    IN  {<<c * size + x, 0>> : x \in Range0(first + 8 * (turns - 1))}
vvadd4(c, nc) == Loop(c, DATA_SIZE, nc, {0})

----------------------------------------------------------------------------
(* The harnesses, thread_entry(cid, nc). *)

MatmulEntry(body) == body \o <<Barrier, Verify>>

\* Out of place, checked by core 0; then in place on a copy of the input.
Vector(kind, elems) ==
    [Nothing EXCEPT !.kind = kind, !.rows = Visited(elems, SeenElems),
                    !.cols = [x \in {0} |-> 1], !.ks = {0}]
VvaddEntry(c, elems) ==
    <<Barrier, Sync(Vector("set", elems))>> \o If(c = 0, <<Verify, Copy>>)
    \o <<Barrier, Sync(Vector("add", elems))>> \o If(c = 0, <<Verify>>) \o <<Barrier>>

Programs(c, nc) == [
 ad |-> MatmulEntry(ad_matmul(c, nc)), ae |-> MatmulEntry(ae_matmul(c, nc)),
    af |-> MatmulEntry(af_matmul(c, nc)), ag |-> MatmulEntry(ag_matmul(c, nc)),
    ai |-> MatmulEntry(ai_matmul(c, nc)), ak |-> MatmulEntry(ak_matmul(c, nc)),
    al |-> MatmulEntry(al_matmul(c, nc)), am |-> MatmulEntry(am_matmul(c, nc)),
    an |-> MatmulEntry(an_matmul(c, nc)), ap |-> MatmulEntry(ap_matmul(c, nc)),
    aq |-> MatmulEntry(aq_matmul(c, nc)), ar |-> MatmulEntry(ar_matmul(c, nc)),
    at |-> MatmulEntry(at_matmul(c, nc)), av |-> MatmulEntry(av_matmul(c, nc)),
    ay |-> MatmulEntry(ay_matmul(c, nc)), az |-> MatmulEntry(az_matmul(c, nc)),
    bb |-> MatmulEntry(bb_matmul(c, nc)), bc |-> MatmulEntry(bc_matmul(c, nc)),
    bf |-> MatmulEntry(bf_matmul(c, nc)), bh |-> MatmulEntry(bh_matmul(c, nc)),
    bj |-> MatmulEntry(bj_matmul(c, nc)), bk |-> MatmulEntry(bk_matmul(c, nc)),
    bm |-> MatmulEntry(bm_matmul(c, nc)), bo |-> MatmulEntry(bo_matmul(c, nc)),
    br |-> MatmulEntry(br_matmul(c, nc)), bs |-> MatmulEntry(bs_matmul(c, nc)),
    ce |-> MatmulEntry(ce_matmul(c, nc)), cf |-> MatmulEntry(cf_matmul(c, nc)),
    cg |-> MatmulEntry(cg_matmul(c, nc)), ci |-> MatmulEntry(ci_matmul(c, nc)),
    ck |-> MatmulEntry(ck_matmul(c, nc)), cl |-> MatmulEntry(cl_matmul(c, nc)),
    cm |-> MatmulEntry(cm_matmul(c, nc)), cs |-> MatmulEntry(cs_matmul(c, nc)),
    cv |-> MatmulEntry(cv_matmul(c, nc)), cy |-> MatmulEntry(cy_matmul(c, nc)),
    dc |-> MatmulEntry(dc_matmul(c, nc)), df |-> MatmulEntry(df_matmul(c, nc)),
    dm |-> MatmulEntry(dm_matmul(c, nc)), do |-> MatmulEntry(do_matmul(c, nc)),
    dr |-> MatmulEntry(dr_matmul(c, nc)), ds |-> MatmulEntry(ds_matmul(c, nc)),
    du |-> MatmulEntry(du_matmul(c, nc)), dv |-> MatmulEntry(dv_matmul(c, nc)),
    v0 |-> VvaddEntry(c, vvadd0(c, nc)),
    v1 |-> VvaddEntry(c, vvadd1(c, nc)),
    v2 |-> VvaddEntry(c, vvadd2(c, nc)),
    v3 |-> VvaddEntry(c, vvadd3(c, nc)),
    v4 |-> VvaddEntry(c, vvadd4(c, nc))]
Names == DOMAIN Programs(0, 1)
Vvadds == {"v0", "v1", "v2", "v3", "v4"}
\* Both cores update the same elements with nothing between them: the sum
\* depends on the timing, and these two are only followed on one core.
Racing == {"cf", "cm"}

Code == [nc \in 1..MaxCores |-> [c \in Range0(nc) |-> Programs(c, nc)]]

Cores == Range0(ncores)
Ops(c) == Code[ncores][c][prog]
Op(c) == Ops(c)[at[c]]
Running(c) == at[c] <= Len(Ops(c))

----------------------------------------------------------------------------
Empty == [ks |-> {}, dup |-> FALSE]
CellsOf(p) == IF p \in Vvadds THEN SeenElems \X {0} ELSE Seen \X Seen
Sum(p) == [ks |-> IF p \in Vvadds THEN {0} ELSE Range0(lda), dup |-> FALSE]

\* The first barrier is not yet entered and the static data is zero.
MtInit ==
    /\ ncores \in 1..MaxCores
    /\ prog \in {p \in Names : ncores > 1 => p \notin Racing}
    /\ at = [c \in Cores |-> 1]
    /\ stage = [c \in Cores |-> "begin"]
    /\ next = [c \in Cores |-> <<>>]
    /\ C = [x \in CellsOf(prog) |-> Empty]
    /\ buf = [c \in Cores \cup {1} |-> [x \in Seen |-> {}]]
    /\ count = 0 /\ sense = FALSE
    /\ threadsense = [c \in Cores |-> FALSE]
    /\ arrived = [c \in Cores |-> 0] /\ left = [c \in Cores |-> 0]
    /\ failed = FALSE

\* What the operation leaves in the element x.
Available(op, x) == IF op.from = None THEN op.ks ELSE op.ks \cap buf[op.from][x[2]]
AfterOp(op, x) ==
    LET ks == Available(op, x)
    IN  IF op.kind = "set" THEN [ks |-> ks, dup |-> ~op.once]
        ELSE [ks  |-> C[x].ks \cup ks,
              dup |-> C[x].dup \/ ~op.once \/ op.rows[x[1]] * op.cols[x[2]] > 1
                      \/ C[x].ks \cap ks # {}]

Leave(c, op) ==
    /\ at' = IF op.sync THEN at ELSE [at EXCEPT ![c] = @ + 1]
    /\ stage' = [stage EXCEPT ![c] = IF op.sync THEN "arrive" ELSE "begin"]

\* A loop nest reads its operands ...
Begin(c) ==
    /\ Running(c) /\ stage[c] = "begin"
    /\ Op(c).kind \in {"add", "set"} /\ DOMAIN Op(c).rows # {}
    /\ next' = [next EXCEPT ![c] = [x \in (DOMAIN Op(c).rows) \X (DOMAIN Op(c).cols) |->
                                        AfterOp(Op(c), x)]]
    /\ stage' = [stage EXCEPT ![c] = "end"]
    /\ UNCHANGED <<prog, ncores, at, C, buf, barrierVars, failed>>
\* ... and writes its results.
End(c) ==
    /\ stage[c] = "end"
    /\ C' = [x \in DOMAIN C |-> IF x \in DOMAIN next[c] THEN next[c][x] ELSE C[x]]
    /\ next' = [next EXCEPT ![c] = <<>>]
    /\ Leave(c, Op(c))
    /\ UNCHANGED <<prog, ncores, buf, barrierVars, failed>>
\* Nothing of what is followed is touched: straight to the barrier or on.
Skip(c) ==
    /\ Running(c) /\ stage[c] = "begin"
    /\ Op(c).kind \in {"add", "set"} /\ DOMAIN Op(c).rows = {}
    /\ Leave(c, Op(c))
    /\ UNCHANGED <<prog, ncores, next, C, buf, barrierVars, failed>>
FillCopy(c) ==
    /\ Running(c) /\ stage[c] = "begin" /\ Op(c).kind = "fill"
    /\ buf' = [buf EXCEPT ![Op(c).from] =
                  [x \in Seen |-> IF x \in DOMAIN Op(c).cols THEN @[x] \cup Op(c).ks ELSE @[x]]]
    /\ Leave(c, Op(c))
    /\ UNCHANGED <<prog, ncores, next, C, barrierVars, failed>>
CopyInput(c) ==
    /\ Running(c) /\ stage[c] = "begin" /\ Op(c).kind = "copy"
    /\ C' = [x \in DOMAIN C |-> Empty]
    /\ Leave(c, Op(c))
    /\ UNCHANGED <<prog, ncores, next, buf, barrierVars, failed>>
\* verify(): compares every element with the reference result.
VerifyResults(c) ==
    /\ Running(c) /\ stage[c] = "begin" /\ Op(c).kind = "verify"
    /\ failed' = (failed \/ \E x \in DOMAIN C : C[x] # Sum(prog))
    /\ Leave(c, Op(c))
    /\ UNCHANGED <<prog, ncores, next, C, buf, barrierVars>>

----------------------------------------------------------------------------
(* barrier(ncores): a sense-reversing barrier.  The toggle of the thread's *)
(* own sense and the atomic increment are one step; the last core's two    *)
(* stores are two steps.                                                   *)

Arrive(c) ==
    /\ stage[c] = "arrive"
    /\ threadsense' = [threadsense EXCEPT ![c] = ~@]
    /\ count' = count + 1
    /\ stage' = [stage EXCEPT ![c] = IF count = ncores - 1 THEN "reset" ELSE "spin"]
    /\ arrived' = [arrived EXCEPT ![c] = @ + 1]
    /\ UNCHANGED <<prog, ncores, at, next, C, buf, sense, left, failed>>
\* (The count is not cleared for the next barrier.)
ResetNothing(c) ==
    /\ stage[c] = "reset"
    /\ stage' = [stage EXCEPT ![c] = "release"]
    /\ UNCHANGED <<prog, ncores, at, next, C, buf, count, sense, threadsense, arrived, left, failed>>
ResetCount(c) ==
    /\ stage[c] = "reset"
    /\ count' = 0
    /\ stage' = [stage EXCEPT ![c] = "release"]
    /\ UNCHANGED <<prog, ncores, at, next, C, buf, sense, threadsense, arrived, left, failed>>
Pass(c) ==
    /\ left' = [left EXCEPT ![c] = @ + 1]
    /\ stage' = [stage EXCEPT ![c] = "begin"]
    /\ at' = [at EXCEPT ![c] = @ + 1]
    /\ UNCHANGED <<prog, ncores, next, C, buf, count, threadsense, arrived, failed>>
Release(c) ==
    /\ stage[c] = "release"
    /\ sense' = threadsense[c]
    /\ Pass(c)
Spin(c) ==
    /\ stage[c] = "spin"
    /\ sense = threadsense[c]
    /\ Pass(c)
    /\ UNCHANGED sense

Core(c) ==
    \/ Begin(c) \/ End(c) \/ Skip(c) \/ FillCopy(c) \/ CopyInput(c) \/ VerifyResults(c)
    \/ Arrive(c) \/ ResetCount(c) \/ Release(c) \/ Spin(c)

AllDone == \A c \in Cores : ~Running(c)

----------------------------------------------------------------------------
(* Whatever the timing of the cores, every element of every program (but   *)
(* those of Racing on several cores) is the sum of each of its products    *)
(* once when verify() looks at it.                                         *)
VerifySucceeds == ~failed

(* No core passes its k-th barrier before every core has entered its k-th: *)
(* the reuse of count and sense by the next barrier, while slow cores are  *)
(* still spinning in this one, never lets one through early.               *)
BarrierHolds == \A c, d \in Cores : left[c] <= arrived[d]
====
