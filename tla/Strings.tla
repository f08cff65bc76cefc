------------------------------ MODULE Strings ------------------------------
(***************************************************************************)
(* String functions of the kernel (libk/string.c) and those of the user    *)
(* library (libc/string/string.c) that differ from them or exist only      *)
(* there.  Memory is a few cells; 0 ends a string, -1 is the null pointer. *)
(* The loops are written as recursive operators; the properties compare    *)
(* what they return and store with a definition by sets of positions.      *)
(***************************************************************************)
EXTENDS Integers, Sequences, FiniteSets, SequencesExt, FiniteSetsExt

CONSTANTS Cells,     \* the number of cells of memory
          Values,    \* characters other than 0
          High,      \* those of them above 127, negative as a signed char
          MaxNum,    \* bound on the numbers printed and read
          Base       \* the base they are printed in

Mem == [0 .. Cells - 1 -> Values \cup {0}]
null == -1

VARIABLES mem,     \* memory
          tok,     \* strtok's static position
          call,    \* the last call: [f, a, pre, ret], pre being memory before
          tokens,  \* ghost: the tokens strtok has returned for this string
          num      \* ghost: the number that was printed and read

strVars == <<mem, tok, call, tokens, num>>

----------------------------------------------------------------------------
RECURSIVE strlen(_), strchr(_, _), strspn(_, _), strcspn(_, _), memcmp(_, _, _), memcmp_c(_, _, _),
          strcmp(_, _), strncmp(_, _, _), memcpy(_, _, _, _), memback(_, _, _, _), memset(_, _, _, _),
          strcpy(_, _, _), strncpy(_, _, _, _), strncat(_, _, _, _), strrchr(_, _), strpbrk(_, _),
          memchr(_, _, _), strstr_at(_, _, _), digits(_), number(_, _)

(* Looking at memory *)

strlen(s) == IF mem[s] = 0 THEN 0 ELSE 1 + strlen(s + 1)

strchr(s, c) == IF mem[s] = c THEN s ELSE IF mem[s] = 0 THEN null ELSE strchr(s + 1, c)

strspn(s, t) == IF mem[s] # 0 /\ strchr(t, mem[s]) # null THEN 1 + strspn(s + 1, t) ELSE 0

strcspn(s, t) == IF mem[s] = 0 \/ strchr(t, mem[s]) # null THEN 0 ELSE 1 + strcspn(s + 1, t)

strpbrk(s, t) == IF mem[s] = 0 THEN null
                 ELSE IF \E k \in 0 .. strlen(t) - 1 : mem[t + k] = mem[s] THEN s ELSE strpbrk(s + 1, t)

\* the terminating 0 is never found
strrchr(s, c) ==
    IF mem[s] = 0 THEN null
    ELSE LET later == strrchr(s + 1, c) IN IF later # null THEN later ELSE IF mem[s] = c THEN s ELSE null

\* the count is tested after the first character
memchr(s, c, n) ==
    IF mem[s] = c THEN s ELSE IF n = 1 THEN null ELSE memchr(s + 1, c, n - 1)

memcmp(p, q, n) == IF n = 0 THEN 0
                   ELSE IF mem[p] < mem[q] THEN -1 ELSE IF mem[p] > mem[q] THEN 1
                   ELSE memcmp(p + 1, q + 1, n - 1)

Char(v) == IF v \in High THEN v - 256 ELSE v

\* libc compares plain, signed chars
memcmp_c(p, q, n) == IF n = 0 THEN 0
                     ELSE IF Char(mem[p]) < Char(mem[q]) THEN -1 ELSE IF Char(mem[p]) > Char(mem[q]) THEN 1
                     ELSE memcmp_c(p + 1, q + 1, n - 1)

\* 0 or 1, without an order
strcmp(p, q) == IF mem[p] # mem[q] THEN 1 ELSE IF mem[q] = 0 THEN 0 ELSE strcmp(p + 1, q + 1)

\* stops with 0 at the end of either string
strncmp(p, q, n) ==
    IF n = 0 \/ mem[p] = 0 \/ mem[q] = 0 THEN 0 ELSE IF mem[p] # mem[q] THEN 1 ELSE strncmp(p + 1, q + 1, n - 1)

strstr_at(s, t, i) ==
    IF i > strlen(s) - strlen(t) THEN null
    ELSE IF memcmp(s + i, t, strlen(t)) = 0 THEN s + i ELSE strstr_at(s, t, i + 1)

strstr(s, t) == IF strlen(s) < strlen(t) THEN null ELSE strstr_at(s, t, 0)

(* Writing to it: the memory that results *)

memcpy(m, d, s, n) == IF n = 0 THEN m ELSE memcpy([m EXCEPT ![d] = m[s]], d + 1, s + 1, n - 1)

memback(m, d, s, n) == IF n = 0 THEN m ELSE memback([m EXCEPT ![d + n - 1] = m[s + n - 1]], d, s, n - 1)

\* mutant: always upwards
memmove_variant(m, d, s, n) == memcpy(m, d, s, n)

memmove(m, d, s, n) == IF d < s THEN memcpy(m, d, s, n) ELSE memback(m, d, s, n)

\* libc goes through an array on the stack
memmove_c(m, d, s, n) == [i \in DOMAIN m |-> IF i - d \in 0 .. n - 1 THEN m[s + i - d] ELSE m[i]]

memset(m, d, v, n) == IF n = 0 THEN m ELSE memset([m EXCEPT ![d] = v], d + 1, v, n - 1)

strcpy(m, d, s) == IF m[s] = 0 THEN [m EXCEPT ![d] = 0] ELSE strcpy([m EXCEPT ![d] = m[s]], d + 1, s + 1)

strcat(m, d, s) == strcpy(m, d + strlen(d), s)

strncpy(m, d, s, n) ==
    LET one == [m EXCEPT ![d] = m[s]] IN
    IF m[s] = 0 THEN memset(one, d + 1, 0, n - 1) ELSE IF n = 1 THEN one ELSE strncpy(one, d + 1, s + 1, n - 1)

\* d is the end of the first string
strncat(m, d, s, n) ==
    IF m[s] = 0 THEN [m EXCEPT ![d] = 0]
    ELSE IF n = 1 THEN [m EXCEPT ![d] = m[s], ![d + 1] = 0]
    ELSE strncat([m EXCEPT ![d] = m[s]], d + 1, s + 1, n - 1)

strxfrm(m, d, s, n) == memcpy(m, d, s, Min({strlen(s) + 1, n}))

----------------------------------------------------------------------------
(* Calls *)

Done(f, a, ret, after) ==
    /\ call' = [f |-> f, a |-> a, pre |-> mem, ret |-> ret]
    /\ mem' = after
    /\ UNCHANGED <<tok, tokens, num>>

Idle == call.f = "none"
Ptr == DOMAIN mem
Room(p, n) == p + n <= Cells
Apart(p, np, q, nq) == p + np <= q \/ q + nq <= p

\* pointers are to strings that end in memory, and copies do not overlap
Search ==
    /\ Idle
    /\ \E s, t \in Ptr, c \in Values, n \in 1 .. 3 :
        \/ n = 1 /\ Done("strchr", <<s, c>>, strchr(s, c), mem)
        \/ n = 1 /\ Done("strrchr", <<s, c>>, strrchr(s, c), mem)
        \/ n = 1 /\ Done("strspn", <<s, t>>, strspn(s, t), mem)
        \/ n = 1 /\ Done("strcspn", <<s, t>>, strcspn(s, t), mem)
        \/ n = 1 /\ Done("strpbrk", <<s, t>>, strpbrk(s, t), mem)
        \/ n = 1 /\ Done("strstr", <<s, t>>, strstr(s, t), mem)
        \/ Room(s, n) /\ Done("memchr", <<s, c, n>>, memchr(s, c, n), mem)

Compare ==
    /\ Idle
    /\ \E s, t \in Ptr, n \in 0 .. 3 :
        \/ Room(s, n) /\ Room(t, n) /\ Done("memcmp", <<s, t, n>>, memcmp(s, t, n), mem)
        \/ Room(s, n) /\ Room(t, n) /\ Done("memcmp_c", <<s, t, n>>, memcmp_c(s, t, n), mem)
        \/ n = 0 /\ Done("strcmp", <<s, t>>, strcmp(s, t), mem)
        \/ Done("strncmp", <<s, t, n>>, strncmp(s, t, n), mem)

Store ==
    /\ Idle
    /\ \E d, s \in Ptr, n \in 0 .. 3 :
        LET ls == strlen(s) + 1
            end == d + strlen(d)
        IN  \/ Room(d, n) /\ Room(s, n) /\ Apart(d, n, s, n) /\ Done("memcpy", <<d, s, n>>, d, memcpy(mem, d, s, n))
            \/ Room(d, n) /\ Room(s, n) /\ Done("memmove", <<d, s, n>>, d, memmove(mem, d, s, n))
            \/ Room(d, n) /\ Room(s, n) /\ Done("memmove", <<d, s, n>>, d, memmove_c(mem, d, s, n))
            \/ Room(d, n) /\ \E v \in Values : Done("memset", <<d, v, n>>, d, memset(mem, d, v, n))
            \/ n = 0 /\ Room(d, ls) /\ Apart(d, ls, s, ls) /\ Done("strcpy", <<d, s>>, d, strcpy(mem, d, s))
            \/ n = 0 /\ Room(end, ls) /\ Apart(d, end - d + ls, s, ls) /\ Done("strcat", <<d, s>>, d, strcat(mem, d, s))
            \/ n > 0 /\ Room(d, n) /\ Apart(d, n, s, ls) /\ Done("strncpy", <<d, s, n>>, d, strncpy(mem, d, s, n))
            \/ n > 0 /\ Room(end, ls) /\ Apart(d, end - d + ls, s, ls)
               /\ Done("strncat", <<d, s, n>>, d, strncat(mem, end, s, n))
            \/ Room(d, n) /\ Apart(d, n, s, ls) /\ Done("strxfrm", <<d, s, n>>, ls - 1, strxfrm(mem, d, s, n))

\* the token starts behind the delimiters at i
strtok(i, t) == i + strspn(i, t)

\* the delimiter behind the token is overwritten
StrtokCall(first, i, t) ==
    LET s == strtok(i, t)
        e == s + strcspn(s, t)
    IN  /\ call' = [f |-> "strtok", a |-> <<IF first THEN i ELSE call.a[1], t>>,
                    pre |-> IF first THEN mem ELSE call.pre, ret |-> IF e = s THEN null ELSE s]
        /\ tok' = IF e = s \/ mem[e] = 0 THEN null ELSE e + 1
        /\ mem' = IF e = s \/ mem[e] = 0 THEN mem ELSE [mem EXCEPT ![e] = 0]
        /\ tokens' = (IF first THEN <<>> ELSE tokens)
                     \o (IF e = s THEN <<>> ELSE <<[k \in 1 .. e - s |-> mem[s + k - 1]]>>)
        /\ UNCHANGED num

Tokenize ==
    \/ Idle /\ \E s, t \in Ptr : Apart(s, strlen(s) + 1, t, strlen(t) + 1) /\ StrtokCall(TRUE, s, t)
    \/ call.f = "strtok" /\ tok # null /\ StrtokCall(FALSE, tok, call.a[2])

----------------------------------------------------------------------------
(* Numbers: the digits are kept as numbers, minus as "-" *)

\* do ... while (value /= base), for values that are not negative
digits(v) == <<v % Base>> \o (IF v \div Base = 0 THEN <<>> ELSE digits(v \div Base))

itoa(v) == Reverse(digits(v))

number(r, ds) == IF ds = <<>> THEN r ELSE number(Base * r + Head(ds), Tail(ds))

atoi(minus, ds) == IF minus THEN - number(0, ds) ELSE number(0, ds)

Numbers ==
    /\ Idle
    /\ \E v \in 0 .. MaxNum, minus \in BOOLEAN :
        /\ num' = IF minus THEN -v ELSE v
        /\ call' = [f |-> "atoi", a |-> <<itoa(v)>>, pre |-> mem, ret |-> atoi(minus, itoa(v))]
    /\ UNCHANGED <<mem, tok, tokens>>

StrNext == Search \/ Compare \/ Store \/ Tokenize \/ Numbers

StrStops == ~Idle /\ (call.f = "strtok" => tok = null) /\ UNCHANGED strVars

\* every string ends in memory
StrInit(memories) ==
    /\ mem \in {m \in memories : m[Cells - 1] = 0}
    /\ tok = null /\ tokens = <<>> /\ num = 0
    /\ call = [f |-> "none"]

----------------------------------------------------------------------------
(* Properties *)

\* of the memory before the call
End(s) == Min({i \in s .. Cells - 1 : call.pre[i] = 0})
Chars2(s) == {call.pre[i] : i \in s .. End(s) - 1}
FirstIn(S) == IF S = {} THEN null ELSE Min(S)
LastIn(S) == IF S = {} THEN null ELSE Max(S)
Same(p, q, n) == \A i \in 0 .. n - 1 : call.pre[p + i] = call.pre[q + i]

\* The search functions return the first (last) position with what they look
\* for, or the length of the longest prefix.
SearchRight ==
    LET s == call.a[1]
        t == call.a[2]
        x == call.ret
    IN  CASE call.f = "strchr" -> x = FirstIn({i \in s .. End(s) - 1 : call.pre[i] = t})
          [] call.f = "strrchr" -> x = LastIn({i \in s .. End(s) - 1 : call.pre[i] = t})
          [] call.f = "strspn" -> s + x = Min({i \in s .. End(s) : i = End(s) \/ call.pre[i] \notin Chars2(t)})
          [] call.f = "strcspn" -> s + x = Min({i \in s .. End(s) : i = End(s) \/ call.pre[i] \in Chars2(t)})
          [] call.f = "strpbrk" -> x = FirstIn({i \in s .. End(s) - 1 : call.pre[i] \in Chars2(t)})
          [] call.f = "strstr" -> x = FirstIn({i \in s .. End(s) : i + End(t) - t <= End(s) /\ Same(i, t, End(t) - t)})
          [] call.f = "memchr" -> x = FirstIn({i \in s .. s + call.a[3] - 1 : call.pre[i] = t})
          [] OTHER -> TRUE

\* memcmp orders by the first difference (the one of libc by signed characters);
\* strcmp tells equal strings; strncmp stops at the end of the shorter one.
CompareRight ==
    LET p == call.a[1]
        q == call.a[2]
        n == call.a[3]
        diff == {i \in 0 .. n - 1 : call.pre[p + i] # call.pre[q + i]}
        a == call.pre[p + Min(diff)]
        b == call.pre[q + Min(diff)]
        sign(less) == IF diff = {} THEN 0 ELSE IF less THEN -1 ELSE 1
        short == Min({n, End(p) - p, End(q) - q})
    IN  CASE call.f = "memcmp" -> call.ret = sign(a < b)
          [] call.f = "memcmp_c" -> call.ret = sign(IF (a \in High) = (b \in High) THEN a < b ELSE a \in High)
          [] call.f = "strcmp" -> call.ret = 0 <=> End(p) - p = End(q) - q /\ Same(p, q, End(p) - p)
          [] call.f = "strncmp" -> call.ret = 0 <=> Same(p, q, short)
          [] OTHER -> TRUE

\* The functions that write change exactly the cells they should, to what was
\* there before the call; memmove also when the two areas overlap.
StoreRight ==
    LET d == call.a[1]
        s == call.a[2]
        len == End(s) - s
        only(from, n, v(_)) == mem = [i \in DOMAIN mem |-> IF i - from \in 0 .. n - 1 THEN v(i - from) ELSE call.pre[i]]
        copy(k) == IF k < len THEN call.pre[s + k] ELSE 0
        bytes(k) == call.pre[s + k]
        fill(k) == s
    IN  CASE call.f \in {"memcpy", "memmove"} -> only(d, call.a[3], bytes)
          [] call.f = "memset" -> only(d, call.a[3], fill)
          [] call.f = "strcpy" -> only(d, len + 1, copy)
          [] call.f = "strcat" -> only(End(d), len + 1, copy)
          [] call.f = "strncpy" -> only(d, call.a[3], copy)
          [] call.f = "strncat" ->
                LET n == Min({len, call.a[3]})
                    cut(k) == IF k < n THEN call.pre[s + k] ELSE 0
                IN  only(End(d), n + 1, cut)
          [] call.f = "strxfrm" -> only(d, Min({call.a[3], len + 1}), copy) /\ call.ret = len
          [] OTHER -> TRUE

\* Until it returns the null pointer, strtok returns the words of the string:
\* the longest parts without a delimiter, in order.
TokensRight ==
    call.f = "strtok" /\ tok = null =>
        LET s == call.a[1]
            delim == Chars2(call.a[2])
            letter(i) == i \in s .. End(s) - 1 /\ call.pre[i] \notin delim
            starts == {i \in s .. End(s) : letter(i) /\ ~letter(i - 1)}
            word(i) == LET e == Min({j \in i .. End(s) : ~letter(j)}) IN [k \in 1 .. e - i |-> call.pre[i + k - 1]]
            order == SetToSortSeq(starts, LAMBDA a, b : a < b)
        IN  tokens = [k \in 1 .. Len(order) |-> word(order[k])]

\* atoi reads back what itoa prints, with a sign put before it.
NumbersReadBack == call.f = "atoi" => call.ret = num

\* The functions of both string libraries agree with the standard's definitions on
\* every small memory, except in the cases each part names.
StringsRight == SearchRight /\ CompareRight /\ StoreRight /\ TokensRight /\ NumbersReadBack
=============================================================================
