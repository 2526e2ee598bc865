-------------------------- MODULE MCCheckpointCache --------------------------
(***************************************************************************)
(* CheckpointCache with every header of two tensors over three bytes and   *)
(* of three tensors over two, headers at the limits and beyond, and caches *)
(* with one thing wrong each.                                              *)
(***************************************************************************)
EXTENDS CheckpointCache

CONSTANTS none, any

HeaderBytes == 8

Tensor(name, width, shape, start, end) ==
    [name |-> name, valid |-> TRUE, width |-> width, shape |-> shape,
     start |-> start, end |-> end]
ByteTensor(name, r) == Tensor(name, 1, <<r[2] - r[1]>>, r[1], r[2])
Metadata(valid) == [Tensor("__metadata__", 0, <<>>, 0, 0) EXCEPT !.valid = valid]

Ranges(n) == {r \in (0..n) \X (0..n) : r[1] <= r[2]}

File(data, entries) ==
    [size |-> 8 + HeaderBytes + data, length |-> HeaderBytes, json |-> "object",
     entries |-> entries]
Good == File(2, <<Metadata(TRUE), Tensor("a", 2, <<1>>, 0, 2)>>)
Other == File(4, <<Tensor("a", 2, <<>>, 2, 4), Tensor("b", 1, <<2, 1>>, 0, 2)>>)

Tilings ==
    {File(3, <<ByteTensor("a", r), ByteTensor("b", s)>>) : r, s \in Ranges(3)} \cup
    {File(2, <<ByteTensor("a", r), ByteTensor("b", s), ByteTensor("c", t)>>) : r, s, t \in Ranges(2)}

\* shapes whose product is not the range, dtypes and names, and sound files with an
\* empty tensor, whose zero dimension comes first or last
Shapes ==
    {File(2, <<Tensor("a", width, shape, start, end)>>) :
        width \in 0..2, start \in {-1, 0}, end \in {0, 2},
        shape \in {<<>>, <<2>>, <<2, 1>>, <<0, 3>>, <<3, 0>>}} \cup
    {File(2, <<Tensor("a", 1, <<3>>, 0, 3)>>), File(2, <<Tensor("", 1, <<2>>, 0, 2)>>)} \cup
    {File(n, <<ByteTensor("a", <<0, n>>), Tensor("b", 1, shape, 0, 0)>>) :
        n \in {0, 2}, shape \in {<<0, 3>>, <<3, 0>>}} \cup
    {File(0, <<Tensor("a", 1, shape, 0, 0)>>) : shape \in {<<0, 3>>, <<3, 0>>}}

Headers ==
    {[Good EXCEPT !.length = n] : n \in {0, 7, 24}} \cup
    {[Good EXCEPT !.size = n] : n \in {0, 7, 12}} \cup
    {[Good EXCEPT !.length = 16, !.size = 26], [Good EXCEPT !.json = "other"],
     [Good EXCEPT !.json = "malformed"]} \cup
    {File(2, e) : e \in {<<>>, <<Metadata(TRUE)>>, <<Metadata(FALSE)>>,
        <<ByteTensor("a", <<0, 2>>), Metadata(FALSE)>>,
        <<ByteTensor("a", <<0, 2>>), ByteTensor("a", <<0, 2>>)>>,
        <<[ByteTensor("a", <<0, 2>>) EXCEPT !.valid = FALSE]>>}}

MCContents == {Good, Other} \cup Tilings \cup Shapes \cup Headers

Holding(entry, own, blob) ==
    [found |-> TRUE, extra |-> FALSE,
     refs |-> [r \in Reference |-> IF r = "main" THEN "same" ELSE "absent"],
     entry |-> entry,
     files |-> [p \in Place |-> CASE p = "own" -> own [] p = "blob" -> blob
                                  [] p = "outside" -> Good]]
Sane == Holding("blob", none, Good)

MCDisks ==
    {Holding("own", c, none) : c \in MCContents} \cup
    {Holding(e, Good, Good) : e \in {"absent", "odd"} \cup Place} \cup
    {Sane, Holding("blob", Good, none), [Sane EXCEPT !.found = FALSE],
     [Sane EXCEPT !.extra = TRUE]} \cup
    {[Sane EXCEPT !.refs[r] = s] : r \in Reference, s \in {"absent", "same", "other", "unsafe"}}

\* another checkpoint in either layout, a link that leads away, a file in the making
MCLater ==
    {Holding("blob", none, Good), Holding("blob", none, Other), Holding("own", Good, none),
     Holding("own", Other, none), Holding("outside", none, Good), Holding("odd", none, Good),
     [Holding("own", Good, Good) EXCEPT !.refs["main"] = "other", !.extra = TRUE]}

Ask(hash, length) == [valid |-> TRUE, safetensors |-> TRUE, bytes |-> length, hash |-> hash]
MCRequests ==
    {Ask(any, any), Ask(Good, Good.size), Ask(any, Good.size), Ask(Good, any),
     [Ask(any, any) EXCEPT !.valid = FALSE], [Ask(any, any) EXCEPT !.safetensors = FALSE]}
=============================================================================
