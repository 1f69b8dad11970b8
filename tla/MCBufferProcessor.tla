-------------------------- MODULE MCBufferProcessor --------------------------
(* The streams of the run of BufferProcessor. *)
EXTENDS BufferProcessor

Stream(i, o, u, h, m, l, n, r) ==
    [cin |-> i, cout |-> o, user |-> u, host |-> h, mode |-> m,
     userInter |-> l.user, hostInter |-> l.host, wider |-> l.wider,
     format |-> "Float32", available |-> {IF l.equal THEN "Float32" ELSE "Int16"}, flags |-> {},
     callback |-> TRUE, frames |-> n, resets |-> r]

Layout(u, h, e, w) == [user |-> u, host |-> h, equal |-> e, wider |-> w]
Layouts == {Layout(u, h, e, 0) : u, h, e \in BOOLEAN} \cup {Layout(TRUE, TRUE, TRUE, 1)}
Mixed == {Layout(TRUE, FALSE, FALSE, 0), Layout(FALSE, TRUE, TRUE, 1)}
Plain == Layout(TRUE, TRUE, FALSE, 0)

Ways == {<<2, 0>>, <<0, 2>>, <<2, 2>>}

\* Every layout, for users that take the buffers as they come.
AsTheyCome == {Stream(d[1], d[2], 0, 3, "unknown", l, 4, 0) : d \in Ways, l \in Layouts}
Bounded == {Stream(1, 2, 0, 3, "bounded", l, 4, 0) : l \in Mixed}
Multiples == {Stream(1, 2, u, 4, "fixed", l, 8, 1) : u \in {1, 2, 4}, l \in Mixed}
\* Every pair of sizes, until the buffers meet again.
Fixed == UNION {{Stream(1, 1, u, h, "fixed", Plain, u * h + h, 0)} : u \in 1 .. 7, h \in 1 .. 7}
HalfDuplex == {Stream(d[1], d[2], u, 3, m, l, 8, 1) :
            d \in {<<2, 0>>, <<0, 2>>}, u \in {2, 4}, m \in {"fixed", "bounded"}, l \in Mixed}
FullDuplex == {Stream(1, 2, u, 3, "bounded", l, 6, 1) : u \in {2, 4}, l \in Mixed}
Blocked == {[Stream(d[1], d[2], 0, 3, "fixed", l, 4, 1) EXCEPT !.callback = FALSE] :
            d \in {<<2, 0>>, <<0, 2>>}, l \in Mixed}

\* Every format, on hosts that have one or two.
OfFormats == {[Stream(1, 1, 0, 1, "fixed", Plain, 0, 0) EXCEPT
                  !.format = t, !.available = a, !.flags = f] :
                 t \in Format, a \in {{x, y} : x, y \in Format}, f \in Flags}

All == OfFormats \cup AsTheyCome \cup Bounded \cup Multiples \cup Fixed \cup HalfDuplex \cup FullDuplex \cup Blocked
PartialOnly == {Stream(1, 1, 3, 3, "partial", Plain, 4, 0)}
=============================================================================
