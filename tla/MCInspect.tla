------------------------------ MODULE MCInspect ------------------------------
(* Texts over brackets, over form data, over escapes, over prose and over signs. *)
EXTENDS Inspect

Json == {123, 91, 125, 97}        \* { [ } a
Form == {97, 98, 38, 61}          \* a b & =
Url  == {37, 52, 97, 43, 103}     \* % 4 a + g
Prose == {97, 32, 33, 233}        \* a, space, !, e-acute
Signs == {33, 167, 8212, 20013}   \* !, section sign, em dash, a Chinese letter

Texts == {Json, Form, Url, Prose, Signs}
=============================================================================
