------------------------------ MODULE MCLuaTable ------------------------------
(* An instance of LuaTable for TLC.                                          *)
EXTENDS LuaTable

\* Keys beside the integers: a whole double, a fraction and a boolean.
MCKeys == {IntK(2), <<"flt", 4>>, <<"half", 1>>, <<"bool", TRUE>>}
MCLess(a, b) == a = "a" /\ b = "bb"
\* Comparisons of two elements: two orders, always true, always false.
MCOrders == {{<<1, 2>>}, {<<2, 1>>}, {1, 2} \X {1, 2}, {}}
===============================================================================
