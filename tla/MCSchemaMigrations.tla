--------------------------- MODULE MCSchemaMigrations ---------------------------
(* Model checking SchemaMigrations: a build, an older one, a newer one and one *)
(* whose second migration was edited.                                          *)
EXTENDS SchemaMigrations

MCCatalogs == {<<"a">>, <<"a", "b">>, <<"a", "b", "c">>, <<"a", "x">>}
===============================================================================
