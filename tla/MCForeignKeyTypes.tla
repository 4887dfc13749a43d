------------------------- MODULE MCForeignKeyTypes --------------------------
EXTENDS ForeignKeyTypes

ThreeColumns == <<"root", "middle", "leaf">>
=============================================================================
