----------------------------- MODULE MCNotices ------------------------------
EXTENDS Notices

MCSettings == {{"expiryDays"}, {"preDelete", "deleted"}, {"traffic"}}
MCAll == {Kinds}
=============================================================================
