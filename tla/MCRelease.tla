------------------------------- MODULE MCRelease -------------------------------
\* A project at 0.0.1, with room for a second patch.
EXTENDS Release

MCFirst == <<0, 0, 1>>
MCVersion == {<<0, 0, 1>>, <<0, 0, 2>>, <<0, 1, 0>>}
===============================================================================
