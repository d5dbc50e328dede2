----------------------------- MODULE MCKbsTasks ------------------------------
EXTENDS KbsTasks
MCTasks == {TaskReadSD, TaskPlayRecording, TaskKeyHandler}
AllTouches == [TouchNum : BOOLEAN, at : Areas]
SongTouches == [TouchNum : BOOLEAN, at : Buttons \cup {Elsewhere}]
=============================================================================
