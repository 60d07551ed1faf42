SPECIFICATION CoherenceSpec
CONSTANT MaxChanges = 2
PROPERTIES
    ChangeIsNoticed
    FolderIsFollowed
    ReloadIsWarranted
CHECK_DEADLOCK FALSE
