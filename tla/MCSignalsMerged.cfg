SPECIFICATION Spec
PROPERTY AwaitedSignalActedOn
